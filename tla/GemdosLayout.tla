---------------------------- MODULE GemdosLayout ----------------------------
(***************************************************************************)
(* How a GEMDOS volume is laid out (src/atarinut/filesystem/blocks.py and  *)
(* the formatting, FAT and probing code of gemdos.py): choosing a geometry *)
(* for an image, writing its boot sector and empty FAT, opening it again   *)
(* by what the boot sector says, and FAT entries of 12 bits that share     *)
(* bytes.                                                                  *)
(*                                                                         *)
(* Sizes are scaled down by the constants; bytes and entries of the FAT    *)
(* are not.  A boot sector keeps its parameters, the checksum word and the *)
(* sum of all other words.  Clusters, the root directory and labels are    *)
(* left out: GemdosVolume has them.                                        *)
(***************************************************************************)
EXTENDS Integers, FiniteSets, Sequences

CONSTANTS
    SectorBytes,    \* SECTOR_SIZE, 512
    RecordBytes,    \* DIRECTORY_ENTRY_SIZE, 32
    LogicalSizes,   \* LOGICAL_SECTOR_SIZES, in sectors and in their order
    Fat16From,      \* FAT16_THRESHOLD, 4085
    MostClusters,   \* TOS_MAX_CLUSTERS, 32766
    MostPerCluster, \* 128: sectors per cluster are doubled up to this
    CountLimit,     \* 0xFFFF: what the sector count of a boot sector holds
    WordSize,       \* 2^16
    BootMagic,      \* BOOT_CHECKSUM_MAGIC, 0x1234
    FloppyMedia,    \* media bytes of floppies and of drives
    DriveMedia,
    FloppyRoots,    \* root records of floppies and of partitions, 112 and 512
    DriveRoots,
    FloppySectors,  \* the named floppy formats: sizes in sectors
    FloppyFat,      \* ... and the FAT sectors TOS gives each
    ImageSizes,     \* sizes of images in sectors
    OtherBoots,     \* boot sectors other programs wrote
    WordSums,       \* sums of the words of a boot sector except the last
    MaxFatSets,     \* bound: entries set in a behaviour
    NotLaidOut, NotMounted

VARIABLES
    volumeImage,    \* the image: its sectors, boot sector and copies of the FAT
    laidOut,        \* what format_volume() wrote: geometry and boot flag
    home,           \* an image of its own, a partition that a table leads to,
                    \* or an image copied out of one
    mounted,        \* GEMDOSVolume: its geometry, width and the FAT in memory
    entriesSet,     \* what the entries of the FAT were set to since
    entriesKept,    \* ... as of the last time the FAT was stored
    fatSets         \* how many entries were set

layoutVars == <<volumeImage, laidOut, home, mounted, entriesSet, entriesKept, fatSets>>
-----------------------------------------------------------------------------
(***************************************************************************)
(* Geometry                                                                *)
(***************************************************************************)
Ceiling(n, d) == (n + d - 1) \div d
FatBytes(clusters, width) ==
    IF width = 12 THEN ((clusters + 2) * 3 + 1) \div 2 ELSE (clusters + 2) * 2
WidthOf(clusters) == IF clusters < Fat16From THEN 12 ELSE 16

\* Sizes and roots of a geometry before its FAT is known.
RootSectors(g) == Ceiling(g.roots * RecordBytes, g.size * SectorBytes)
DataStart(g) == g.reserved + g.fats * g.spf + RootSectors(g)
DataClusters(g) ==
    IF g.total > DataStart(g) THEN (g.total - DataStart(g)) \div g.perCluster ELSE 0
FatWidth(g) == IF g.width # 0 THEN g.width ELSE WidthOf(DataClusters(g))
PhysicalSectors(g) == g.total * g.size

\* minimum_sectors_per_fat(): the clusters and the FAT that indexes them
\* depend on each other; 0 says that the volume is too small.
LeastFat(g) ==
    LET needed(spf) ==
            LET clusters == DataClusters([g EXCEPT !.spf = spf])
                width == IF g.width # 0 THEN g.width ELSE WidthOf(clusters)
            IN  Ceiling(FatBytes(clusters, width), g.size * SectorBytes)
        least[spf \in Nat] ==
            IF DataClusters([g EXCEPT !.spf = spf]) = 0 THEN 0
            ELSE IF needed(spf) <= spf THEN spf ELSE least[needed(spf)]
    IN  least[1]

Layout(size, perCluster, roots, total, media, width) ==
    [size |-> size, perCluster |-> perCluster, reserved |-> 1, fats |-> 2, roots |-> roots,
     total |-> total, spf |-> 1, media |-> media, width |-> width]

\* floppy_geometry(): at least the FAT sectors that TOS writes.
FloppyGeometry(sectors) ==
    LET g == Layout(1, 2, FloppyRoots, sectors, FloppyMedia, 0)
        least == LeastFat(g)
    IN  [g EXCEPT !.spf = IF least < FloppyFat[sectors] THEN FloppyFat[sectors] ELSE least]

\* partition_geometry(): the smallest logical sector that leaves few enough
\* clusters of two, else larger clusters.  It is FAT16 whatever its size.
PartitionGeometry(sectors) ==
    LET fits(k) == (sectors \div LogicalSizes[k]) \div 2 <= MostClusters
        chosen == {k \in DOMAIN LogicalSizes :
                      fits(k) /\ \A j \in 1 .. k - 1 : ~fits(j)}
        size == LogicalSizes[IF chosen = {} THEN Len(LogicalSizes) ELSE CHOOSE k \in chosen : TRUE]
        total == sectors \div size
        per[n \in Nat] ==
            IF total \div n > MostClusters /\ n < MostPerCluster THEN per[n * 2] ELSE n
        g == Layout(size, per[2], DriveRoots, total, DriveMedia, 16)
    IN  [g EXCEPT !.spf = LeastFat(g)]

\* volume_geometry(): an image of the size of a floppy is a floppy.
VolumeGeometry(sectors) ==
    IF sectors \in FloppySectors THEN FloppyGeometry(sectors) ELSE PartitionGeometry(sectors)

\* Geometry.check().
Checked(g) == g.spf > 0 /\ DataClusters(g) > 0 /\ LeastFat(g) \in 1 .. g.spf
-----------------------------------------------------------------------------
(***************************************************************************)
(* Boot sectors                                                            *)
(***************************************************************************)

\* Mistake: a boot sector that is not to be run gets a checksum word of zero
\* whatever its other words are.
ChecksumWordZero(sum, executable) ==
    IF executable THEN (BootMagic - sum) % WordSize ELSE 0

\* apply_boot_checksum(): the word that makes the sum the one the ROM runs,
\* or one that does not.
ChecksumWord(sum, executable) ==
    IF executable THEN (BootMagic - sum) % WordSize
    ELSE IF sum = BootMagic THEN 1 ELSE 0
Executable(boot) == (boot.sum + boot.word) % WordSize = BootMagic

\* build_boot_sector(): the parameters; its width is not one of them.
BootSector(g, sum, executable) ==
    [size |-> g.size, perCluster |-> g.perCluster, reserved |-> g.reserved, fats |-> g.fats,
     roots |-> g.roots, count |-> g.total, wide |-> 0, spf |-> g.spf, media |-> g.media,
     sum |-> sum, word |-> ChecksumWord(sum, executable)]

\* parse_boot_sector() and BootSector.geometry(): a count of zero says that
\* the wide one is in use.
Parsed(boot) ==
    [size |-> boot.size, perCluster |-> boot.perCluster, reserved |-> boot.reserved,
     fats |-> boot.fats, roots |-> boot.roots,
     total |-> IF boot.count = 0 THEN boot.wide ELSE boot.count,
     spf |-> boot.spf, media |-> boot.media, width |-> 0]

PowersOfTwo == {2^n : n \in 0 .. 7}

\* bpb_problems() without an image: none of them.
Usable(boot) ==
    LET g == Parsed(boot)
    IN  /\ g.size \in {LogicalSizes[k] : k \in DOMAIN LogicalSizes}
        /\ g.perCluster \in PowersOfTwo /\ g.fats \in {1, 2}
        /\ g.reserved > 0 /\ g.roots > 0 /\ g.total > 0 /\ g.spf > 0
        /\ DataClusters(g) > 0
Truncated(i) == PhysicalSectors(Parsed(i.boot)) > i.sectors

NoBoot == [size |-> 0, perCluster |-> 0, reserved |-> 0, fats |-> 0, roots |-> 0, count |-> 0,
           wide |-> 0, spf |-> 0, media |-> 0, sum |-> 0, word |-> 0]
-----------------------------------------------------------------------------
(***************************************************************************)
(* The FAT as bytes                                                        *)
(***************************************************************************)
FatSize(g) == g.spf * g.size * SectorBytes
Zeros(g) == [o \in 0 .. FatSize(g) - 1 |-> 0]
Eoc(width) == IF width = 12 THEN 4095 ELSE 65535
IsEoc(value, width) == value >= Eoc(width) - 7
FatAt(c, width) == IF width = 16 THEN c * 2 ELSE c + (c \div 2)
InTable(fat, c, width) == FatAt(c, width) + 1 \in DOMAIN fat

\* _fat_get(): an entry of 12 bits shares a byte with its neighbour.
Entry16(fat, o) == fat[o] + 256 * fat[o + 1]
FatGet(fat, c, width) ==
    LET o == FatAt(c, width)
    IN  IF width = 16 THEN Entry16(fat, o)
        ELSE IF c % 2 = 1 THEN (fat[o] \div 16) + 16 * fat[o + 1]
        ELSE fat[o] + 256 * (fat[o + 1] % 16)

\* Mistake: an entry at an even number clears the half byte of the next one.
FatSetWhole(fat, c, width, value) ==
    LET o == FatAt(c, width)
    IN  IF width = 16 THEN [fat EXCEPT ![o] = value % 256, ![o + 1] = value \div 256]
        ELSE IF c % 2 = 1
        THEN [fat EXCEPT ![o] = (@ % 16) + 16 * (value % 16), ![o + 1] = (value \div 16) % 256]
        ELSE [fat EXCEPT ![o] = value % 256, ![o + 1] = (value \div 256) % 16]

\* _fat_set().
FatSet(fat, c, width, value) ==
    LET o == FatAt(c, width)
    IN  IF width = 16 THEN [fat EXCEPT ![o] = value % 256, ![o + 1] = value \div 256]
        ELSE IF c % 2 = 1
        THEN [fat EXCEPT ![o] = (@ % 16) + 16 * (value % 16), ![o + 1] = (value \div 16) % 256]
        ELSE [fat EXCEPT ![o] = value % 256,
                         ![o + 1] = 16 * (@ \div 16) + ((value \div 256) % 16)]

\* The FAT that format_volume() writes: the media marker and an end marker.
EmptyFat(g) ==
    IF FatWidth(g) = 12
    THEN [Zeros(g) EXCEPT ![0] = g.media, ![1] = 255, ![2] = 255]
    ELSE [Zeros(g) EXCEPT ![0] = g.media, ![1] = 255, ![2] = 255, ![3] = 255]
Marker(g, width) == (IF width = 12 THEN 3840 ELSE 65280) + g.media

\* _detect_fat_width(): logical sectors of a drive, room for 16 bits and
\* markers of 16 bits say FAT16 where the clusters alone would say FAT12.
Detected(g, fat) ==
    IF /\ g.width = 0 /\ FatWidth(g) = 12 /\ g.size > 1
       /\ FatSize(g) >= (DataClusters(g) + 2) * 2
       /\ Entry16(fat, 0) = Marker(g, 16) /\ Entry16(fat, 2) = 65535
    THEN 16 ELSE FatWidth(g)

Last2(g) == DataClusters(g) + 1
DataClusterNumbers(g) == 2 .. Last2(g)

\* Sectors that the FAT occupies must be in the image to be read.
FatReadable(i, g) == (g.reserved + g.spf) * g.size <= i.sectors
Mount(g, fat, width) == [geometry |-> g, fat |-> fat, width |-> width, dirty |-> FALSE]

\* probe_volume(): how sure it is of what it found.
Probed(i) ==
    LET g == Parsed(i.boot)
        fat == i.fats[1]
        width == Detected(g, fat)
        marker == FatGet(fat, 0, width)
        end == FatGet(fat, 1, width)
    IN  IF ~Usable(i.boot) \/ ~FatReadable(i, g) THEN "none"
        ELSE IF Truncated(i) THEN "truncated"
        ELSE IF marker = 0 /\ end = 0 THEN "unmarked"
        ELSE IF marker # Marker(g, width) \/ ~IsEoc(end, width) THEN "mismarked"
        ELSE IF g.perCluster > 2 THEN "large clusters"
        ELSE "sure"
-----------------------------------------------------------------------------
BlankImage(sectors) ==
    [sectors |-> sectors, boot |-> NoBoot, fats |-> [n \in {1, 2} |-> <<>>]]

\* An image of another program: its FAT is empty, with or without markers.
OtherImage(sectors, boot, marked) ==
    LET g == Parsed(boot)
        fat == IF marked THEN EmptyFat(g) ELSE Zeros(g)
    IN  [sectors |-> sectors, boot |-> boot, fats |-> [n \in {1, 2} |-> fat]]

LayoutInit ==
    /\ volumeImage \in {BlankImage(n) : n \in ImageSizes}
                       \cup {OtherImage(n, b, k) : n \in ImageSizes, b \in OtherBoots, k \in BOOLEAN}
    /\ laidOut = NotLaidOut
    /\ home \in {"whole", "partition"}
    /\ mounted = NotMounted
    /\ entriesSet = <<>>
    /\ entriesKept = <<>>
    /\ fatSets = 0

\* format_volume(): everything is checked before the first sector is written;
\* the volume is then open with the geometry it was given.
Format(g, executable) ==
    /\ mounted = NotMounted /\ laidOut = NotLaidOut
    /\ Checked(g)
    /\ PhysicalSectors(g) <= volumeImage.sectors
    /\ g.total <= CountLimit
    /\ \E sum \in WordSums :
          volumeImage' = [volumeImage EXCEPT !.boot = BootSector(g, sum, executable),
                                             !.fats = [n \in {1, 2} |-> EmptyFat(g)]]
    /\ laidOut' = [geometry |-> g, executable |-> executable]
    /\ mounted' = Mount(g, EmptyFat(g), FatWidth(g))
    /\ entriesSet' = [c \in DataClusterNumbers(g) |-> 0]
    /\ entriesKept' = [c \in DataClusterNumbers(g) |-> 0]
    /\ UNCHANGED <<home, fatSets>>

\* disc create --format: a named floppy in an image of its own.
FormatFloppy(executable) ==
    /\ home = "whole" /\ volumeImage.sectors \in FloppySectors
    /\ Format(FloppyGeometry(volumeImage.sectors), executable)

\* disc create --size and disc format, of an image or of one partition.
FormatVolume(executable) == Format(VolumeGeometry(volumeImage.sectors), executable)

\* A bare volume of the workbench, and each partition of a new drive.
FormatPartition(executable) == Format(PartitionGeometry(volumeImage.sectors), executable)

\* GEMDOSVolume(): by what the boot sector says, except that the volume a
\* table leads to has 16 bits.
OpenVolume ==
    /\ mounted = NotMounted
    /\ Usable(volumeImage.boot)
    /\ LET g == Parsed(volumeImage.boot)
           fat == volumeImage.fats[1]
       IN  /\ FatReadable(volumeImage, g)
           /\ mounted' = Mount(g, fat, IF home = "partition" THEN 16 ELSE Detected(g, fat))
    /\ entriesSet' = entriesKept
    /\ UNCHANGED <<volumeImage, laidOut, home, entriesKept, fatSets>>

\* Any call that changes the FAT in memory: a free entry, an end, a link.
SetEntry(c, value) ==
    /\ mounted # NotMounted /\ laidOut # NotLaidOut /\ fatSets < MaxFatSets
    /\ c \in DataClusterNumbers(mounted.geometry)
    /\ InTable(mounted.fat, c, mounted.width)
    /\ mounted' = [mounted EXCEPT !.fat = FatSet(@, c, mounted.width, value), !.dirty = TRUE]
    /\ entriesSet' = [entriesSet EXCEPT ![c] = value]
    /\ fatSets' = fatSets + 1
    /\ UNCHANGED <<volumeImage, laidOut, home, entriesKept>>

\* _store_fat(): to every copy.
StoreFat ==
    /\ mounted # NotMounted /\ mounted.dirty
    /\ volumeImage' = [volumeImage EXCEPT !.fats = [n \in {1, 2} |-> mounted.fat]]
    /\ mounted' = [mounted EXCEPT !.dirty = FALSE]
    /\ entriesKept' = entriesSet
    /\ UNCHANGED <<laidOut, home, entriesSet, fatSets>>

\* _discard_fat(), and the load that follows.
DiscardFat ==
    /\ mounted # NotMounted /\ mounted.dirty
    /\ mounted' = [mounted EXCEPT !.fat = volumeImage.fats[1], !.dirty = FALSE]
    /\ entriesSet' = entriesKept
    /\ UNCHANGED <<volumeImage, laidOut, home, entriesKept, fatSets>>

\* The volume is closed with nothing left to store.
CloseVolume ==
    /\ mounted # NotMounted /\ ~mounted.dirty
    /\ mounted' = NotMounted
    /\ UNCHANGED <<volumeImage, laidOut, home, entriesSet, entriesKept, fatSets>>

\* A partition is copied out into an image of its own: no table leads to it.
DumpPartition ==
    /\ mounted = NotMounted /\ laidOut # NotLaidOut
    /\ home = "partition"
    /\ home' = "dumped"
    /\ UNCHANGED <<volumeImage, laidOut, mounted, entriesSet, entriesKept, fatSets>>

LayoutNext ==
    \/ \E executable \in BOOLEAN : FormatFloppy(executable) \/ FormatVolume(executable)
                                   \/ FormatPartition(executable)
    \/ OpenVolume
    \/ /\ mounted # NotMounted
       /\ \E c \in 2 .. MostClusters :
             \E value \in {0, Eoc(mounted.width), Last2(mounted.geometry)} : SetEntry(c, value)
    \/ StoreFat \/ DiscardFat \/ CloseVolume \/ DumpPartition

LayoutSpec == LayoutInit /\ [][LayoutNext]_layoutVars
-----------------------------------------------------------------------------
\* The state is well typed.
LayoutTypeOK ==
    /\ volumeImage.sectors \in ImageSizes
    /\ \A n \in {1, 2} : \A o \in DOMAIN volumeImage.fats[n] : volumeImage.fats[n][o] \in 0 .. 255
    /\ home \in {"whole", "partition", "dumped"}
    /\ mounted # NotMounted =>
          /\ mounted.width \in {12, 16} /\ mounted.dirty \in BOOLEAN
          /\ \A o \in DOMAIN mounted.fat : mounted.fat[o] \in 0 .. 255
    /\ fatSets \in 0 .. MaxFatSets

\* Whether what is on the image tells the width the volume was laid out with:
\* a table says 16 bits, otherwise the clusters do, or the markers of a drive
\* with larger logical sectors (README: "A partition reached through a table is
\* FAT16 whatever its cluster count").
WidthTold ==
    /\ laidOut # NotLaidOut
    /\ LET g == laidOut.geometry
       IN  /\ home # "whole" => FatWidth(g) = 16
           /\ home # "partition" => WidthOf(DataClusters(g)) = FatWidth(g) \/ g.size > 1

\* A volume that was laid out stays readable: every cluster lies within the
\* image and has an entry in the FAT, opening it again finds its geometry and
\* width, and each entry reads as it was last set whatever was done to its
\* neighbours (format_volume(), minimum_sectors_per_fat(), _detect_fat_width(),
\* _fat_get() and _fat_set()).
EntriesReadAsSet ==
    (mounted # NotMounted /\ WidthTold) =>
        LET g == mounted.geometry
        IN  /\ mounted.width = FatWidth(laidOut.geometry)
            /\ DataClusterNumbers(g) = DOMAIN entriesSet
            /\ (DataStart(g) + DataClusters(g) * g.perCluster) * g.size <= volumeImage.sectors
            /\ \A c \in DataClusterNumbers(g) :
                  /\ InTable(mounted.fat, c, mounted.width)
                  /\ FatGet(mounted.fat, c, mounted.width) = entriesSet[c]

\* What was formatted is identified again with full confidence (large clusters
\* cost some), and is executable exactly when that was asked for
\* (build_boot_sector(), apply_boot_checksum(), probe_volume()).
FormattedIsFound ==
    laidOut # NotLaidOut =>
        /\ Probed(volumeImage) = IF laidOut.geometry.perCluster > 2 THEN "large clusters" ELSE "sure"
        /\ Executable(volumeImage.boot) <=> laidOut.executable

\* A volume opens with the width it was formatted with: the workbench announces
\* "a bare FAT16 volume" whose geometry "has to come from the boot sector, which
\* is what the engine writes here" (_create_blank_volume()).  The width is not in
\* the boot sector, and a small volume opens as FAT12.
FormattedReopens ==
    (mounted # NotMounted /\ laidOut # NotLaidOut) =>
        mounted.width = FatWidth(laidOut.geometry)
=============================================================================
