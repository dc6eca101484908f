-------------------------- MODULE ContainerFormats --------------------------
(***************************************************************************)
(* Floppy containers and the sector image they stand for: Magic Shadow     *)
(* Archiver (src/app/msa.py), FastCopy Pro (dim.py), Pasti (stx.py) and    *)
(* SPS captures (ipf.py), read into plain sectors, edited, and written     *)
(* back as MSA or DIM (container_disk_service.py, disk_service.py).        *)
(*                                                                         *)
(* A disk has two tracks of one side and two sectors.  A sector is         *)
(* SectorBytes bytes; the longest run of a record is MaxRun, for 65,535.   *)
(***************************************************************************)
EXTENDS Naturals, FiniteSets, SequencesExt

CONSTANTS
    Disks,          \* disks containers were made from: a sequence of two tracks
    FluxCaptures,       \* [track |-> sequence of sectors] a flux reader may have seen
    BytesPerSector, MaxRun,
    MaxSectorWrites,      \* bound on edits
    NoImage

VARIABLES
    container,      \* the file that was opened
    sectorImage,          \* the sectors it was read into
    warned,         \* whether anything was said about what is missing
    archive,        \* the image as it was written to a container last
    sectorWrites

containerVars == <<container, sectorImage, warned, archive, sectorWrites>>
-----------------------------------------------------------------------------
RunMarker == 229
MinimumRun == 4
TrackBytes == 2 * BytesPerSector
BlankSector == [k \in 1..BytesPerSector |-> 0]

Sector(disk, track, number) == SubSeq(disk[track + 1], (number - 1) * BytesPerSector + 1, number * BytesPerSector)
\* Sectors are counted from zero, tracks one behind the other.
SectorAt(disk, slot) == Sector(disk, slot \div 2, (slot % 2) + 1)
TrackOf(sectors, track) == sectors[2 * track] \o sectors[2 * track + 1]
-----------------------------------------------------------------------------
(***************************************************************************)
(* MSA: run-length records.                                                *)
(***************************************************************************)
\* Bytes from index on that are equal, as many as one record can count.
RunAt(raw, index) ==
    CHOOSE n \in 1..MaxRun :
        /\ \A k \in 0..(n - 1) : index + k <= Len(raw) /\ raw[index + k] = raw[index]
        /\ n = MaxRun \/ index + n > Len(raw) \/ raw[index + n] # raw[index]

\* Mistake: a marker byte that stands alone is written as it is.
RecordMarkerBare(value, run) ==
    IF run >= MinimumRun THEN <<RunMarker, value, run \div 256, run % 256>> ELSE [k \in 1..run |-> value]

\* A long run becomes a record, and so does a marker however short its run.
PackedRecord(value, run) ==
    IF run >= MinimumRun \/ value = RunMarker
    THEN <<RunMarker, value, run \div 256, run % 256>> ELSE [k \in 1..run |-> value]

\* pack_track(): the packed form of a track from index on.
RECURSIVE PackedFrom(_, _)
PackedFrom(raw, index) ==
    IF index > Len(raw) THEN <<>>
    ELSE PackedRecord(raw[index], RunAt(raw, index)) \o PackedFrom(raw, index + RunAt(raw, index))

\* st_to_msa(): packed only where that is shorter.
StoredTrack(raw) == LET packed == PackedFrom(raw, 1) IN IF Len(packed) < Len(raw) THEN packed ELSE raw

\* unpack_track(): what a record's bytes stand for; it may be cut off.
RECURSIVE Unpacked(_)
Unpacked(packed) ==
    IF packed = <<>> THEN <<>>
    ELSE IF Head(packed) # RunMarker THEN <<Head(packed)>> \o Unpacked(Tail(packed))
    ELSE IF Len(packed) < 4 THEN <<>>
    ELSE [k \in 1..(packed[3] * 256 + packed[4]) |-> packed[2]] \o Unpacked(SubSeq(packed, 5, Len(packed)))

\* parse_msa(): a record as long as a track is the track itself; one that does
\* not come to a whole track is refused, which no byte stands for.
Refused == [k \in 1..TrackBytes |-> 256]
TrackRead(record) ==
    LET read == IF Len(record) = TrackBytes THEN record ELSE Unpacked(record)
    IN  IF Len(read) = TrackBytes THEN read ELSE Refused

\* Tracks before the first one are blank; records behind the last are left out.
MsaSectors(msa) ==
    [slot \in 0..3 |->
        IF slot \div 2 < msa.start THEN BlankSector
        ELSE SectorAt([t \in 1..2 |-> IF t - 1 < msa.start THEN <<>> ELSE TrackRead(msa.tracks[t - msa.start])], slot)]
-----------------------------------------------------------------------------
(***************************************************************************)
(* DIM.  Sector 0 is the system area; sector k holds cluster k + 1.        *)
(***************************************************************************)
FirstSlot(dim) == 2 * dim.start
InOrder(held, first) ==
    [slot \in 0..3 |-> IF slot < first \/ slot - first >= Len(held) THEN BlankSector ELSE held[slot - first + 1]]

\* _expand_used_sectors(): the system area, then the allocated clusters in order,
\* when the file is as long as its FAT says; else whatever there is, from the
\* first sector of the disk.
UsedSectors(dim) ==
    LET used == SetToSortSeq(dim.allocated, LAMBDA a, b : a < b)
    IN  IF Len(dim.held) < 4 /\ dim.described /\ dim.start = 0 /\ Len(dim.held) = 1 + Len(used)
        THEN [slot \in 0..3 |->
                IF slot = 0 THEN dim.held[1]
                ELSE IF \E k \in DOMAIN used : used[k] = slot
                     THEN dim.held[1 + CHOOSE k \in DOMAIN used : used[k] = slot] ELSE BlankSector]
        ELSE InOrder(dim.held, 0)

\* Mistake: the tracks a late first track leaves out are not left blank.
DimSectorsFromZero(dim) == IF dim.usedOnly THEN UsedSectors(dim) ELSE InOrder(dim.held, 0)

\* decode_dim()
DimSectors(dim) == IF dim.usedOnly THEN UsedSectors(dim) ELSE InOrder(dim.held, FirstSlot(dim))
\* The full form has to be complete.
DimAccepted(dim) == dim.usedOnly \/ Len(dim.held) >= 4 - FirstSlot(dim)
-----------------------------------------------------------------------------
(***************************************************************************)
(* Captures: per track, the sectors in the order they were read.           *)
(***************************************************************************)
Readable(capture, track) == SelectSeq(capture[track], LAMBDA s : s.good)

\* _sectors_per_track(): the commonest count of the tracks that have any; the
\* boot sector, or the order of the tracks, decides between equals.
CommonCounts(capture) ==
    LET counts == {Len(capture[t]) : t \in DOMAIN capture} \ {0}
        Times(n) == Cardinality({t \in DOMAIN capture : Len(capture[t]) = n})
    IN  {n \in counts : \A m \in counts : Times(n) >= Times(m)}
DataTracks(capture) ==
    Cardinality({t \in DOMAIN capture : \E u \in DOMAIN capture : u >= t /\ capture[u] # <<>>})

\* Mistake: a second sector of the same number replaces the first.
PlacedLast(capture, track, number) ==
    LET copies == SelectSeq(capture[track], LAMBDA s : s.number = number /\ s.good)
    IN  IF copies = <<>> THEN BlankSector ELSE capture[track][Len(capture[track])].data

\* decode_stx(): the first readable sector of a number is the one that counts.
PlacedSector(capture, track, number) ==
    LET copies == SelectSeq(Readable(capture, track), LAMBDA s : s.number = number)
    IN  IF copies = <<>> THEN BlankSector ELSE Head(copies).data

CaptureSectors(capture, tracks, perTrack) ==
    [slot \in 0..(tracks * perTrack - 1) |-> PlacedSector(capture, slot \div perTrack, (slot % perTrack) + 1)]

\* assemble_image(): the highest number seen anywhere is the count of a track.
HighestNumber(capture) ==
    LET numbers == {0} \cup {s.number : s \in UNION {Range(Readable(capture, t)) : t \in DOMAIN capture}}
    IN  CHOOSE n \in numbers : \A m \in numbers : n >= m
-----------------------------------------------------------------------------
(***************************************************************************)
(* Files as other tools left them.                                         *)
(***************************************************************************)
MsaFiles ==
    {[format |-> "msa", disk |-> disk, start |-> start, trailing |-> trailing,
      tracks |-> [k \in 1..(2 - start) |-> StoredTrack(disk[k + start])]] :
        disk \in Disks, start \in 0..1, trailing \in BOOLEAN}
DimFiles ==
    {[format |-> "dim", disk |-> disk, start |-> start, usedOnly |-> usedOnly, allocated |-> allocated,
      described |-> described,
      held |-> [k \in 1..(IF usedOnly THEN 1 + Cardinality(allocated) - start ELSE 4 - 2 * start) |->
                 IF usedOnly THEN SectorAt(disk, (<<0>> \o SetToSortSeq(allocated, LAMBDA a, b : a < b))[k + start])
                 ELSE SectorAt(disk, k - 1 + 2 * start)]] :
        disk \in Disks, start \in 0..1, usedOnly \in BOOLEAN, described \in BOOLEAN,
        allocated \in {{1, 2, 3}, {1, 3}, {3}}}
\* read_ipf() and parse_stx() deliver the sectors of each track as they passed.
CaptureFiles == {[format |-> format, capture |-> capture] : format \in {"stx", "ipf"}, capture \in FluxCaptures}

\* What the file holds for a place of the disk.
CaptureHolds(file, track, number) ==
    IF file.format \in {"stx", "ipf"}
    THEN {s.data : s \in {u \in Range(file.capture[track]) : u.number = number /\ u.good}}
    ELSE {Sector(file.disk, track, number)}

Opened(file) ==
    CASE file.format = "msa" -> {MsaSectors(file)}
      [] file.format = "dim" -> {DimSectors(file)}
      [] file.format = "stx" -> {CaptureSectors(file.capture, DataTracks(file.capture), n) : n \in CommonCounts(file.capture)}
      [] file.format = "ipf" -> {CaptureSectors(file.capture, 2, HighestNumber(file.capture))}

\* parse and decode warnings: a Pasti or SPS reading always says how many
\* sectors it got.
Warned(file) ==
    CASE file.format = "msa" -> file.trailing
      [] file.format = "dim" -> file.start > 0 \/ file.usedOnly
      [] OTHER -> TRUE
-----------------------------------------------------------------------------
Accepted(file) ==
    CASE file.format = "dim" -> DimAccepted(file)
      [] file.format = "stx" -> CommonCounts(file.capture) # {}
      [] file.format = "ipf" -> HighestNumber(file.capture) > 0
      [] OTHER -> TRUE

\* convert_container() to ST, or the opening of an SPS capture.
OpenContainer ==
    /\ sectorImage = NoImage /\ Accepted(container)
    /\ sectorImage' \in Opened(container)
    /\ warned' = Warned(container)
    /\ UNCHANGED <<container, archive, sectorWrites>>

WriteSector(slot, value) ==
    /\ sectorImage # NoImage /\ sectorWrites < MaxSectorWrites
    /\ sectorImage' = [sectorImage EXCEPT ![slot] = value]
    /\ archive' = NoImage /\ sectorWrites' = sectorWrites + 1
    /\ UNCHANGED <<container, warned>>

\* resolve_geometry(): one shape is known here, by its size.
KnownShape(sectors) == Cardinality(DOMAIN sectors) = 4

\* export_image()
ExportContainer(format) ==
    /\ sectorImage # NoImage /\ KnownShape(sectorImage) /\ archive = NoImage
    /\ archive' = IF format = "msa"
                  THEN [format |-> "msa", start |-> 0, tracks |-> [k \in 1..2 |-> StoredTrack(TrackOf(sectorImage, k - 1))]]
                  ELSE [format |-> "dim", start |-> 0, usedOnly |-> FALSE, held |-> [k \in 1..4 |-> sectorImage[k - 1]]]
    /\ UNCHANGED <<container, sectorImage, warned, sectorWrites>>

CloseExport == archive # NoImage /\ archive' = NoImage /\ UNCHANGED <<container, sectorImage, warned, sectorWrites>>

ContainerFiles == MsaFiles \cup DimFiles \cup CaptureFiles
ContainersInit ==
    /\ container \in ContainerFiles
    /\ sectorImage = NoImage /\ archive = NoImage /\ warned = FALSE /\ sectorWrites = 0
ContainersNext ==
    \/ OpenContainer \/ CloseExport
    \/ sectorImage # NoImage /\ \E slot \in DOMAIN sectorImage, value \in {BlankSector, [k \in 1..BytesPerSector |-> RunMarker]} : WriteSector(slot, value)
    \/ \E format \in {"msa", "dim"} : ExportContainer(format)
ContainersSpec == ContainersInit /\ [][ContainersNext]_containerVars
-----------------------------------------------------------------------------
ContainersTypeOK ==
    /\ sectorImage = NoImage \/ \A slot \in DOMAIN sectorImage : Len(sectorImage[slot]) = BytesPerSector
    /\ sectorWrites \in 0..MaxSectorWrites

\* "every track is written back where it came from" (container_disk_service.py:
\* 144-147): a sector of the image is what the container holds for that place, or
\* blank.  The shortened FastCopy form is excepted when it does not begin with
\* track 0: see EarlierTracksBlank.
SectorsInPlace ==
    sectorImage # NoImage /\ sectorWrites = 0 =>
        LET perTrack == IF container.format \in {"msa", "dim"} THEN 2
                        ELSE IF container.format = "ipf" THEN HighestNumber(container.capture)
                        ELSE Cardinality(DOMAIN sectorImage) \div DataTracks(container.capture)
        IN  (container.format = "dim" /\ container.usedOnly => container.start = 0 /\ container.described) =>
            \A slot \in DOMAIN sectorImage :
                \/ sectorImage[slot] = BlankSector
                \/ sectorImage[slot] \in CaptureHolds(container, slot \div perTrack, (slot % perTrack) + 1)

\* "proved byte for byte in both directions" (msa.py:3-7): whatever was opened
\* and edited, an exported MSA or DIM reads back as exactly these sectors.
ExportReadsBack ==
    archive # NoImage => sectorImage = IF archive.format = "msa" THEN MsaSectors(archive) ELSE DimSectors(archive)

\* "The image starts at track [n]; earlier tracks are left blank." (dim.py:122-125)
EarlierTracksBlank ==
    sectorImage # NoImage /\ sectorWrites = 0 /\ container.format = "dim" =>
        \A slot \in 0..(FirstSlot(container) - 1) : sectorImage[slot] = BlankSector

\* "What the disk rebuilt from this archive leaves out." (msa.py:98-103): a track
\* the container does not hold is spoken of.
LossIsAnnounced ==
    sectorImage # NoImage /\ sectorWrites = 0 /\ ~warned => \A slot \in DOMAIN sectorImage : sectorImage[slot] = SectorAt(container.disk, slot)
=============================================================================
