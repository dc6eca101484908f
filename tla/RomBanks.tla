------------------------------ MODULE RomBanks ------------------------------
(***************************************************************************)
(* A ROM image in its pane and its workbench: banks that are put, cleared, *)
(* moved and renamed (app/rom_disk_service.py), patches between two ROMs,  *)
(* the audit and its repair (app/rom_workbench.py, app/routes/rom_tools.py)*)
(* and the files a chip programmer takes (app/rom_components.py).          *)
(*                                                                         *)
(* A byte is a number. A cartridge's bank begins with Cartridge and its    *)
(* name is the second byte; an operating system begins with System, then   *)
(* its build date and the word that repeats that date.                     *)
(***************************************************************************)
EXTENDS Naturals, FiniteSets, Sequences, SequencesExt

CONSTANTS
    StartRoms,    \* the ROM images a user opens
    OtherRoms,    \* the ROM images open beside it, to compare with
    BankSizes,    \* the bank sizes the user may choose
    BankFiles,    \* the host files dropped on a bank
    Erased,       \* the byte of an unprogrammed cell
    Cartridge,    \* the byte that stands for the cartridge magic
    System,       \* the byte that stands for a TOS header
    Jobs,         \* the programmer exports a user asks for
    NewName,      \* the byte that stands for the name given by the user
    MaxRom,       \* bound: the longest image followed
    MaxRomEdits,  \* bound on the requests made
    NoDocument    \* no patch, no set of chips has been asked for yet

VARIABLES
    rom,       \* the bytes of the image
    bankSize,  \* session.rom_bank_size
    patch,     \* the patch document made last, and what it should give
    chips,     \* the programmer files made last, and how they were made
    repair,    \* the answer to the last repair asked for: none, done or refused
    romEdits      \* the requests made so far

romVars == <<rom, bankSize, patch, chips, repair, romEdits>>

-----------------------------------------------------------------------------
(* Banks *)

MaxOf(m, n) == IF m > n THEN m ELSE n
MinOf(m, n) == IF m > n THEN n ELSE m

BankCount(data, size) == (Len(data) + size - 1) \div size

Bank(data, b, size) ==
    SubSeq(data, b * size + 1, MinOf((b + 1) * size, Len(data)))

IsErased(data) == \A i \in DOMAIN data : data[i] = Erased

Filled(n) == [i \in 1..n |-> Erased]

Padded(data, n) == data \o Filled(MaxOf(n, Len(data)) - Len(data))

\* Bytes written over the file from an offset: a file opened r+b grows, and
\* what it skips reads as zero.
Overwritten(data, offset, bytes) ==
    LET base == data \o [i \in 1..(MaxOf(offset, Len(data)) - Len(data)) |-> 0]
    IN SubSeq(base, 1, offset) \o bytes \o SubSeq(base, offset + Len(bytes) + 1, Len(base))

\* The bank a file without a chosen place goes to.
FreeBank(data, size) ==
    LET count == BankCount(data, size)
        free  == {b \in 0..(count - 1) : IsErased(Bank(data, b, size))}
    IN IF free = {} THEN count ELSE CHOOSE b \in free : \A c \in free : b <= c

\* A bank put past the end fills the gap with the erase byte; a move does not.
Put(data, b, size, bytes) == Overwritten(Padded(data, b * size), b * size, Padded(bytes, size))

\* Clearing keeps a partial bank partial.
Cleared(data, banks, size) ==
    [i \in DOMAIN data |-> IF (i - 1) \div size \in banks THEN Erased ELSE data[i]]

\* Mistake: each bank is read when its turn to be written has come.
MovedInTurn(data, sources, target, size) ==
    LET at(k) == target + k - 1
        gone  == {sources[k] : k \in DOMAIN sources} \ {at(k) : k \in DOMAIN sources}
        one(d, k) == Overwritten(d, at(k) * size, Padded(Bank(d, sources[k], size), size))
    IN FoldLeft(LAMBDA d, b : Overwritten(d, b * size, Filled(size)),
                FoldLeft(one, data, [k \in DOMAIN sources |-> k]), SetToSeq(gone))

\* Every source is read first, the banks that only lose are erased, and the
\* targets are written in order.
Moved(data, sources, target, size) ==
    LET at(k) == target + k - 1
        gone  == {sources[k] : k \in DOMAIN sources} \ {at(k) : k \in DOMAIN sources}
        one(d, k) == Overwritten(d, at(k) * size, Padded(Bank(data, sources[k], size), size))
    IN FoldLeft(one,
                FoldLeft(LAMBDA d, b : Overwritten(d, b * size, Filled(size)), data, SetToSeq(gone)),
                [k \in DOMAIN sources |-> k])

IsCartridge(data) == Len(data) >= 2 /\ data[1] = Cartridge

RenamedBank(data) == [data EXCEPT ![2] = NewName]

-----------------------------------------------------------------------------
(* The audit and its repair *)

IsSystem(data) == Len(data) >= 3 /\ data[1] = System

DatesAgree(data) == data[2] = data[3]

\* audit_rom()'s list of what can be repaired.
Repairable(data) == IF IsSystem(data) /\ ~DatesAgree(data) THEN {"date-word"} ELSE {}

\* The repairs the route knows; each of the two only raises an error.
RoutedRepairs == {"extension-checksum", "header-role-flags"}

-----------------------------------------------------------------------------
(* Patches *)

Differs(left, right, i) ==
    /\ i <= MaxOf(Len(left), Len(right))
    /\ i > Len(left) \/ i > Len(right) \/ left[i] # right[i]

\* Mistake: only the bytes both images have are compared.
ComparedShared(left, right) ==
    LET common == MinOf(Len(left), Len(right))
        rows == SetToSortSeq({i \in 1..common : left[i] # right[i]}, <)
    IN [k \in DOMAIN rows |->
            [start |-> rows[k] - 1, left |-> <<left[rows[k]]>>, right |-> <<right[rows[k]]>>]]

\* The runs of bytes that differ, in order; a run holds what each side has there.
Compared(left, right) ==
    LET last == MaxOf(Len(left), Len(right))
        starts == {i \in 1..last :
                      Differs(left, right, i) /\ (i = 1 \/ ~Differs(left, right, i - 1))}
        end(i) == CHOOSE j \in i..(last + 1) :
                      ~Differs(left, right, j) /\ \A k \in i..(j - 1) : Differs(left, right, k)
        held(bytes, i) == SubSeq(bytes, i, MinOf(end(i) - 1, Len(bytes)))
    IN [k \in 1..Cardinality(starts) |->
            LET i == SetToSortSeq(starts, <)[k]
            IN [start |-> i - 1, left |-> held(left, i), right |-> held(right, i)]]

Replaced(data, ranges) ==
    LET one(acc, r) ==
            LET offset == r.start + acc.grown - acc.shrunk
            IN [bytes  |-> SubSeq(acc.bytes, 1, offset) \o r.right
                           \o SubSeq(acc.bytes, offset + Len(r.left) + 1, Len(acc.bytes)),
                grown  |-> acc.grown + Len(r.right),
                shrunk |-> acc.shrunk + Len(r.left)]
    IN FoldLeft(one, [bytes |-> data, grown |-> 0, shrunk |-> 0], ranges).bytes

\* A range without bytes on the right, a tail that was cut off, counts as too large.
Selectable(ranges, chosen) ==
    chosen # {} /\ \A k \in chosen : ranges[k].right # <<>>

Patch(left, right) == [source |-> left, target |-> right, ranges |-> Compared(left, right)]

\* apply_patch(): source and result are compared by their checksums.
Accepts(data, document) ==
    /\ data = document.source
    /\ Replaced(data, document.ranges) = document.target

-----------------------------------------------------------------------------
(* The programmer's files *)

\* Mistake: the lanes are consecutive halves of the image.
SplitHalves(data, lanes, parts) ==
    [c \in 1..(lanes * parts) |->
        LET piece == Len(data) \div (lanes * parts)
        IN SubSeq(data, (c - 1) * piece + 1, c * piece)]

\* Byte lanes first, then each lane in consecutive pieces.
SplitIntoChips(data, lanes, parts) ==
    [c \in 1..(lanes * parts) |->
        LET piece == Len(data) \div (lanes * parts)
            lane  == (c - 1) \div parts
            part  == (c - 1) % parts
        IN [i \in 1..piece |-> data[(part * piece + i - 1) * lanes + lane + 1]]]

\* write_combined_rom(): the pieces of each lane end to end, the lanes interleaved.
Combined(parts, lanes) ==
    LET perLane == Len(parts) \div lanes
        lane(l) == FlattenSeq(SubSeq(parts, l * perLane + 1, (l + 1) * perLane))
    IN [i \in 1..(lanes * Len(lane(0))) |-> lane((i - 1) % lanes)[(i - 1) \div lanes + 1]]

Fitted(data, size, mirror) ==
    [i \in 1..size |-> IF i <= Len(data) THEN data[i]
                       ELSE IF mirror /\ data # <<>> THEN data[((i - 1) % Len(data)) + 1]
                       ELSE Erased]

Bit(n, b) == (n \div 2^b) % 2

\* An address with two of its lines crossed.
Crossed(n, pair) ==
    IF Bit(n, pair[1]) = Bit(n, pair[2]) THEN n
    ELSE n + (Bit(n, pair[2]) - Bit(n, pair[1])) * (2^pair[1] - 2^pair[2])

ByteSwapped(data) ==
    [i \in DOMAIN data |->
        IF i = Len(data) /\ i % 2 = 1 THEN data[i] ELSE data[IF i % 2 = 1 THEN i + 1 ELSE i - 1]]

WordSwapped(data) ==
    [i \in DOMAIN data |->
        IF i > (Len(data) \div 4) * 4 THEN data[i]
        ELSE data[IF (i - 1) % 4 < 2 THEN i + 2 ELSE i - 2]]

Rewired(data, pair) ==
    IF pair = <<>> THEN data
    ELSE [i \in DOMAIN data |->
             data[(CHOOSE n \in 0..(Len(data) - 1) : Crossed(n, pair) = i - 1) + 1]]

PreparedRom(data, job) ==
    LET fitted == Fitted(data, job.size, job.mirror)
        bytes  == IF job.byteSwap THEN ByteSwapped(fitted) ELSE fitted
        words  == IF job.wordSwap THEN WordSwapped(bytes) ELSE bytes
    IN Rewired(words, job.crossed)

PlainJob(size, lanes) == [size |-> size, mirror |-> FALSE, byteSwap |-> FALSE, wordSwap |-> FALSE,
                       crossed |-> <<>>, lanes |-> lanes, parts |-> 1]

-----------------------------------------------------------------------------
RomsInit ==
    /\ rom \in StartRoms
    /\ bankSize \in BankSizes
    /\ patch = NoDocument
    /\ chips = NoDocument
    /\ repair = "none"
    /\ romEdits = 0

Request == romEdits < MaxRomEdits /\ romEdits' = romEdits + 1

\* An edit of the bytes, kept only within the bound on their number.
Rewrite(bytes) ==
    /\ Request
    /\ Len(bytes) <= MaxRom
    /\ rom' = bytes
    /\ repair' = "none"
    /\ UNCHANGED <<bankSize, patch, chips>>

ConfigureRom(size) ==
    /\ Request
    /\ bankSize' = size
    /\ UNCHANGED <<rom, patch, chips, repair>>

PutRomBank(bytes, b) == Len(bytes) \in 1..bankSize /\ Rewrite(Put(rom, b, bankSize, bytes))

AddRomBank(bytes) == PutRomBank(bytes, FreeBank(rom, bankSize))

AppendBlankBank == PutRomBank(Filled(bankSize), BankCount(rom, bankSize))

ClearRomBanks(banks) ==
    /\ banks # {}
    /\ banks \subseteq 0..(BankCount(rom, bankSize) - 1)
    /\ Rewrite(Cleared(rom, banks, bankSize))

MoveRomBanks(sources, target) ==
    /\ sources # <<>>
    /\ IsInjective(sources)
    /\ target <= BankCount(rom, bankSize)
    /\ Rewrite(Moved(rom, sources, target, bankSize))

\* The bank is read, changed and put back as a bank is put: padded.
RenameRomBank(b) ==
    /\ IsCartridge(Bank(rom, b, bankSize))
    /\ Rewrite(Put(rom, b, bankSize, RenamedBank(Bank(rom, b, bankSize))))

\* The whole image is replaced by a built one.
BuildRom(bytes) == Rewrite(bytes)

\* The repair route, asked for something the audit of these bytes offers.
RepairRom(action) ==
    /\ Request
    /\ action \in Repairable(rom)
    /\ repair' = IF action \in RoutedRepairs THEN "done" ELSE "refused"
    /\ UNCHANGED <<rom, bankSize, patch, chips>>

\* The whole difference, or the ranges chosen of it.
MakePatch(other) ==
    /\ Request
    /\ patch' = [document |-> Patch(rom, other), asked |-> other]
    /\ UNCHANGED <<rom, bankSize, chips, repair>>

MakeSelectivePatch(other, chosen) ==
    LET ranges == Compared(rom, other)
        wanted == [k \in 1..Cardinality(chosen) |-> ranges[SetToSortSeq(chosen, <)[k]]]
        result == Replaced(rom, wanted)
    IN /\ Request
       /\ Selectable(ranges, chosen)
       /\ patch' = [document |-> Patch(rom, result), asked |-> result]
       /\ UNCHANGED <<rom, bankSize, chips, repair>>

ApplyRomPatch ==
    /\ patch # NoDocument
    /\ Accepts(rom, patch.document)
    /\ Rewrite(Replaced(rom, patch.document.ranges))

\* hardware_export(), and with a plain job the files of a byte-interleaved set.
ExportChips(job) ==
    /\ Request
    /\ Len(rom) <= job.size
    /\ job.size % (job.lanes * job.parts) = 0
    /\ chips' = [of |-> rom, job |-> job,
                 files |-> SplitIntoChips(PreparedRom(rom, job), job.lanes, job.parts)]
    /\ UNCHANGED <<rom, bankSize, patch, repair>>

RomsNext ==
    LET count == BankCount(rom, bankSize)
        banks == 0..(count - 1)
    IN \/ \E size \in BankSizes : ConfigureRom(size)
       \/ \E bytes \in BankFiles, b \in 0..(count + 1) : PutRomBank(bytes, b)
       \/ \E bytes \in BankFiles : AddRomBank(bytes)
       \/ AppendBlankBank
       \/ \E chosen \in SUBSET banks : ClearRomBanks(chosen)
       \/ \E sources \in SeqOf(banks, 2), target \in 0..count : MoveRomBanks(sources, target)
       \/ \E b \in banks : RenameRomBank(b)
       \/ \E bytes \in StartRoms : BuildRom(bytes)
       \/ \E action \in {"date-word"} : RepairRom(action)
       \/ \E other \in OtherRoms : MakePatch(other)
       \/ \E other \in OtherRoms :
             \E chosen \in SUBSET DOMAIN Compared(rom, other) : MakeSelectivePatch(other, chosen)
       \/ ApplyRomPatch
       \/ \E job \in Jobs \cup {PlainJob(Len(rom), n) : n \in {2, 4}} : ExportChips(job)

RomsSpec == RomsInit /\ [][RomsNext]_romVars

-----------------------------------------------------------------------------
RomsTypeOK ==
    /\ rom \in Seq(Nat) /\ Len(rom) \in 1..MaxRom
    /\ bankSize \in BankSizes
    /\ repair \in {"none", "done", "refused"}
    /\ romEdits \in 0..MaxRomEdits

(***************************************************************************)
(* A move of banks is one exchange, whatever its sources and targets       *)
(* share: every target holds what its source held, every bank that only    *)
(* gave is erased, and every other bank keeps its bytes (the docstring of  *)
(* move_rom_banks()).                                                      *)
(***************************************************************************)
ExchangedWhole ==
    \A sources \in SeqOf(0..(BankCount(rom, bankSize) - 1), 2), target \in 0..MaxRom :
        MoveRomBanks(sources, target) =>
            \A b \in 0..(BankCount(rom', bankSize) - 1) :
                LET place == b - target + 1
                    bytes == Bank(rom', b, bankSize)
                    moved == b >= target /\ place \in DOMAIN sources
                IN /\ moved => bytes = Padded(Bank(rom, sources[place], bankSize), bankSize)
                   /\ ~moved /\ b \in {sources[k] : k \in DOMAIN sources} => IsErased(bytes)
                   /\ ~moved /\ b \notin {sources[k] : k \in DOMAIN sources} =>
                          IsPrefix(Bank(rom, b, bankSize), bytes)
BanksMoveWhole == [][ExchangedWhole]_romVars

(***************************************************************************)
(* A patch that was made is one that can be applied: to the image it was   *)
(* made from it gives, byte for byte and whatever their sizes, the image   *)
(* it was made for (make_patch(), make_selective_patch(), apply_patch()).  *)
(***************************************************************************)
PatchReproduces ==
    patch # NoDocument =>
        Replaced(patch.document.source, patch.document.ranges) = patch.asked

(***************************************************************************)
(* The board reads the ROM: with the programmed chips combined again, the  *)
(* byte the machine fetches through the crossed address lines and swapped  *)
(* bytes and words of its board is the byte the image has there.           *)
(***************************************************************************)
Landing(n, job) ==
    LET byte == IF job.byteSwap THEN (IF n % 2 = 0 THEN n + 1 ELSE n - 1) ELSE n
        word == IF job.wordSwap THEN (IF byte % 4 < 2 THEN byte + 2 ELSE byte - 2) ELSE byte
    IN IF job.crossed = <<>> THEN word ELSE Crossed(word, job.crossed)
ChipsHoldTheRom ==
    chips # NoDocument =>
        \A i \in DOMAIN chips.of :
            Combined(chips.files, chips.job.lanes)[Landing(i - 1, chips.job) + 1] = chips.of[i]

(***************************************************************************)
(* What the audit lists as repairable can be repaired ("the available      *)
(* repair is date-word", rom_workbench.py:1036 and 1041): a request for an *)
(* offered repair is never refused as unknown.                             *)
(***************************************************************************)
OfferedRepairsExist == repair # "refused"

(***************************************************************************)
(* Renaming the application of a bank moves nothing else ("The name field  *)
(* is fixed at 14 bytes, so nothing else in the ROM moves", rom.py:709):   *)
(* the image keeps its length, a partial last bank included.               *)
(***************************************************************************)
RenameKeepsTheSize ==
    [][\A b \in 0..MaxRom : RenameRomBank(b) => Len(rom') = Len(rom)]_romVars
=============================================================================
