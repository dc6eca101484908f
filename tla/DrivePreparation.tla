-------------------------- MODULE DrivePreparation --------------------------
(***************************************************************************)
(* Preparing a hard drive to be booted (src/app/drive_preparation.py and   *)
(* the route install/driver): the loader in the root sector, the loader in *)
(* the boot sector of the partition, the driver file they load, and the    *)
(* loaders kept for the next drive.                                        *)
(*                                                                         *)
(* Below the partition table the root sector has two parts: the bytes any  *)
(* loader uses, and those an ICD table keeps entries in, over which the    *)
(* loader of AHDI runs.  The ROM executes a sector when its sum is right,  *)
(* whatever is in it.                                                      *)
(***************************************************************************)
EXTENDS Naturals, FiniteSets

CONSTANTS
    Partitions,     \* partitions of the drive
    Extended,       \* those that no entry of the root sector names
    HasLoader,      \* drivers whose distribution carries a root sector
    MaxPreparations \* bounds the requests

Drivers == {"ahdi", "icd"}
DriverFiles == [ahdi |-> {"SHDRIVER", "AHDI"}, icd |-> {"ICDBOOT"}]
InstalledName == [ahdi |-> "SHDRIVER", icd |-> "ICDBOOT"]
LongLoaders == {"ahdi"}
FreeDrivers == {"icd"}

ASSUME PreparationAssumption == Extended \subseteq Partitions /\ HasLoader \subseteq Drivers

VARIABLES
    hardDrive,      \* its sectors and the drivers in the roots of its partitions
    savedLoaders,   \* the loaders kept for each driver
    preparing,      \* the request: nothing, or prepared and not yet answered
    preparations    \* requests so far

prepVars == <<hardDrive, savedLoaders, preparing, preparations>>
-----------------------------------------------------------------------------
NoCode == "no code"
NoPair == [root |-> NoCode, long |-> FALSE, loads |-> NoCode]
FileNames == UNION {DriverFiles[d] : d \in Drivers}
OwnerOf(file) == CHOOSE d \in Drivers : file \in DriverFiles[d]

Chains == [root : Drivers, long : BOOLEAN, loads : FileNames]

LoaderSectors == [low : Drivers \cup {NoCode}, high : Drivers \cup {NoCode, "entries"},
            runs : BOOLEAN, flagged : SUBSET Partitions]
BootSectors == [loads : FileNames \cup {NoCode}, describes : Partitions, runs : BOOLEAN]

PrepTypeOK ==
    /\ hardDrive.root \in LoaderSectors /\ hardDrive.boot \in [Partitions -> BootSectors]
    /\ hardDrive.files \in [Partitions -> SUBSET FileNames]
    /\ savedLoaders \in [Drivers -> Chains \cup {NoPair}]
    /\ preparing.step \in {"idle", "prepared", "refused"}
    /\ preparations \in 0 .. MaxPreparations

\* A drive partitioned here, whose root sector may be marked executable with
\* nothing in it.
PrepInit ==
    /\ \E scheme \in {"ahdi", "icd", "mbr"}, marked \in BOOLEAN :
           hardDrive = [scheme |-> scheme,
                        root |-> [low |-> NoCode, high |-> IF scheme = "icd" THEN "entries" ELSE NoCode,
                                  runs |-> marked /\ scheme # "mbr", flagged |-> {}],
                        boot |-> [p \in Partitions |->
                                     [loads |-> NoCode, describes |-> p, runs |-> FALSE]],
                        files |-> [p \in Partitions |-> {}]]
    /\ savedLoaders = [d \in Drivers |-> NoPair]
    /\ preparing = [step |-> "idle"]
    /\ preparations = 0
-----------------------------------------------------------------------------
(***************************************************************************)
(* Another drive, and the chain of loaders read from it.                   *)
(***************************************************************************)

\* What an open drive may hold that some driver prepared: the loader of one
\* driver below the table of one scheme, and a boot sector for one file.
References ==
    {r \in [scheme : {"ahdi", "icd"}, low : Drivers, loads : FileNames, runs : BOOLEAN] :
        r.low \in LongLoaders => r.scheme = "ahdi"}

NoDrive == [scheme |-> "none", low |-> NoCode, loads |-> NoCode, runs |-> FALSE]

\* _loader_limit(): the bytes of the ICD entries belong to the loader when
\* the table is not ICD's and they are not all zero.
IsLong(reference) == reference.scheme # "icd" /\ reference.low \in LongLoaders

\* boot_chain_from() and _boot_chain(): both sectors run, and the boot sector
\* names a file of this driver; whose the root loader is nobody asks.
ChainOf(reference, driver) ==
    IF reference.runs /\ OwnerOf(reference.loads) = driver
    THEN [root |-> reference.low, long |-> IsLong(reference), loads |-> reference.loads]
    ELSE NoPair

\* find_distribution() and fetch_driver(): a copy of the operator's, or one
\* downloaded where the licence allows it.
Obtained(driver, found, download) == found \/ (download /\ driver \in FreeDrivers)

\* saved_boot_chain()
SavedChain(driver) == savedLoaders[driver]
-----------------------------------------------------------------------------
(***************************************************************************)
(* Writing.                                                                *)
(***************************************************************************)

\* A long loader does not fit under ICD's entries.
LoaderFits(chain) == ~(hardDrive.scheme = "icd" /\ chain.long)

\* Mistake: the root sector keeps its mark although nothing is in it.
RootWithMark(driver, chain) ==
    LET root == hardDrive.root
    IN  CASE driver = "none" -> [root EXCEPT !.runs = FALSE]
          [] chain # NoPair ->
                [root EXCEPT !.low = chain.root, !.high = IF chain.long THEN chain.root ELSE @,
                             !.runs = TRUE]
          [] OTHER -> root

\* _write_root_sector(): a copied loader, the loader of the distribution, or
\* the mark taken off a sector with nothing in it.
RootWritten(driver, chain) ==
    LET root == hardDrive.root
        whole == hardDrive.scheme # "icd"
    IN  CASE driver = "none" -> [root EXCEPT !.runs = FALSE]
          [] driver # "none" /\ chain # NoPair ->
                [root EXCEPT !.low = chain.root, !.high = IF chain.long THEN chain.root ELSE @,
                             !.runs = TRUE]
          [] driver # "none" /\ chain = NoPair /\ driver \in HasLoader ->
                [root EXCEPT !.low = driver,
                             !.high = IF ~whole THEN @ ELSE IF driver \in LongLoaders THEN driver ELSE NoCode,
                             !.runs = TRUE]
          [] OTHER -> IF root.low = NoCode /\ (whole => root.high = NoCode)
                      THEN [root EXCEPT !.runs = FALSE] ELSE root

\* _flag_boot_partition(): only an entry of the root sector can be flagged.
Flagged(root, partition, chain) ==
    IF chain = NoPair \/ partition \in Extended THEN root ELSE [root EXCEPT !.flagged = {partition}]

\* _write_boot_sector(): the parameter block stays the partition's own.
BootWritten(partition, chain) ==
    IF chain = NoPair THEN hardDrive.boot
    ELSE [hardDrive.boot EXCEPT ![partition] =
             [loads |-> chain.loads, describes |-> @.describes, runs |-> TRUE]]

\* Mistake: the driver is written under the name its distribution gives it.
DriverFileAsShipped(driver, chain) == IF driver = "none" THEN {} ELSE {InstalledName[driver]}

\* _install_driver_files(): under the name the copied loader asks for.
DriverFile(driver, chain) ==
    CASE driver = "none" -> {}
      [] driver # "none" /\ chain # NoPair -> {chain.loads}
      [] OTHER -> {InstalledName[driver]}

PreparedDrive(driver, partition, chain) ==
    [hardDrive EXCEPT
        !.root = IF hardDrive.scheme = "mbr" THEN @
                 ELSE Flagged(RootWritten(driver, chain), partition, chain),
        !.boot = BootWritten(partition, chain),
        !.files[partition] = @ \cup DriverFile(driver, chain)]

\* prepare_drive(), refused before anything is written: nothing to copy from
\* the other drive, a PC partition table, a driver of which there is no copy,
\* a loader that does not fit.
PrepareDrive(driver, partition, reference, obtained, keep) ==
    LET chain == CASE driver = "none" -> NoPair
                   [] driver # "none" /\ reference # NoDrive -> ChainOf(reference, driver)
                   [] OTHER -> SavedChain(driver)
        sound == /\ reference # NoDrive => chain # NoPair
                 /\ hardDrive.scheme = "mbr" => driver = "none"
                 /\ driver # "none" => obtained /\ (chain # NoPair => LoaderFits(chain))
    IN  /\ preparing.step = "idle" /\ preparations < MaxPreparations
        /\ preparations' = preparations + 1
        /\ preparing' = [step |-> IF sound THEN "prepared" ELSE "refused",
                         driver |-> driver, partition |-> partition, chain |-> chain,
                         keep |-> keep /\ reference # NoDrive, before |-> hardDrive]
        /\ hardDrive' = IF sound THEN PreparedDrive(driver, partition, chain) ELSE hardDrive
        /\ UNCHANGED savedLoaders

\* save_boot_chain(): the request keeps the loaders once the drive is prepared.
KeepLoaders ==
    /\ preparing.step = "prepared" /\ preparing.keep
    /\ savedLoaders' = [savedLoaders EXCEPT ![preparing.driver] = preparing.chain]
    /\ preparing' = [preparing EXCEPT !.keep = FALSE]
    /\ UNCHANGED <<hardDrive, preparations>>

\* The folder cannot be written: the request fails, and the middleware puts the
\* image back as it was before the request.
FailKeepLoaders ==
    /\ preparing.step = "prepared" /\ preparing.keep
    /\ hardDrive' = preparing.before
    /\ preparing' = [preparing EXCEPT !.step = "refused"]
    /\ UNCHANGED <<savedLoaders, preparations>>

AnswerPreparation ==
    /\ preparing.step \in {"prepared", "refused"}
    /\ preparing.step = "prepared" => ~preparing.keep
    /\ preparing' = [step |-> "idle"]
    /\ UNCHANGED <<hardDrive, savedLoaders, preparations>>

PrepNext ==
    \/ \E driver \in Drivers \cup {"none"}, partition \in Partitions,
          reference \in References \cup {NoDrive}, found, download, keep \in BOOLEAN :
           PrepareDrive(driver, partition, reference, Obtained(driver, found, download), keep)
    \/ KeepLoaders \/ FailKeepLoaders \/ AnswerPreparation
PrepSpec == PrepInit /\ [][PrepNext]_prepVars
-----------------------------------------------------------------------------
\* Whatever drivers a drive is prepared with, in whatever order: no boot sector
\* describes another partition and no entry of an ICD table is lost; once
\* prepared, the ROM executes no root sector without a loader; a preparation
\* with copied loaders boots the partition it was for, unless the root sector
\* does not list that; and a partition that is booted holds the file that its
\* boot sector loads.
LoadersFindTheirDriver ==
    /\ \A p \in Partitions : hardDrive.boot[p].describes = p
    /\ hardDrive.scheme = "icd" => hardDrive.root.high = "entries"
    /\ \A p \in hardDrive.root.flagged :
           hardDrive.boot[p].runs /\ hardDrive.boot[p].loads \in hardDrive.files[p]
    /\ preparing.step = "prepared" =>
           /\ hardDrive.root.runs => hardDrive.root.low # NoCode
           /\ (preparing.chain # NoPair /\ preparing.partition \notin Extended) =>
                  hardDrive.root.runs /\ hardDrive.root.flagged = {preparing.partition}

\* "It is done once the drive is prepared, so a copy that cannot be kept never
\* costs the preparation itself" (routes/install.py:200-202).
CopyNeverCostsPreparation ==
    [][preparing.step = "prepared" => hardDrive' = hardDrive]_prepVars
=============================================================================
