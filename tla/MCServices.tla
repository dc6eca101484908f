----------------------------- MODULE MCServices -----------------------------
(***************************************************************************)
(* The services and algorithms of the application beside each other, at    *)
(* the size at which they are model-checked.  One of them is at work; they *)
(* share nothing but the Activity counter, through which requests that use *)
(* a drive and an update of the application get out of each other's way:   *)
(* there all three interact, and the process may end.                      *)
(***************************************************************************)
EXTENDS ImageExport, AppUpdate, PhysicalMedia, DesktopHost, PartitionTable,
        FileItems, DrivePreparation, DesktopInstall, ContainerFormats, RomBanks,
        Deployment, MCGemdosLayout, ServicePromises

VARIABLE focus      \* the service at work

servicesVars ==
    <<focus, inUse, exportVars, updateVars, mediaVars, hostVars, stagingVars, tableVars,
      emulatorVars, itemVars, patchVars, storeVars, editorVars, transferVars,
      nameVars, prepVars, desktopVars, catalogueVars, containerVars, romVars,
      recipeVars, deployVars, layoutVars>>

Services == {"export", "update", "media", "host", "staging", "table", "emulator",
             "items", "patch", "store", "editor", "transfer", "names", "preparation",
             "desktop", "catalogue", "containers", "roms", "recipes", "deployment",
             "layout"}

One(S) == CHOOSE x \in S : TRUE
AnAsked == One(Asked)
BlankVolume == [tree |-> [p \in TransferPaths |-> "nothing"], boots |-> FALSE]
AContainer == One(ContainerFiles)
Starts(on, S, other) == IF focus = on THEN S ELSE {other}

\* A service that is not at work stays in one of its initial states.
ServicesInit ==
    /\ focus \in Services
    /\ container \in Starts("containers", ContainerFiles, AContainer)
    /\ ContainersInit
    /\ focus = "transfer" \/ (disc = BlankVolume /\ volume = BlankVolume)
    /\ TransferInit
    /\ home \in Starts("layout", {"whole", "partition"}, "whole")
    /\ LayoutInit
    /\ focus # "layout" => volumeImage = BlankImage(12)
    /\ containerFile \in Starts("export", Containers, "plain")
    /\ imageName \in Starts("export", ImageNames, One(ImageNames))
    /\ ExportInit
    /\ debFile \in Starts("update", {"none", "partial"}, "none")
    /\ UpdateInit
    /\ MediaInit
    /\ HostInit
    /\ StagingInit
    /\ EmulatorInit
    /\ ItemsInit
    /\ owner \in Starts("store", [SessionIds -> Owners], [id \in SessionIds |-> One(Owners)])
    /\ StoreInit
    /\ file \in Starts("editor", [holds : Texts, readOnly : BOOLEAN], [holds |-> One(Texts), readOnly |-> FALSE])
    /\ EditorInit
    /\ NamesInit
    /\ PrepInit
    /\ focus # "preparation" => hardDrive.scheme = "mbr" /\ ~hardDrive.root.runs
    /\ olderTos \in Starts("desktop", BOOLEAN, FALSE)
    /\ DesktopInit
    /\ focus # "desktop" => auto = <<>>
    /\ CatalogueInit
    /\ rom \in Starts("roms", StartRoms, One(StartRoms))
    /\ bankSize \in Starts("roms", BankSizes, One(BankSizes))
    /\ RomsInit
    /\ RecipesInit
    /\ kind \in Starts("deployment", {"floppy", "drive", "volume"}, "floppy")
    /\ fileNames \in Starts("deployment", Namings, One(Namings))
    /\ DeployInit
    /\ base \in Starts("patch", Manifests, {})
    /\ candidate \in Starts("patch", Manifests, {})
    /\ PatchInit
    /\ asked \in Starts("table", Asked, AnAsked)
    /\ TableInit

\* One drive is used in a behaviour, of either kind: drives share nothing but the
\* image and the counter.
OnlyDrive(d) == \A other \in Drives \ {d} : outcome[other] = "none"

\* Requests that use either drive come and go while an update is under way, and the
\* window may be closed.
DrivesAndExit ==
    \/ \E d \in Drives : StartRead(d) /\ UNCHANGED updateVars
    \/ \E d \in Drives : FailJob(d) /\ UNCHANGED updateVars
    \/ EndProcess /\ CutJobs

ServicesNext ==
    \/ focus = "export" /\ ExportNext
       /\ UNCHANGED <<focus, updateVars, inUse, mediaVars, hostVars, stagingVars, tableVars,
                      emulatorVars, itemVars, patchVars, storeVars, editorVars, transferVars, nameVars,
                      prepVars, desktopVars, catalogueVars, containerVars, romVars, recipeVars,
                      deployVars, layoutVars>>
    \/ focus = "update" /\ UpdateNext /\ UNCHANGED mediaVars /\ UNCHANGED inUse
       /\ UNCHANGED <<focus, exportVars, hostVars, stagingVars, tableVars, emulatorVars, itemVars,
                      patchVars, storeVars, editorVars, transferVars, nameVars, prepVars, desktopVars,
                      catalogueVars, containerVars, romVars, recipeVars, deployVars, layoutVars>>
    \/ focus = "update" /\ DrivesAndExit
       /\ UNCHANGED <<focus, exportVars, hostVars, stagingVars, tableVars, emulatorVars, itemVars,
                      patchVars, storeVars, editorVars, transferVars, nameVars, prepVars, desktopVars,
                      catalogueVars, containerVars, romVars, recipeVars, deployVars, layoutVars>>
    \/ focus = "media" /\ (\E d \in Drives : OnlyDrive(d) /\ MediaNext({d}))
       /\ UNCHANGED <<focus, exportVars, updateVars, hostVars, stagingVars, tableVars, emulatorVars,
                      itemVars, patchVars, storeVars, editorVars, transferVars, nameVars, prepVars,
                      desktopVars, catalogueVars, containerVars, romVars, recipeVars, deployVars,
                      layoutVars>>
    \/ focus = "host" /\ HostNext
       /\ UNCHANGED <<focus, exportVars, inUse, updateVars, mediaVars, stagingVars, tableVars,
                      emulatorVars, itemVars, patchVars, storeVars, editorVars, transferVars, nameVars,
                      prepVars, desktopVars, catalogueVars, containerVars, romVars, recipeVars,
                      deployVars, layoutVars>>
    \/ focus = "staging" /\ StagingNext
       /\ UNCHANGED <<focus, exportVars, inUse, updateVars, mediaVars, hostVars, tableVars,
                      emulatorVars, itemVars, patchVars, storeVars, editorVars, transferVars, nameVars,
                      prepVars, desktopVars, catalogueVars, containerVars, romVars, recipeVars,
                      deployVars, layoutVars>>
    \/ focus = "table" /\ TableNext
       /\ UNCHANGED <<focus, exportVars, inUse, updateVars, mediaVars, hostVars, stagingVars,
                      emulatorVars, itemVars, patchVars, storeVars, editorVars, transferVars, nameVars,
                      prepVars, desktopVars, catalogueVars, containerVars, romVars, recipeVars,
                      deployVars, layoutVars>>
    \/ focus = "emulator" /\ EmulatorNext
       /\ UNCHANGED <<focus, exportVars, inUse, updateVars, mediaVars, hostVars, stagingVars,
                      tableVars, itemVars, patchVars, storeVars, editorVars, transferVars, nameVars,
                      prepVars, desktopVars, catalogueVars, containerVars, romVars, recipeVars,
                      deployVars, layoutVars>>
    \/ focus = "items" /\ ItemsNext
       /\ UNCHANGED <<focus, exportVars, inUse, updateVars, mediaVars, hostVars, stagingVars,
                      tableVars, emulatorVars, patchVars, storeVars, editorVars, transferVars,
                      nameVars, prepVars, desktopVars, catalogueVars, containerVars, romVars,
                      recipeVars, deployVars, layoutVars>>
    \/ focus = "patch" /\ PatchNext
       /\ UNCHANGED <<focus, exportVars, inUse, updateVars, mediaVars, hostVars, stagingVars,
                      tableVars, emulatorVars, itemVars, storeVars, editorVars, transferVars, nameVars,
                      prepVars, desktopVars, catalogueVars, containerVars, romVars, recipeVars,
                      deployVars, layoutVars>>
    \/ focus = "store" /\ StoreNext
       /\ UNCHANGED <<focus, exportVars, inUse, updateVars, mediaVars, hostVars, stagingVars,
                      tableVars, emulatorVars, itemVars, patchVars, editorVars, transferVars, nameVars,
                      prepVars, desktopVars, catalogueVars, containerVars, romVars, recipeVars,
                      deployVars, layoutVars>>
    \/ focus = "editor" /\ EditorNext
       /\ UNCHANGED <<focus, exportVars, inUse, updateVars, mediaVars, hostVars, stagingVars,
                      tableVars, emulatorVars, itemVars, patchVars, storeVars, transferVars, nameVars,
                      prepVars, desktopVars, catalogueVars, containerVars, romVars, recipeVars,
                      deployVars, layoutVars>>
    \/ focus = "transfer" /\ TransferNext
       /\ UNCHANGED <<focus, exportVars, inUse, updateVars, mediaVars, hostVars, stagingVars,
                      tableVars, emulatorVars, itemVars, patchVars, storeVars, editorVars, nameVars,
                      prepVars, desktopVars, catalogueVars, containerVars, romVars, recipeVars,
                      deployVars, layoutVars>>
    \/ focus = "names" /\ NamesNext
       /\ UNCHANGED <<focus, exportVars, inUse, updateVars, mediaVars, hostVars, stagingVars,
                      tableVars, emulatorVars, itemVars, patchVars, storeVars, editorVars,
                      transferVars, prepVars, desktopVars, catalogueVars, containerVars, romVars,
                      recipeVars, deployVars, layoutVars>>
    \/ focus = "preparation" /\ PrepNext
       /\ UNCHANGED <<focus, exportVars, inUse, updateVars, mediaVars, hostVars, stagingVars,
                      tableVars, emulatorVars, itemVars, patchVars, storeVars, editorVars,
                      transferVars, nameVars, desktopVars, catalogueVars, containerVars, romVars,
                      recipeVars, deployVars, layoutVars>>
    \/ focus = "desktop" /\ DesktopNext
       /\ UNCHANGED <<focus, exportVars, inUse, updateVars, mediaVars, hostVars, stagingVars,
                      tableVars, emulatorVars, itemVars, patchVars, storeVars, editorVars,
                      transferVars, nameVars, prepVars, catalogueVars, containerVars, romVars,
                      recipeVars, deployVars, layoutVars>>
    \/ focus = "catalogue" /\ CatalogueNext
       /\ UNCHANGED <<focus, exportVars, inUse, updateVars, mediaVars, hostVars, stagingVars,
                      tableVars, emulatorVars, itemVars, patchVars, storeVars, editorVars,
                      transferVars, nameVars, prepVars, desktopVars, containerVars, romVars,
                      recipeVars, deployVars, layoutVars>>
    \/ focus = "containers" /\ ContainersNext
       /\ UNCHANGED <<focus, exportVars, inUse, updateVars, mediaVars, hostVars, stagingVars,
                      tableVars, emulatorVars, itemVars, patchVars, storeVars, editorVars,
                      transferVars, nameVars, prepVars, desktopVars, catalogueVars, romVars,
                      recipeVars, deployVars, layoutVars>>
    \/ focus = "roms" /\ RomsNext
       /\ UNCHANGED <<focus, exportVars, inUse, updateVars, mediaVars, hostVars, stagingVars,
                      tableVars, emulatorVars, itemVars, patchVars, storeVars, editorVars,
                      transferVars, nameVars, prepVars, desktopVars, catalogueVars, containerVars,
                      recipeVars, deployVars, layoutVars>>
    \/ focus = "recipes" /\ RecipesNext
       /\ UNCHANGED <<focus, exportVars, inUse, updateVars, mediaVars, hostVars, stagingVars,
                      tableVars, emulatorVars, itemVars, patchVars, storeVars, editorVars,
                      transferVars, nameVars, prepVars, desktopVars, catalogueVars, containerVars,
                      romVars, deployVars, layoutVars>>
    \/ focus = "deployment" /\ DeployNext
       /\ UNCHANGED <<focus, exportVars, inUse, updateVars, mediaVars, hostVars, stagingVars,
                      tableVars, emulatorVars, itemVars, patchVars, storeVars, editorVars,
                      transferVars, nameVars, prepVars, desktopVars, catalogueVars, containerVars,
                      romVars, recipeVars, layoutVars>>
    \/ focus = "layout" /\ LayoutNext
       /\ UNCHANGED <<focus, exportVars, inUse, updateVars, mediaVars, hostVars, stagingVars,
                      tableVars, emulatorVars, itemVars, patchVars, storeVars, editorVars,
                      transferVars, nameVars, prepVars, desktopVars, catalogueVars, containerVars,
                      romVars, recipeVars, deployVars>>

\* Of an update, see UpdateFairness.  Of a chosen image: the page finishes
\* loading, the main loop turns, the worker goes on, and its request has a time
\* limit; nobody has to answer a review.
ServicesSpec ==
    /\ ServicesInit /\ [][ServicesNext]_servicesVars
    /\ \A t \in Threads : UpdateFairness(t)
    /\ WF_hostVars(focus = "host" /\ FinishLoading) /\ WF_hostVars(focus = "host" /\ RunCallback)
    /\ WF_hostVars(focus = "host" /\ TakePlan) /\ WF_hostVars(focus = "host" /\ FinishPlan)
-----------------------------------------------------------------------------
\* Every service keeps to its types and to the bounds of its state.
ServicesTypeOK ==
    /\ ExportTypeOK /\ UpdateTypeOK /\ MediaTypeOK /\ HostTypeOK /\ StagingTypeOK
    /\ TableTypeOK /\ EmulatorTypeOK /\ ItemsTypeOK /\ PatchTypeOK /\ StoreTypeOK
    /\ EditorTypeOK /\ TransferTypeOK /\ NamesTypeOK /\ PrepTypeOK /\ DesktopTypeOK
    /\ CatalogueTypeOK /\ ContainersTypeOK /\ RomsTypeOK /\ RecipesTypeOK /\ DeployTypeOK
    /\ LayoutTypeOK

\* What a disk or an image holds survives the container, the drive or the file
\* it goes through: downloads, captures, exported and imported containers.
ImagesKeepTheirContent ==
    ServedIsSound /\ ExportIsCurrent /\ MediaIsWhole /\ SectorsInPlace /\ ExportReadsBack

\* What is formatted, partitioned or made bootable is found again by the code
\* that reads it, in every geometry and in every order of preparation.
VolumesStaySound ==
    EntriesReadAsSet /\ FormattedIsFound /\ TableTellsTheDrive /\ LoadersFindTheirDriver

\* A patch gives the image it was made for, a set of chips the ROM, and a
\* package what its manifest lists.
ArtifactsReproduce == PatchReproduces /\ ChipsHoldTheRom /\ PackageIsAsListed

\* Moving and installing loses nothing: banks of a ROM, programs and records of
\* the desktop, the projects of moved files, and what a first staging brings.
MovesLoseNothing ==
    BanksMoveWhole /\ ProgramsStart /\ ProjectsFollowFiles /\ FirstStagingKeepsAll
-----------------------------------------------------------------------------
(***************************************************************************)
(* Values of the constants.                                                *)
(***************************************************************************)
MCPatchPaths == {<<"A">>, <<"A", "B">>, <<"C">>}

MCMediaOf == [i1 |-> <<>>, i2 |-> <<"zip", "st">>, i3 |-> <<"zip">>]

MCFoundNames == {<<"a">>, <<"A">>, <<"A", "1">>, <<"a", "b", "a">>, <<"A", " ", "b">>}

MCDisks ==
    {<<[k \in 1..5 |-> b] \o t, <<1, 2, 1, 229, 1, 1, 3, 3>>>> :
        b \in {229, 7}, t \in [1..3 -> {229, 7}]}
Seen(n, good, d) == [number |-> n, good |-> good, data |-> [k \in 1..4 |-> d]]
MCTracks ==
    {<<>>,
     <<Seen(1, TRUE, 1)>>,
     <<Seen(1, TRUE, 1), Seen(2, TRUE, 2)>>,
     <<Seen(2, TRUE, 2), Seen(1, FALSE, 3)>>,
     <<Seen(1, TRUE, 1), Seen(2, TRUE, 2), Seen(1, TRUE, 3)>>,
     <<Seen(1, FALSE, 3), Seen(1, TRUE, 1), Seen(2, TRUE, 2)>>}
MCFluxCaptures == [0..1 -> MCTracks]

MCStartRoms == {<<171, 1, 2>>, <<7, 1, 2>>, <<255, 1, 255, 3>>}
MCOtherRoms == {<<171, 1>>, <<3, 1, 2, 9, 9>>}
MCBankFiles == {<<5>>, <<5, 6>>}
Job(size, mirror, byteSwap, wordSwap, crossed, lanes, parts) ==
    [size |-> size, mirror |-> mirror, byteSwap |-> byteSwap, wordSwap |-> wordSwap,
     crossed |-> crossed, lanes |-> lanes, parts |-> parts]
MCJobs ==
    {Job(4, TRUE, TRUE, FALSE, <<0, 1>>, 2, 1),
     Job(8, FALSE, TRUE, TRUE, <<1, 2>>, 2, 2),
     Job(8, TRUE, FALSE, TRUE, <<>>, 1, 2)}

MCNamings == {<<"a", "b">>, <<"read me", "read.me">>, <<"a", "b", "c">>}
MCShortName ==
    [n \in {"read me", "read.me", "a", "b", "c"} |-> IF n \in {"a", "b", "c"} THEN n ELSE "READ"]
=============================================================================
