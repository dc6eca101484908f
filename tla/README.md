# Atari File Forge in TLA+

TLA+ modules for the parts of Atari File Forge whose correctness depends on
the order of steps: what the server keeps about an open disk image, what its
requests do to that state and in which order, and what is left when a request
fails, is aborted, overlaps another one or dies with the process.

Contents: the inventory of the system, the plan, the modules and the code they
stand for, what is checked (with bounds and fairness), what is proved, what is
not modelled.

## 1. Inventory

Atari File Forge is a Flask application with threaded request handlers
(`src/app`), a filing-system engine (`src/atarinut`), device clients
(`src/atari_floppy`, `src/atari_greaseweazle`), a browser workbench
(`src/app/static`) and a GTK desktop host (`src/desktop`).

| Component | State it keeps | Hard behaviour | Modules |
|---|---|---|---|
| Operation registry (`operations.py`, `operation-ui.js`) | one record per tracked operation, in memory and in `operations.json` | the abort is a request of its own and may arrive before the work, between two steps of it or after it; restarts; purging of old records | `OperationRegistry` |
| Image history (`session_disk_service.py`, `checkpoints.py`, the middleware of `server.py`, `routes/effects.py`, `routes/images.py`) | the working image, the session object, `session.json`, the folder of checkpoints | no lock is held across a request: each step takes the session lock anew; failure leads to a roll-back; a crash loses memory but neither image nor points | `ImageHistory`, `UndoHistory`, `ImageHistoryRefinement` |
| Partition selection (`partition_service.py`, `routes/common.py`, `filesystem_disk_service.py`) | the selected partition of a drive, persisted | the selection is shared by all requests on the drive, and read before the lock is taken; the session is stored without the lock, through one temporary file | `PartitionSelection` |
| GEMDOS volume (`atarinut/filesystem/gemdos.py`, `blocks.py`) | FAT copies, directories, data clusters, boot sector | a call is many block writes; 12-bit entries share bytes; the width of the FAT is stored nowhere | `GemdosVolume`, `GemdosLayout` |
| Partition table (`atarinut/filesystem/ahdi.py`) | AHDI, ICD and MBR tables, extended chains | chains of tables with relative links, arithmetic at the ends, damaged chains | `PartitionTable` |
| Session store (`session_disk_service.py`, `session_state.py`, `disk_service.py`) | open sessions in memory, a folder per session | a session reloaded while it is discarded, failures of each step of opening, restarts | `SessionStore` |
| Disk service (`disk_service.py`, `container_disk_service.py`, `download_archive.py`, `volume_copy.py`, `filename_policy.py`, `gemdos_items.py`) | derived export files, the ready archive, editor projects | derived files that are older than the image; copies that fail half way; names that fold together; projects that follow their files | `ImageExport`, `VolumeTransfer`, `NamePolicy`, `FileItems` |
| Physical drives (`routes/desktop.py`, `atari_floppy`, `atari_greaseweazle`) | the drive in use, the progress of a capture | the image is edited while a disk is written; aborts, drives that fail on any track | `PhysicalMedia`, `MediaActivity` |
| Application update (`app_update.py`) | phase, release, threads, the cancel event, the package on disk | one thread per request, cancellation, a drive taken while a download ends or while the password prompt is open | `AppUpdate`, `MediaActivity` |
| Emulator (`routes/tools.py`, `emulator_config.py`, `emulator_evidence.py`) | the interactive process, its viewer, its media | a process that ends on its own while it is being replaced | `Emulator` |
| Catalogue and search (`catalog_service.py`, `routes/catalog.py`) | pages, crawled listings, result tokens, in memory and on disk | cached answers, indexes that change while they are paged through, tokens older than the process | `Catalogue` |
| Installers and drive preparation (`install_service.py`, `drive_preparation.py`, `desktop_replacement.py`, `gemdos_install_service.py`, `deployment_service.py`) | staged folders and their record, loaders, desktop and AUTO records | steps whose order matters to code in ROM, disks that disagree, an image edited while it is packed | `Staging`, `DrivePreparation`, `DesktopInstall`, `Deployment` |
| Image patch and editors (`image_patch.py`, `image_diff.py`, `hex_service.py`, `file_editor.py`, `editor_project.py`) | the version an editor loaded, the plan of a patch | a file that changed since it was loaded; dependencies between operations | `ImagePatch`, `FileEditor`, `FileItems` |
| Container and sector formats (`msa.py`, `dim.py`, `stx.py`, `ipf.py`) | none | run lengths at boundaries, missing and repeated sectors | `ContainerFormats` |
| ROM tools (`rom.py`, `rom_workbench.py`, `rom_components.py`, `rom_disk_service.py`) | the ROM and its banks | moves of several banks, partial banks, the order of splitting and swapping | `RomBanks` |
| Command line (`cli.py`, `headless.py`, `workflow_recipe.py`) | recipes and workflow bundles | files that change between two steps of a replay | `Recipes`, `VolumeTransfer` |
| Desktop host (`desktop/__main__.py`) | choices not yet shown, a worker and its queue | four parties, start-up and shutdown order | `DesktopHost` |
| BASIC listings (`atarinut/basic`, `basic_listing.py`) | none | conversion of text | - |
| Browser workbench (`app/static/*.js`) | panes, clipboard, workspace | presentation | - |

### How the components interact

A request enters through the middleware of `server.py`. If the route is marked
as changing an image (`routes/effects.py`), the middleware records an automatic
checkpoint first and, after the handler, either finishes it or rolls it back.
The handler finds the session in the store, may select a partition, and calls
the disk service, which takes the session lock for each of its steps and uses
the filing-system engine on the working image. Long handlers run inside
`OperationRegistry.tracked`; browsers poll and abort them with requests of
their own. Sessions, checkpoints and operation records are files, so a restart
finds what was last stored.

Two things cross these lines. The counter of drives in use (`Activity`) is
taken by requests that read or write a disk and asked by the updater, which must
not interrupt them: `MediaActivity` is that counter, `AppUpdate` and
`PhysicalMedia` share it, and `MCServices` lets both run and the process end.
And every request that changes an image and fails is put back by the middleware:
`ImageHistory` shows that, and the models of the services rely on it where they
say that a failed request leaves the image as it was.

What makes each modelled component correct is listed with its module in
section 3; every hazard that the properties are for is in `PROJECT.json`.

## 2. Plan

1. `OperationRegistry`: aborts, restarts, purging. Safety proved.
2. `ImageHistory`: the core. Concurrent requests on one image with automatic
   points, roll-back, undo, restore, download, crash. `UndoHistory` is the
   abstract promise (a document with a stack of earlier states) that it
   implements when requests come one at a time. Safety and the refinement
   proved.
3. `PartitionSelection`: which partition a request works on. Safety proved.
4. `GemdosVolume`: one call of the engine as the block writes it makes, with a
   crash between any two. Types, validity and what an interrupted call leaves
   proved.
5. The services around the image, in the order in which a user meets them:
   sessions, downloads, copies and names, drives, update, emulator, partition
   tables, installers, patches and editors, catalogue, ROM tools, recipes,
   deployment. Each has a module; `MCServices` composes them.
6. Proofs of the services: update, emulator, session store, editors, downloads
   and drives, recipes, patches, staging, names, copies, catalogue.

All six are done. What a further step could add: `PartitionSelection` and the
history with overlapping requests under a lock that is held for a whole request,
and the safety of `Deployment`, `RomBanks`, `FileItems` and `DesktopHost`.

Proofs follow the models: type correctness and the safety invariants of each
module, from inductive invariants that TLC has checked first.

## 3. Modules

### OperationRegistry

One action per method of `operations.py`; `items[id]` is the record, `worker[id]`
the point of the request's thread inside `tracked`, `units[id]` the disks or
files it has finished. An identifier is a browser and a number of its own
(`Ids == Owners \X Numbers`), as nothing keeps two browsers apart but that their
identifiers differ. `Post` is the browser inventing the identifier and sending
the request. A progress report (`Report`) is the only point at which a
worker learns of an abort (`Interrupt`). The registry stores all records at the
end of every locked operation by replacing a file, so memory and file agree
whenever another step can run and one variable stands for both. Time appears
only as "untouched for an hour" (`Age`), the condition on which `start` drops
records: always possible for an operation that has ended, and within one unit
of work (one disk, one file) when `LongUnits` says so. `asked` is history: operations whose abort was acknowledged.

`pause` and `details` have no caller in the application and are left out.
What must hold: a record says *running* only while a thread runs for it
(`RunningHasWorker`), a running operation has a record to poll and abort
(`LiveIsListed`), an outcome is never overwritten (`TerminalIsFinal`), no unit
starts after an acknowledged abort (`CancelStopsWork`), and an aborted
operation reaches an end (`AbortReachesEnd`).

### ImageHistory, UndoHistory, ImageHistoryRefinement

`image` is the working file (the set of edits it holds), `mem` the session
object, `json` the file `session.json`, `points` the folder of checkpoints,
`lock` the session lock where a step keeps it beyond one action. A request of a
kind in `Kinds` takes the steps its handler and the middleware take, each step
being the code between two acquisitions of the lock:

| Steps | Code |
|---|---|
| `Begin` | the middleware records the automatic point and a fingerprint |
| `EditWrite`, `EditMark` | the change under the lock; the changed flag after it |
| `FindBlank`, `ReplaceBlank` | `replace_blank_image()`: the image is found blank, then an image of another name takes its place, in the file and in the session |
| `SaveArchive` | a download is prepared and marks the image as saved |
| `Finish` | the point is dropped if nothing changed, pruned, the session stored |
| `Rollback`, `RollbackWithoutPoint`, `Rewind`, `RollbackDrop` | an error: restore and delete the point, or only log that it is gone |
| `RestoreBegin`, `RestoreImage`, `RestoreWithoutPoint`, `Rewind` | a fresh undo point, then the chosen checkpoint |
| `UndoImage`, `Rewind`, `UndoDrop` | the newest automatic point, restored and dropped |
| `CreateNamed`, `DeletePoint`, `Rename`, `Relabel`, `StoreProfile` | the other requests of the history dialog |
| `Crash` | memory is lost, files stay, the next request reloads `session.json` |

No route calls `replace_blank_image()`; it is modelled because `relabel()` is
written for what it leaves behind, checkpoints of an image of another name.
`Relabel` may stop at any point with an error, which the code ignores: the
request then ends "unlabelled".

`saved` is history: contents of which the user has a file. `UndoHistory` is
the promise: a document, a bounded stack of earlier contents and a set of named
contents, with change, undo, restore, keep and discard.
`ImageHistoryRefinement` maps the image, the automatic points ordered by
creation and the named ones to it; while an edit or a restore may still be
rolled back the document is its checkpoint. `Ordered` finds the i-th point as
the one that i - 1 others precede (`Older`), without recursion.

### PartitionSelection

The selected partition, the capabilities read from it, what `session.json` and
`session.json.tmp` say of both and of the changed flag, the edits each partition
holds and the automatic points (which hold the selection). A request arrives
naming a partition, the table, nothing or an index beyond the table (`Begun`);
`Choose`, `SelectTable`, `SkipSelection` are
`apply_partition()`/`select_partition()`, `ReadIndex` and `Describe` the two
halves of `refresh_gemdos_capabilities()`, the second of which may fail and
leave no capabilities. `MakeText`, `WriteTemporary` and `ReplaceStored` are the
three steps of `_persist_session()`: no lock is held, and all requests on the
image share the temporary file, so that an older text may replace a newer one
and a rename may find nothing. `Mount` and `Write` are the work; `Finish`,
`Fail`, `Drop`, `FailListing`, `Answer` the ends. A search of the whole drive
selects partition after partition and puts the selection back.

The text of the session is taken from memory in one step. Full disks, temporary
files written half and saving the image are left out.

What must hold: edits and listings reach the partition they mean, failures and
searches put the selection back, an answer describes the partition it names, and
`session.json` is current when nothing is in flight.

### GemdosVolume

The disk is two copies of the FAT, the root directory and the clusters; a
cluster of a file holds which part of which write it is. A call reads the disk,
computes its changes on a FAT in memory as the code does (lowest free clusters,
first record not in use, a directory grown by a cleared cluster that is stored
at once) and leaves `todo`, the blocks in the order in which the code writes
them; `WriteBlock` writes one, `Crash` drops the rest. `base` is the disk when
the call began. A copy of the FAT is one block here.

`VolumeValid` says that the translated `validate()` finds nothing after any
sequence of completed calls and that parent records are true;
`EffectAsPromised` that each call changed the tree of names and contents
exactly as it should; `CrashLeavesOnlyLeaks` and `CrashBetween` what a call
that died may leave. Replacing and defragmenting a file are excepted from the
latter two, because there the claim is false (section 5).

The volume is written to be proved about. Walks, the path down to a folder and
the loops of `remove()` and `defragment()` are recursive functions over the
number of steps, and what a sound volume looks like is stated once, apart from
`validate()`: `LaidOut` gives every folder, known by its first cluster, its path
and its parent, every entry a chain of its own that ends, every file the content
of one write, and no two entries of a folder one name; `Tidy` adds that both
copies of the FAT agree and no cluster is lost. `VolumesAssumption` asks that of
the volumes a session starts from, and the run evaluates it on its three.

### MCServices and the services

One module for each service below, with the state that its code keeps and one
action for each request, thread step or algorithm. `MCServices` puts them
beside each other. `focus` says which is at work: they share nothing but the
counter of drives in use, so their interleavings would only multiply states.
Where the counter matters (`focus = "update"`), the updater, requests for
either drive and the end of the process interleave. `ServicePromises` puts those
services together whose promises are stated jointly and proved; `MCServices`
extends it.

| Module | What it follows | What must hold |
|---|---|---|
| `SessionStore` | opening by bytes and name, creating, converting, copying; reload after a restart as two steps (read, register); clearing as pop and removal; every step may fail | `AnsweredIsKept`, `KindFollowsBytes` |
| `ImageExport` | edits, undo, failure and renaming against the encoded container, its pointer, and the ready ZIP, which is compared by modification time when it is fetched. Of flux containers it is only claimed that what is handed out decodes | `ServedIsSound`, `ExportIsCurrent` |
| `PhysicalMedia`, `MediaActivity` | capture and write of a disk, track by track, under edits, aborts, failing drives and the end of the process. Drives behind a controller answer for every track; those behind `gw` end with an exit code, may leave tracks unread, and do not verify flux they write, so nothing is claimed of their captures and of unverified disks | `MediaIsWhole` |
| `AppUpdate` | check and installation threads, the download block by block, cancellation, the check of the sum, the look at the drives, the password prompt, apt, the event given up after the phase changes | `UpdateIsSafe`, `UpdateSettles` |
| `DesktopHost` | chooser, main loop, page and worker | `ChosenIsAnswered` |
| `Emulator` | interactive and bounded runs, replacement, the reaper of each process | `RunsKeepTheirMedia` |
| `FileEditor` | the saves of the source editor, the file hex editor and the raw hex editor, each call under a lock of its own: check, unlock, write, lock again | `RawWriteIsCurrent` |
| `FileItems` | moving, renaming, deleting a selection, and the projects kept by path | `ProjectsFollowFiles` |
| `VolumeTransfer` | a copy as the list of items collected first and written after | `TransferIsWhole` |
| `NamePolicy` | 8.3 names, numbering, folders renamed once | `DistinctStayDistinct` |
| `ImagePatch` | comparing, deriving, pre-flight, applying, verifying, abort | `PatchIsWhole` |
| `Staging` | disks merging into a title, disagreements put aside in folders that labels share when they shorten to one name | `ConflictsAreReal`, `FirstStagingKeepsAll` |
| `DrivePreparation` | root sector, boot sector, driver file and kept loaders, for a driver whose loader is long and one that is free, on tables that use the root sector differently | `LoadersFindTheirDriver` |
| `DesktopInstall` | desktop records and AUTO, installing and repairing | `ProgramsStart` |
| `Deployment` | plan, private snapshot block by block, manifest, archive | `PackageIsAsListed` |
| `PartitionTable` | layout, root, chain, ICD extension, MBR, reading back, also damaged | `TableTellsTheDrive` |
| `GemdosLayout` | geometry, boot sector, checksum, FAT12 and FAT16 entries as bytes, probing, opening | `EntriesReadAsSet`, `FormattedIsFound` |
| `ContainerFormats` | MSA, DIM, Pasti, SPS to sectors and back | `SectorsInPlace`, `ExportReadsBack` |
| `RomBanks` | banks, ROM patches, audit and repair, chip files | `BanksMoveWhole`, `PatchReproduces`, `ChipsHoldTheRom` |
| `Catalogue` | crawl and index, windows of pages, tokens, installation, restart | `InstalledWasOffered`, `PagesCoverTheIndex` |
| `Recipes` | commands that record, the workflow bundle, the replay that verifies before it publishes | `PublishedIsRecorded` |

The library's encoders, the package manager, the network, the drives and the
ROM of the machine are their outcomes: every result the code distinguishes,
chosen freely.

## 4. What is checked

Deadlock checking is on in every run except `services`, `recipes_replay` and
`gemdos_layout_reopens`: there it is legitimate that nothing more is asked for
(no more commands, no more titles to stage). In the others `NoMoreCalls`/`NoMoreRequests` stutter only
where nothing is in flight, so a request that cannot go on is a deadlock.

| Run | Bounds | Shows |
|---|---|---|
| `operation_registry` | 2 operations, 2 browsers, 2 units each | all properties of the registry, with restarts and purging |
| `image_history` | 4 requests of any kind, one after another, limit of 2 points | dot, stored state, roll-back, and refinement of `UndoHistory`, which says what undo and restore do |
| `image_history_overlap` | 3 overlapping requests of any kind, limit of 1 | named points under every interleaving; names, through renames and replaced images, until a relabelling fails |
| `image_history_crash` | 3 overlapping requests that record points, crashes, limit of 3 | every finished edit can be undone |
| `partition_selection` | 3 requests, 2 partitions, one after another, failing at any point | the properties of the selection |
| `gemdos_volume` | 5 clusters, 2 root records, 2 names, paths of 2, files of up to 2 clusters, 3 calls, 3 starting volumes | the properties of the volume, each call dying after any block |
| `services` | below | the properties of the services, about 330,000 states |

The properties of `services` are conjunctions, one for each promise to the
user. Each conjunct has been seen to catch a mistake in the code it is about;
the mistakes are written as definitions beside the code they change, with a
comment that begins with "Mistake:":

| Property | Conjuncts | Mistakes they catch |
|---|---|---|
| `ImagesKeepTheirContent` | `ServedIsSound`, `ExportIsCurrent`, `MediaIsWhole`, `SectorsInPlace`, `ExportReadsBack` | `PutBackUntouched`, `PrepareUnverified`, `ChangeSectorsKeepExport`, `WriteFromImage`, `EndReadShort`, `DimSectorsFromZero`, `PlacedLast`, `RecordMarkerBare` |
| `VolumesStaySound` | `EntriesReadAsSet`, `FormattedIsFound`, `TableTellsTheDrive`, `LoadersFindTheirDriver` | `FatSetWhole`, `ChecksumWordZero`, `LinkFromOwnTable`, `PlannedWithoutOverhead`, `RootWithMark`, `DriverFileAsShipped` |
| `TransfersAreWhole` | `TransferIsWhole`, `DistinctStayDistinct`, `PatchIsWhole`, `ConflictsAreReal` | `FailCopyKeepFolder`, `DestinationAsNamed`, `AllocatedFirst`, `PreflightAnyBase`, `VerifyNothing`, `RecordedStale`, `PutAsideTogether` |
| `ArtifactsReproduce` | `PatchReproduces`, `ChipsHoldTheRom`, `PackageIsAsListed` | `ComparedShared`, `SplitHalves`, `ArchiveLive`, `DistinctAsNamed` |
| `SessionsAnswerAsKept` | `AnsweredIsKept`, `KindFollowsBytes`, `RunsKeepTheirMedia` | `AnswerUnstored`, `ClearOfAnybody`, `OpenedByName`, `ReapUnchecked` |
| `WritesFollowChecks` | `RawWriteIsCurrent`, `PublishedIsRecorded`, `InstalledWasOffered` | `WriteRawBySize`, `PublishThenVerify`, `TokenOfPage`, `KnownAtAnyAge` |
| `MovesLoseNothing` | `BanksMoveWhole`, `ProgramsStart`, `ProjectsFollowFiles`, `FirstStagingKeepsAll` | `MovedInTurn`, `InsertedBehind`, `ProjectsMovedExactly`, `DeleteSelectedOnly`, `PutAsideTogether` |
| `UpdateIsSafe` | one thread works, the phase tells, the package is checked | `CancelAtOnce`, `PackageUnverified` |
| `UpdateSettles` | - | `AskWhenFree` |
| `PagesCoverTheIndex`, `ChosenIsAnswered` | - | `WindowEndAfterFound`; `DrainAlways`, `FinishPlanSilently` |

Why the bounds are enough. A registry record interacts only with its own worker
and with the purge another start triggers: two operations show both. In the
history every disagreement we know of needs at most three requests; the fourth
lets an undo follow a failed request that followed an edit, and a limit below
the number of requests makes pruning happen. For the partitions, a listing, an
edit and an undo of two partitions are three requests. On the volume the
starting volumes put the interesting cases within three calls: a fragmented
file whose new place overlaps its old one, a folder that has to grow, a full
volume.

In `services`, two drives, one of either kind, and two update threads show a
drive taken during an update and a second installation; the jobs of the two
drives are checked one drive at a time, as they share nothing but the image
(`OnlyDrive`). Two tracks tell a disk of two contents from a
whole one, and one edit of the image is enough to make it. Three emulator runs
let the reaper of the first meet the third. Three labels and three contents let
a third disk disagree with a file put aside by the second, and two of the three
labels shorten to one name. Drives of 6, 9 and
11 sectors hold a chain of up to four tables with and without a remainder. Two
editors and three texts show a save between another one's opening and writing.
An index of three titles in windows of two has a last window that is not full.
Three commands are create, change and replay. The pure algorithms run over all
short inputs on both sides of their limits: records of runs shorter and longer
than the marker threshold and than the longest run, captures with missing,
repeated and bad sectors, ROMs shorter and longer than a bank, FAT entries of
both parities at every neighbour, volumes on both sides of the smallest FAT16.
Sizes are scaled by constants and every constant is named after the limit it
stands for. Requests are interchangeable, and declared symmetric in the runs of
the history and of the selection, which check no liveness.

Fairness is assumed for three liveness properties only:

- `AbortReachesEnd`: a thread inside `tracked` keeps running (weak fairness of
  its start and its steps), which the server's threads have; browsers, restarts
  and the passing of an hour have none.
- `UpdateSettles`: the check and every block of the download have time limits
  in the code, apt ends, and a thread gives its event up when it is done.
- `ChosenIsAnswered`: the page finishes loading, the main loop turns, the
  worker takes the next plan and its request has a time limit. Nobody is
  assumed to answer a review, or the password prompt of an installation.

Two kinds of property are checked with requests one after another although the
server is threaded: those of the changed dot and of the roll-back
(`CleanMeansSaved`, `FailedEditIsGone`, `FinishedEditKept`), with
`StoredIsCurrent`, and those of the partition selection. With
`Concurrent = TRUE` the models show what overlapping requests do to them:
the roll-back of one request removes the finished edit of another; a download
preparation that takes its point between the write and the changed flag of an
edit clears the dot when it fails; an edit between the two steps of a restore
is overwritten (`RestoreIsUndoable`, which says nothing when requests come one
after another and is not checked there); a session stored without the lock
undoes what another request has just stored; a selection between `apply_partition` and the mount sends an
edit to the other partition. One of these is kept as a run (the lost
roll-back).

## 5. Disagreements

Each of these runs finds its property violated by what the code does;
`PROJECT.json` quotes the text it disagrees with.

| Run | What happens |
|---|---|
| `image_history_lost_rollback` | an undo consumes the checkpoint a request in flight needs for its roll-back |
| `partition_selection_ignored_by_delete` | a deletion ignores the partition its request names |
| `gemdos_volume_replace_crash` | a replaced file's record points at freed clusters when the process dies before the record is written |
| `gemdos_layout_reopens` | a small bare volume is formatted with a 16-bit FAT and opened with a 12-bit one |
| `recipes_replay` | a recorded recipe with a new or edited volume never matches: its serial number is random and its dates are those of the run |

The following are known as well. Where a definition is named it is in the
module of that part; checked alone as an invariant or property, under the
constants of the runs unless another value is given, TLC finds it violated.
No run repeats them.

- Registry: with `LongUnits = TRUE` the purge (`operations.py:144`) drops a
  record whose worker still runs, and with it an acknowledged abort
  (`LiveIsListed`, `CancelStopsWork`).
- History: a process that dies after an edit's write and before its finaliser
  leaves the old `session.json`, so the edited image is recovered without its
  changed dot (`disk_service.py:1627`; `CleanMeansSaved` with crashes).
- History: an edit that lands between the undo point of a restore and the
  restore is replaced, and no automatic checkpoint holds it
  (`routes/images.py:242`, against README.md:643; `RestoreIsUndoable` with
  `Concurrent = TRUE`, `AutoLimit = 3` and the kinds edit, named and restore).
- Partitions: an undo restores the selection but not the capabilities read
  from the partition (`checkpoints.py:204`).
- Partitions: a listing stores the session without the lock
  (`partition_service.py:114`), and its older text may replace the one an edit
  has stored, so that a restart takes the edited image for saved
  (`session_disk_service.py:318`; `EditsStayUnsaved` with `Concurrent = TRUE`,
  two requests and the kinds edit and list).
- Downloads: a ZIP made from a flux container is handed out after an edit,
  because the file it is compared with is not the one that edits change
  (`download_archive.py:183`, against its line 176; `ServedMatchesSession`).
- Downloads: undoing an edit made after a download drops the container of that
  download and finds the image unchanged, so the next one hands out the
  container as it was opened (`disk_service.py:996`; `PreparedIsOnScreen`).
- Sessions: the recovery list offers images of an unknown kind, which cannot be
  opened again
  (`session_disk_service.py:42-46`; `RecoverableOpens`).
- Editors: the stale-file check of the file editors is not under the lock of
  their write (`file_editor.py:1083`; `SaveIsCurrent`). Projects are keyed by
  path without the partition (`editor_project.py:19`), against
  `docs/FILE-EDITOR-GUIDE.md:725`: moving a file takes along the project of a
  file at the same path of another partition (`ProjectsFollowFiles` with
  `Volumes = {1, 2}`; the run has one partition).
- Patches: the descendants of a removed folder are looked for behind a dot, not
  the separator of paths, and are left out (`image_patch.py:138`;
  `RemovalsAreClosed`).
- Extraction: files that are in the way are overwritten, against README.md:1528
  (`disk_service.py:2764`; `ExtractionKeepsNames`).
- Staging: correcting one disk overwrites a file that another one had brought
  with the same content
  (`install_service.py:222-225`). Labels that shorten to one name share a folder
  (`install_service.py:244`), where the copies of one disk replace or delete
  those of the other, against the same docstring (`FirstStagingKeepsCopies`).
- Preparation: loaders that cannot be kept fail the request, which is then
  rolled back with the preparation (`routes/install.py:200-206`;
  `CopyNeverCostsPreparation`).
- Desktop: installing Geneva again writes its GEM.CNF as shipped over a shell
  line that names another program (`desktop_replacement.py:776-779` against 944;
  `ShellChoiceStays`).
- Deployment: edits during the copy get into the package after the revision was
  compared (README.md:1211; `PackageIsTheReviewed`).
- Containers: a shortened FastCopy image that does not begin at track 0 is
  placed at track 0 (`dim.py:122-125`; `EarlierTracksBlank`); tracks an MSA
  leaves out are not always spoken of (`msa.py:98-103`; `LossIsAnnounced`).
- ROM: the audit offers repairs the route refuses (`rom_workbench.py:1036`,
  `:1041` against `routes/rom_tools.py:185-201`; `OfferedRepairsExist`);
  renaming a bank pads a partial last one (`rom.py:709`; `RenameKeepsTheSize`).
- Emulator: an interactive run boots the working image itself, against
  README.md:1295 (`WorkingImageNeverGiven`).
- Update: the drives are looked at before the password is asked for, so apt may
  start while a drive is in use (`app_update.py:612-620`, against
  `routes/desktop.py:206`; `InstallSparesDrives` under `UpdateSpec`).
- Capture: `gw` may end without an error and leave a file that lacks tracks,
  which is opened as a whole disk (`atari_greaseweazle/client.py:385`).
- Update: a thread gives up the cancel event of a newer installation
  (`app_update.py:636`). It is harmless to the properties here: the download
  can then not be cancelled, but ends. Two emulator runs may choose one display
  number (`emulator_evidence.py:52`); the number is left out of the model.

## 6. What is proved

For all values of the constants, by TLAPS:

- `OperationRegistry_proofs`: type correctness, `RunningHasWorker`,
  `TerminalIsFinal`; `LiveIsListed` and `CancelStopsWork` where no unit lasts
  over an hour. The inductive invariant `IInv` adds to the types what a
  record's state says about its worker (`WorkerInv`: without it a finish could
  meet a record of another state) and that an acknowledged abort is remembered
  by the record for as long as its worker runs (`Remembered`).
- `ImageHistory_proofs`: type correctness and `NamedPointKept` for any
  interleaving and crashes. The invariant `IdInv` says that identifiers of
  points are below the counter and unique, and that a point with the identifier
  a request will roll back to or drop is automatic: roll-back and undo delete by
  identifier, so nothing less keeps them off named points.

  Where requests come one after another and the process does not die:
  `CleanMeansSaved` and `StoredIsCurrent`. The invariant `SavedInv` carries
  the claim through the middle of a request: every checkpoint that records a
  clean image holds saved content (`PointsHonest`), the same of the image itself
  except between write and mark (`DotHonest`), a request in flight is alone and
  owns its point, and what a rewind has put into the image is that point's
  content. Under the same conditions `FailedEditIsGone` and
  `FinishedEditKept`, from `EditsInv`: checkpoints hold finished edits only
  (`PointsHoldFinished`), so a roll-back takes away nothing but the edit that
  failed, because its own point holds the rest of the image
  (`OwnPointHoldsRest`).

  With overlapping requests, `NamesFollowImage` unless the process dies or a
  relabelling fails. Images that stem from the same replaced images bear one
  name: points among themselves (`PointsAlike`) and, where no rename or rewind is
  half done, with the session (`SettledName`). A rename keeps the lock between
  its two steps (`LockHeld`), and until the second one the points still bear the
  old name (`OldName`); a rewind takes the name of the point its image came from
  (`PointName`), and a replaced image is new to every point, because its request
  had not written before (`HoldsWritten`).

  With overlapping
  requests and crashes anywhere, `EveryEditUndoable`, for any finite set of
  requests no larger than the limit of points and without undo and deletion
  among them: those consume points, and pruning does beyond the limit. `UndoInv`
  says that as many points exist as requests have come at most (`FewPoints`, so
  pruning finds none too many), that two requests own different points
  (`OwnPointsDiffer`), that the finaliser sees a rewritten image
  (`RewriteIsSeen`, or it would drop the point of an edit that changed
  something), and that the point of an edit is there without it from its first
  step on (`EditsUndoable`).

  The refinement, `ImplementsUndoHistory`, with requests one
  after another and no crash: every step of every request is a step of
  `UndoHistory` or a stutter. The first half shows that `Ordered` is the one
  sequence of the points in which the oldest comes first, and from that what
  adding, dropping the newest and pruning the oldest do to the abstract stack.
  The second half maps step by step under `HistInv`: while a request is in
  flight the newest automatic point is its own (`OwnIsLatest`), a request that
  will be taken for one without a change, or that is about to fail, has left the
  image as that point holds it (`UntouchedIsOwn`, `RewoundIsOwn`), and a restore
  has its fresh point (`RestoreHasPoint`).
- `PartitionSelection_proofs`: type correctness for any table and any
  interleaving. Where requests come one after another, `EditsLandWhereMeant`,
  `ListingShowsMeant`, `SelectionPutBack`, `AnswerDescribesNamed` and
  `StoredIsCurrent`. The last is false for overlapping requests. Here a request
  that has changed memory is on its way to storing it, with a text that is
  current (`OnItsWay`), and where no request is at such a step the file is
  current (`SettledIsStored`); a request that may roll back has the point to
  roll back to (`HasWayBack`).
  The invariant `LandInv` says that only one request is in flight (`Alone`), so
  that until it has made its own selection the session still has the one it
  found and from then to its mount the one it means (`MeansSelection`). Undo
  and roll-back replace the content of every partition at once; they put no edit
  into the wrong one because whatever a checkpoint holds are edits that landed
  where they meant to (`Landed`), of requests that had arrived (`Arrived`).
  `AnswersInv` says that the last selection of a search is the one it found
  (`Returns`), and that the capabilities a naming request leaves were read from
  the partition it names (`Describes`).
- `HostServices_proofs`, updates: type correctness, `UpdateIsSafe`
  under `UpdateSpec`, in which requests may take and give back any drives at any
  time and the process may end. The invariant says that at most one thread is
  between its start and the last change of the phase (`OneWorks`), that the
  phase is a busy one exactly then (`PhaseTells`), and that a package which is
  being installed, or was, had the published sum (`PackageChecked`,
  `InstalledChecked`). Threads are not simply one because the last has its event
  left to give up when the next may start.
- `ServicePromises_proofs`, sessions: `SessionsAnswerAsKept`, the conjunction that the run
  checks. Session store: types with `AnsweredIsKept`, and `KindFollowsBytes`.
  The invariant `SoundAt` is stated for one image at a time and says, for each
  point its opening has reached, what is in the folder and in memory. Emulator:
  types and `RunsKeepTheirMedia`. The registered media are those of the
  registered process, which has a reaper and a viewer (`Registered`), and
  nothing runs that was not given a medium (`OnlyGiven`).
- `ServicePromises_proofs`, transfers and checks: `TransfersAreWhole`, `WritesFollowChecks`,
  `FirstStagingKeepsAll` and `PagesCoverTheIndex`. The services share no
  variable, so the two conjunctions follow from their specifications together,
  and each conjunct is a theorem about its own:
  - Editors, `RawWriteIsCurrent`: an editor whose version is level with the
    image shows what the file holds (`StampsHonest`), so equal versions under
    the lock mean unchanged bytes.
  - Recipes, `PublishedIsRecorded`: nothing but the path a run was started for
    changes, and to the recorded output.
  - Patches, `PatchIsWhole`: while a patch is being applied, the checkpoint is
    the image it was made for (`PatchInv`).
  - Staging, `ConflictsAreReal` and `FirstStagingKeepsAll`, whichever labels share
    a folder: only a disk that was staged has conflicts, and only in folders of
    such disks is anything put aside (`OnlyStaged`). Both except what a shared
    folder costs: no claim is made of the copy behind a conflict in it, nor of
    one that a disk replaces by its own.
  - Names, `DistinctStayDistinct`, for names of any signs and length: the names
    given out in a folder are those of its entries, never more than entries
    (`NamesInv`), so a free number is found while there are at most nine
    entries (`FoundAssumption`; what the code does when all numbers are taken is
    left out of the model).
  - Copies, `TransferIsWhole`, for any tree: an item of the disk is still to be
    written or is there (`ItemsArrive`), nothing was below a folder that was
    made (`OnlyMade`), and a copy inside the volume touches nothing but its own
    place (`OthersStay`).
  - Catalogue, `InstalledWasOffered`: pages in memory say what the site says
    until they expire (`PagesTrue`), and what is remembered under a token was
    offered under it at least as long (`WasOffered`). `PagesCoverTheIndex`, for
    an index and windows of any size: up to where the next page starts, every
    title that links media and could be read was shown once (`ShownUpTo`);
    the proof rests on what `Matching` picks out of a list and in which order.
- `HostServices_proofs`, downloads and drives: `ServedIsSound` and `ExportIsCurrent` under
  `ExportSpec`, and `MediaIsWhole` under `MediaSpec` (any number of drives and
  tracks, edits, aborts, failures, the end of the process). Downloads: all files
  decode and none is younger than the clock (`Decodes`), and the ZIP of a plain
  image that has the time of the working file has its content
  (`PlainArchive`): comparing times is enough because every write takes a new
  one. Drives: the tracks behind the head hold the one copy that is written, or
  have been read (`DriveSound`); of captures by `gw` nothing is claimed.
- `GemdosVolume_proofs`, `GemdosCalls_proofs`: all five properties of the run,
  `TypeOK`, `VolumeValid`, `CrashLeavesOnlyLeaks`, `EffectAsPromised` and
  `CrashBetween`, for any number of clusters, records, names, calls and levels
  of folders.

  The invariant of a volume at rest is that it is `LaidOut` for some set of
  folders and some paths of them, and `Tidy` unless a call was interrupted;
  `validate()` finds nothing on such a volume, the parents are true, and files
  are whole. It says more than `VolumeValid`, which only sees the objects that
  the walk from the root meets: a change has to keep what is claimed apart from
  what else is claimed, the records that were never used behind those that were,
  and each folder in the folder above. `GemdosVolume_proofs` shows what the
  algorithms compute on such a volume (`ChainFound`: the walk finds the chain;
  `FolderAt`, `ObjectAt`: a path leads to the folder and the object with that
  path; `LaidOutProblems`: what `validate()` finds), and that one change of the
  directories leaves it laid out: nothing that is used changes (`Untouched`), a
  record is added (`Inserted`), goes (`EditLeaves`) or moves (`Moved`). What
  each change makes of the tree of paths and contents is shown beside it
  (`InsertedTree`, `DeletedTree`, `MovedTree`, `KeptTree`).

  While a call is at work the disk is not at rest, and what it will be depends on
  the blocks to come. So the invariant `IInv` speaks of `todo` (`Ahead`): the
  blocks to be written lead the disk to a laid out volume whose tree is what the
  call promises, and they lead there only `Through` disks that an interruption
  may leave. For `Create`, `MakeFolder`, `Rename` and `Delete` these are laid out
  volumes (`Within`): what is written before a record is unused, and what is
  released after it is unused again. For `Move` they need not be sound, as the
  object may be in two folders. In both cases their trees lie between the old
  one and the promised one (`Possible`, `Holding`). A call that overwrites
  clusters in use (`Overwrites`) may pass through any disk. Then a block that is
  written and a crash keep the invariant trivially, both properties of steps are
  read off it, and the work is at the start of each call: `GemdosCalls_proofs`
  follows the blocks of each of the seven calls in the order of the code.
  - `CreateGoes` and `MakeFolderGoes` go through volumes where a cluster is lost
    or the second FAT is old, with the old tree until the record is written.
  - `MoveGoes` and `RenameGoes`: the new record is there before the old one goes,
    and whatever is below the object shows under the new path (`MovedTree`).
  - `ReplaceGoes`: the record of the file is rewritten in its place, and no other
    path shows the old or the new content (`OneItem`, `FileRenewed`).
  - `DeleteGoes`: the objects go one loop turn at a time (`OneRemoved`), after each
    of which the volume is laid out, holds everything that is not under the path
    and nothing new (`Shrinks`). That `remove()` empties a folder before its
    record goes rests on the order in which the walk lists what is inside
    (`FolderOrder`).
  - `DefragmentGoes`: one file at a time is gathered (`OneGathered`). The clusters of
    the run hold what those of the old chain held, in the same order
    (`CopiesFile`), so that the volume shows what it showed (`CopySeen`).
- `RecursionLemmas`: induction over data for the above. The induction theorems of
  the library take an operator as parameter, which the provers cannot
  instantiate; but that a set of numbers that is not empty has a least element
  (`LeastNumber`) follows from `WFMin`, which takes a set, and with it what holds
  for all numbers up to some bound (`UpTo`), that the recursive functions of the
  model exist and have the values their equations give (`StepsExist`,
  `SameSteps`), what flattening a sequence of sequences yields, and that as many
  places of a set can be taken in order as it has members (`PlacesNumbered`).

The proofs assume what the modules assume of their constants: numbers are
natural and not negative, the values that stand for "nothing" are no values,
entries have names, an index is finite and does not share names with the pages
of the sources, a cluster of a folder holds more than its own two records
(`SizeAssumption`), and the volumes a session starts from are laid out
(`VolumesAssumption`; they were formatted and filled by calls). TLC evaluates
these assumptions in the runs.

Only model-checked:

- Liveness (`AbortReachesEnd`, `UpdateSettles`, `ChosenIsAnswered`): fairness is
  out of the provers' reach.
- `VolumesStaySound`, `ArtifactsReproduce`, and of `ImagesKeepTheirContent` the
  conjuncts `SectorsInPlace` and `ExportReadsBack`: what algorithms compute for
  every input. `PartitionTable` and `ContainerFormats` use recursive operators,
  which the provers do not take; those of `GemdosLayout` and `RomBanks` would
  need an induction each. The other three conjuncts of `ImagesKeepTheirContent`
  are proved (`HostServices_proofs`).
- `MovesLoseNothing` but for `FirstStagingKeepsAll`, and the types of the
  services that are not named above (`ServicesTypeOK` is the conjunction of all).
- What section 5 lists for overlapping requests is false, so nothing is left to
  prove there.

## 7. What is not modelled

`PROJECT.json` lists every component and says what each model leaves out.
Whole components without a model:

- BASIC listings: they turn tokens into text and back without keeping state;
  every property would be about the signs of a line.
- The browser workbench: presentation. Its requests are the actions of the
  modules above, its progress dialog is in `OperationRegistry`, and its panes
  while they open are in `DesktopHost`.

Within the modelled ones: readers of ISO 9660 and LHA, HFE and flux beyond the
external encoder's outcome, metadata lookup, disk identification, image
analysis and the reading of TOS resources (text processing without state),
dates, attributes and labels of files, transfers between two partitions of one
drive, checkpoints with equal creation times and the clean-up of abandoned
copies by age. Left out for good: layout and wording of answers, HTML and CSS,
and the hardware at the other end of device calls.
