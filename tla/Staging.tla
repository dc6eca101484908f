------------------------------- MODULE Staging -------------------------------
(***************************************************************************)
(* Staging the disks of a title on the drive it is meant for               *)
(* (src/app/install_service.py, volume_copy.py).  The disks merge into one *)
(* folder.  Where a disk disagrees with a file that is already there, the  *)
(* file stays and the disk's own copy goes into a folder of that disk,     *)
(* beside the record of what was staged, which lists the disagreements.    *)
(* A label that was staged before is a correction and replaces.            *)
(*                                                                         *)
(* The folder of a disk is its label, shortened to a name GEMDOS can store *)
(* and not made distinct: labels that shorten to the same name share it.   *)
(*                                                                         *)
(* Every operation is one request under the session lock, undone as a      *)
(* whole when it fails (ImageHistory), so each is one step.  Paths are the *)
(* names the drive stores: two names that shorten to the same one were     *)
(* given different ones.                                                   *)
(***************************************************************************)
EXTENDS Naturals, FiniteSets

CONSTANTS
    Labels,         \* labels of the disks of the title
    ClashFolders,   \* folders below CLASH\<title>, each as the labels that shorten to its name
    Paths,          \* paths on the disks, relative to their root
    FileContents,   \* what a file may hold
    Absent,         \* no file there
    MaxStaged       \* bounds the number of stagings

ASSUME StagingAssumption ==
    /\ MaxStaged \in Nat
    /\ UNION ClashFolders = Labels
    /\ \A f, g \in ClashFolders : f # g => f \cap g = {}

VARIABLES
    payload,        \* the folder that gets installed: INSTALL\STAGE\<title>
    aside,          \* what each folder below CLASH\<title> holds
    record,         \* STAGE.INF: the paths of each disk, and the conflicts
    titleFolder,           \* the folder the title was installed in
    stagedAs,          \* what each disk held when it was last staged
    stagings        \* stagings so far

stagingVars == <<payload, aside, record, titleFolder, stagedAs, stagings>>
-----------------------------------------------------------------------------
PayloadTrees == [Paths -> FileContents \cup {Absent}]
Empty == [p \in Paths |-> Absent]
FilesOf(tree) == {p \in Paths : tree[p] # Absent}

Conflict == [path : Paths, alsoIn : Labels]
NoRecord == [disks |-> [l \in {} |-> {}], conflicts |-> {}]
StagedLabels == DOMAIN record.disks

\* session_name_policy(target).normalise(label)
FolderOf(label) == CHOOSE f \in ClashFolders : label \in f
Shares(label) == \E other \in StagedLabels \ {label} : other \in FolderOf(label)
NothingAside == [f \in ClashFolders |-> Empty]

StagingTypeOK ==
    /\ payload \in PayloadTrees /\ titleFolder \in PayloadTrees
    /\ aside \in [ClashFolders -> PayloadTrees]
    /\ StagedLabels \subseteq Labels
    /\ \A l \in StagedLabels : record.disks[l] \subseteq Paths
    /\ record.conflicts \subseteq Conflict
    /\ stagedAs \in [Labels -> PayloadTrees]
    /\ stagings \in 0 .. MaxStaged

StagingInit ==
    /\ payload = Empty /\ titleFolder = Empty
    /\ aside = NothingAside
    /\ record = NoRecord
    /\ stagedAs = [l \in Labels |-> Empty]
    /\ stagings = 0

\* A batch written over what a folder holds: put_host_tree(replace=True).
WrittenOver(tree, batch, paths) ==
    [p \in Paths |-> IF p \in paths THEN batch[p] ELSE tree[p]]
-----------------------------------------------------------------------------
(***************************************************************************)
(* copy_volume_tree().  A file that cannot be read is left out.            *)
(***************************************************************************)

\* existing="divert": a file that is not there yet is written, one with the
\* same bytes is skipped, one that disagrees goes elsewhere.
NewHere(disk, readable) == {p \in readable : payload[p] = Absent}
Disagrees(disk, readable) == {p \in readable : payload[p] \notin {Absent, disk[p]}}

\* existing="replace": every file is written.
Written(disk, readable, replacing) == IF replacing THEN readable ELSE NewHere(disk, readable)
Diverted(disk, readable, replacing) == IF replacing THEN {} ELSE Disagrees(disk, readable)

\* Mistake: a conflict stays although the file it was about was replaced.
RecordedStale(label, written, diverted, seen) ==
    record' =
        [disks |-> [l \in StagedLabels \cup {label} |-> IF l = label THEN seen ELSE record.disks[l]],
         conflicts |-> {c \in record.conflicts : c.alsoIn # label}
                           \cup {[path |-> p, alsoIn |-> label] : p \in diverted}]

\* The record is rewritten: this disk anew, and of the earlier conflicts those
\* that are neither this disk's nor about a file that was just written.
Recorded(label, written, diverted, seen) ==
    record' =
        [disks |-> [l \in StagedLabels \cup {label} |-> IF l = label THEN seen ELSE record.disks[l]],
         conflicts |-> {c \in record.conflicts : c.alsoIn # label /\ c.path \notin written}
                           \cup {[path |-> p, alsoIn |-> label] : p \in diverted}]

\* Mistake: the files that disagree are put aside in one folder for all disks.
PutAsideTogether(label, disk, diverted) ==
    aside' = [f \in ClashFolders |-> WrittenOver(aside[f], disk, diverted)]

\* The folder of a label that is staged again is removed first.  Copies are
\* written over what the folder holds.
PutAside(label, disk, diverted) ==
    aside' = [aside EXCEPT ![FolderOf(label)] =
                 WrittenOver(IF label \in StagedLabels THEN Empty ELSE @, disk, diverted)]

\* stage_disk().
StageDisk(label, disk) ==
    /\ stagings < MaxStaged
    /\ \E unreadable \in SUBSET FilesOf(disk) :
           LET readable == FilesOf(disk) \ unreadable
               replacing == label \in StagedLabels
               written == Written(disk, readable, replacing)
               diverted == Diverted(disk, readable, replacing)
           IN  /\ payload' = WrittenOver(payload, disk, written)
               /\ PutAside(label, disk, diverted)
               /\ Recorded(label, written, diverted, readable)
               /\ stagedAs' = [stagedAs EXCEPT ![label] = [p \in Paths |-> IF p \in readable THEN disk[p] ELSE Absent]]
    /\ stagings' = stagings + 1
    /\ UNCHANGED titleFolder

\* discard_staged_title(): the folder, then the record with what was put aside.
DiscardTitle ==
    /\ FilesOf(payload) # {}
    /\ payload' = Empty
    /\ aside' = NothingAside
    /\ record' = NoRecord
    /\ stagedAs' = [l \in Labels |-> Empty]
    /\ UNCHANGED <<titleFolder, stagings>>

\* install_staged_title(): a move to a folder that must not exist yet.
InstallTitle ==
    /\ FilesOf(payload) # {}
    /\ titleFolder = Empty
    /\ titleFolder' = payload
    /\ payload' = Empty
    /\ aside' = NothingAside
    /\ record' = NoRecord
    /\ stagedAs' = [l \in Labels |-> Empty]
    /\ UNCHANGED stagings

StagingNext ==
    \/ \E label \in Labels, disk \in PayloadTrees : StageDisk(label, disk)
    \/ DiscardTitle \/ InstallTitle

StagingSpec == StagingInit /\ [][StagingNext]_stagingVars
-----------------------------------------------------------------------------
\* A reported conflict is a real one: the disk's copy lies in its folder and
\* differs from the one in the title's, unless a label that shortens to the same
\* name was staged too.
ConflictsAreReal ==
    \A c \in record.conflicts :
        ~ Shares(c.alsoIn) =>
            aside[FolderOf(c.alsoIn)][c.path] \notin {Absent, payload[c.path]}

\* A disk may put its own copy of a path over another one's in a folder they share.
OwnCopyOver(l, f, p) ==
    /\ f = FolderOf(l) /\ Shares(l)
    /\ [path |-> p, alsoIn |-> l] \in record'.conflicts

\* A disk that is staged for the first time changes no file that an earlier disk
\* brought, none that was put aside but where it puts its own copy of the same
\* path into a folder it shares, and loses none of its own files.
FirstStagingKeepsAll ==
    [][\A l \in Labels :
          (l \notin StagedLabels /\ l \in DOMAIN record'.disks)
             => /\ \A p \in FilesOf(payload) : payload'[p] = payload[p]
                /\ \A f \in ClashFolders, p \in Paths :
                      aside[f][p] # Absent => aside'[f][p] = aside[f][p] \/ OwnCopyOver(l, f, p)
                /\ \A p \in FilesOf(stagedAs[l]') :
                      stagedAs[l][p]' \in {payload[p]', aside[FolderOf(l)][p]'}
      ]_stagingVars

\* What stage_disk() says of disks that disagree: the later copy is filed under
\* the disk it came from, so a set is never silently reduced to its last disk.
\* Not so for two labels that shorten to one name: there the last one's copy is
\* all that is left.
FirstStagingKeepsCopies ==
    [][\A l \in Labels :
          (l \notin StagedLabels /\ l \in DOMAIN record'.disks)
             => \A f \in ClashFolders, p \in Paths :
                    aside[f][p] # Absent => aside'[f][p] = aside[f][p]
      ]_stagingVars
=============================================================================
