------------------------------ MODULE Deployment ------------------------------
(***************************************************************************)
(* Hardware deployment packages (app/deployment_service.py): a plan is     *)
(* reviewed, and the package is built later, from a private snapshot of    *)
(* the image that is copied block by block while the image stays open for  *)
(* editing.                                                                *)
(*                                                                         *)
(* The image is a sequence of blocks, each of them also one file of its    *)
(* volume. Its revision is its size and modification time: every write     *)
(* gives it a new one.                                                     *)
(***************************************************************************)
EXTENDS Naturals, FiniteSets, Sequences

CONSTANTS
    Namings,      \* images: for each, the name of the file in each block
    ShortName,    \* _gemdos_leaf(): the 8.3 name each of them is given
    BlockValues,  \* what a block can hold
    FatLimit,     \* the largest file a FAT32 card takes, in blocks
    MaxWrites,    \* bound on the edits of the open image
    NoPackage     \* no plan, no package, no request

ASSUME NamesCovered ==
    \A naming \in Namings : \A b \in DOMAIN naming : naming[b] \in DOMAIN ShortName

VARIABLES
    kind,      \* what is open: "floppy", "drive", or the volume of a drive
    fileNames, \* the names in its volume
    live,      \* the blocks of the open image
    writes,    \* its revision
    reviewed,  \* the plan the user has in front of him
    request,   \* the package being built
    package    \* the package delivered last

deployVars == <<kind, fileNames, live, writes, reviewed, request, package>>

Blocks == DOMAIN fileNames

DeployTargets == {"gotek", "card", "folder"}

\* available_deployment_targets()
TargetsOf(k) == CASE k = "floppy" -> {"gotek", "folder"}
                  [] k = "drive"  -> {"card"}
                  [] k = "volume" -> {"card", "folder"}

\* The media files of a target: the image whole, or one file for each of the
\* volume's, under the name TOS can see.
Entries(target, blocks) ==
    IF target = "folder"
    THEN [b \in Blocks |-> [path |-> ShortName[fileNames[b]], held |-> <<blocks[b]>>]]
    ELSE <<[path |-> target, held |-> blocks]>>

\* Mistake: the paths are compared before they are shortened.
DistinctAsNamed(entries) == Cardinality({fileNames[b] : b \in Blocks}) = Len(fileNames)

Distinct(entries) == Cardinality({entries[i].path : i \in DOMAIN entries}) = Len(entries)

\* canProceed: no finding of severity error.
Deployable(entries) == \A i \in DOMAIN entries : Len(entries[i].held) <= FatLimit

\* The manifest's hash of every entry; a hash is as good as the bytes.
Manifest(entries) == {<<entries[i].path, entries[i].held>> : i \in DOMAIN entries}

-----------------------------------------------------------------------------
DeployInit ==
    /\ kind \in {"floppy", "drive", "volume"}
    /\ fileNames \in Namings
    /\ live = [b \in Blocks |-> CHOOSE v \in BlockValues : TRUE]
    /\ writes = 0
    /\ reviewed = NoPackage
    /\ request = NoPackage
    /\ package = NoPackage

\* Some other request edits the image; nothing keeps it out.
EditBlock(b, v) ==
    /\ writes < MaxWrites
    /\ v # live[b]
    /\ live' = [live EXCEPT ![b] = v]
    /\ writes' = writes + 1
    /\ UNCHANGED <<kind, fileNames, reviewed, request, package>>

\* A request for a plan, or for the package of a plan whose revision still stands.
StartPlan(target) ==
    /\ request = NoPackage
    /\ target \in TargetsOf(kind)
    /\ request' = [step |-> "copy", target |-> target, build |-> FALSE, revision |-> writes,
                   snapshot |-> <<>>, manifest |-> {}, archive |-> {}]
    /\ UNCHANGED <<kind, fileNames, live, writes, reviewed, package>>

StartPackage ==
    /\ request = NoPackage
    /\ reviewed # NoPackage
    /\ reviewed.revision = writes
    /\ request' = [step |-> "copy", target |-> reviewed.target, build |-> TRUE, revision |-> writes,
                   snapshot |-> <<>>, manifest |-> {}, archive |-> {}]
    /\ UNCHANGED <<kind, fileNames, live, writes, reviewed, package>>

\* _copy_sparse(): the next block of the image, without the session's lock.
CopyBlock ==
    /\ request # NoPackage /\ request.step = "copy"
    /\ LET copied == Append(request.snapshot, live[Len(request.snapshot) + 1])
       IN request' = [request EXCEPT !.snapshot = copied,
                                     !.step = IF Len(copied) = Len(live) THEN "plan" ELSE "copy"]
    /\ UNCHANGED <<kind, fileNames, live, writes, reviewed, package>>

\* _deployment_plan() on the snapshot; a plan that is only shown is then done,
\* with the revision the live image has by now.
PlanSnapshot ==
    /\ request # NoPackage /\ request.step = "plan"
    /\ LET entries == Entries(request.target, request.snapshot)
           sound   == Distinct(entries) /\ Deployable(entries)
       IN \/ /\ ~request.build /\ Distinct(entries)
             /\ reviewed' = [target |-> request.target, revision |-> writes, clear |-> sound,
                             manifest |-> Manifest(entries)]
             /\ request' = NoPackage
          \/ /\ request.build /\ sound
             /\ request' = [request EXCEPT !.step = "archive", !.manifest = Manifest(entries)]
             /\ UNCHANGED reviewed
          \/ /\ IF request.build THEN ~sound ELSE ~Distinct(entries)
             /\ request' = NoPackage
             /\ UNCHANGED reviewed
    /\ UNCHANGED <<kind, fileNames, live, writes, package>>

\* Mistake: the archive is filled from the open image instead of the snapshot.
ArchiveLive ==
    /\ request # NoPackage /\ request.step = "archive"
    /\ package' = [target |-> request.target, revision |-> request.revision,
                   manifest |-> request.manifest,
                   archive |-> Manifest(Entries(request.target, live))]
    /\ request' = NoPackage
    /\ UNCHANGED <<kind, fileNames, live, writes, reviewed>>

\* The ZIP: every entry of the snapshot, and the manifest beside them.
ArchiveSnapshot ==
    /\ request # NoPackage /\ request.step = "archive"
    /\ package' = [target |-> request.target, revision |-> request.revision,
                   manifest |-> request.manifest,
                   archive |-> Manifest(Entries(request.target, request.snapshot))]
    /\ request' = NoPackage
    /\ UNCHANGED <<kind, fileNames, live, writes, reviewed>>

DeployNext ==
    \/ \E b \in Blocks, v \in BlockValues : EditBlock(b, v)
    \/ \E target \in DeployTargets : StartPlan(target)
    \/ StartPackage
    \/ CopyBlock
    \/ PlanSnapshot
    \/ ArchiveSnapshot

DeploySpec == DeployInit /\ [][DeployNext]_deployVars

-----------------------------------------------------------------------------
DeployTypeOK ==
    /\ live \in [Blocks -> BlockValues]
    /\ writes \in 0..MaxWrites
    /\ request # NoPackage => Len(request.snapshot) <= Len(live)

(***************************************************************************)
(* A package is what its manifest says: every file in it has the hash the  *)
(* manifest gives its path, no two files share a path, and a drive folder  *)
(* holds every file of the volume, with whatever edits of the open image   *)
(* the copy ran into.                                                      *)
(***************************************************************************)
PackageIsAsListed ==
    package # NoPackage =>
        /\ package.archive = package.manifest
        /\ Cardinality({e[1] : e \in package.archive}) =
              IF package.target = "folder" THEN Len(fileNames) ELSE 1

(***************************************************************************)
(* "A changed source revision also invalidates an approved plan before     *)
(* download" (README.md:1211): a package holds what the approved plan      *)
(* listed. It fails: the revision is compared before the image is copied,  *)
(* and edits go on during the copy.                                        *)
(***************************************************************************)
PackageIsTheReviewed ==
    [][package' # package => package'.manifest = reviewed.manifest]_deployVars
=============================================================================
