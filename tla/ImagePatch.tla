----------------------------- MODULE ImagePatch -----------------------------
(***************************************************************************)
(* Guarded patches of a volume: comparing the manifests of two images      *)
(* (src/app/image_diff.py), deriving a patch for all or some of the        *)
(* changes, checking it against an image and applying it step by step      *)
(* (src/app/image_patch.py, the routes in src/app/routes/tools.py).        *)
(*                                                                         *)
(* A manifest is a set of records, each a path and what it holds.  Two     *)
(* records are the same object when path and type agree.  Attributes and   *)
(* dates go with the content.  A request that fails or is aborted puts     *)
(* the image back (ImageHistory).                                          *)
(***************************************************************************)
EXTENDS Naturals, Sequences, FiniteSets
LOCAL INSTANCE SequencesExt

CONSTANTS
    PatchPaths,     \* paths of the volume
    FilesHold       \* what a file may hold

VARIABLES
    base,           \* the image the patch was built for
    candidate,      \* the manifest the patch leads to
    image,          \* the open image
    before,         \* its checkpoint
    todo,           \* operations that are still to be done
    patching         \* where the patch is

patchVars == <<base, candidate, image, before, todo, patching>>
-----------------------------------------------------------------------------
FolderRecord(path) == [path |-> path, holds |-> "folder"]
Records == [path : PatchPaths, holds : FilesHold \cup {"folder"}]
IsFolderRecord(r) == r.holds = "folder"
At(manifest, path) == {r \in manifest : r.path = path}
Under(path, folder) == IsPrefix(folder, path)
HasParent(manifest, path) == Len(path) = 1 \/ FolderRecord(Front(path)) \in manifest

\* What a volume can hold.
Manifests ==
    {manifest \in SUBSET Records :
        \A r \in manifest : Cardinality(At(manifest, r.path)) = 1 /\ HasParent(manifest, r.path)}

SameObject(r, s) == r.path = s.path /\ (IsFolderRecord(r) <=> IsFolderRecord(s))
-----------------------------------------------------------------------------
(***************************************************************************)
(* compare_manifests().  A change takes records away and brings others: a  *)
(* removal, an addition, a modification, or a file whose content moved     *)
(* from one path to one other and is matched uniquely.                     *)
(***************************************************************************)
Vanished(from, to) == {r \in from : \A s \in to : ~SameObject(r, s)}
Added(from, to) == {s \in to : \A r \in from : ~SameObject(r, s)}
Modified(from, to) == {s \in to : \E r \in from : SameObject(r, s) /\ r # s}

SameContent(records, r) == {s \in records : s.holds = r.holds}
RenamedPairs(from, to) ==
    {pair \in Vanished(from, to) \X Added(from, to) :
        /\ ~IsFolderRecord(pair[1]) /\ pair[1].holds = pair[2].holds
        /\ SameContent(Vanished(from, to), pair[1]) = {pair[1]}
        /\ SameContent(Added(from, to), pair[2]) = {pair[2]}}

Change(takes, brings) == [takes |-> takes, brings |-> brings]
Changes(from, to) ==
    LET moved == RenamedPairs(from, to)
    IN  {Change({pair[1]}, {pair[2]}) : pair \in moved}
            \cup {Change({r}, {}) : r \in Vanished(from, to) \ {pair[1] : pair \in moved}}
            \cup {Change({}, {s}) : s \in Added(from, to) \ {pair[2] : pair \in moved}}
            \cup {Change({r \in from : SameObject(r, s)}, {s}) : s \in Modified(from, to)}

\* _selected_candidate_manifest(): a selection takes the new folders along
\* that its own new files and folders lie in.  The rule for what lies in a
\* removed folder looks for paths that continue it with a full stop, which
\* none does on a GEMDOS volume.
Closed(selected, changes) ==
    selected \cup {change \in changes :
        /\ change.takes = {}
        /\ \E other \in selected : \E r \in change.brings, s \in other.brings :
               r.path # s.path /\ Under(s.path, r.path)}

Derived(from, chosen) ==
    LET takes == UNION {change.takes : change \in chosen}
        brings == UNION {change.brings : change \in chosen}
    IN  (from \ takes) \cup brings
-----------------------------------------------------------------------------
\* The operations of a patch: removals, then new and changed objects.
Operations(from, to) ==
    [removals |-> Vanished(from, to), writings |-> Added(from, to) \cup Modified(from, to)]

NothingToDo == [removals |-> {}, writings |-> {}]

\* Removals take files before folders and then go by path, so that a folder
\* comes before the folders in it: the sort counts full stops.
FirstRemoval ==
    CHOOSE r \in todo.removals :
        \A s \in todo.removals :
            IF IsFolderRecord(r) = IsFolderRecord(s) THEN Len(r.path) <= Len(s.path)
            ELSE IsFolderRecord(s)

\* Writings take folders before files, each after the folder it lies in.
FirstWriting ==
    CHOOSE r \in todo.writings :
        \A s \in todo.writings :
            IF IsFolderRecord(r) = IsFolderRecord(s) THEN Len(r.path) <= Len(s.path)
            ELSE IsFolderRecord(r)

PatchTypeOK ==
    /\ base \in Manifests /\ image \in Manifests /\ before \in Manifests
    /\ candidate \subseteq Records
    /\ todo.removals \subseteq Records /\ todo.writings \subseteq Records
    /\ patching \in {"comparing", "built", "applying", "applied", "refused", "failed", "aborted"}

PatchInit ==
    /\ base \in Manifests /\ candidate \in Manifests
    /\ image = base /\ before = base
    /\ todo = NothingToDo
    /\ patching = "comparing"

\* write_patch_archive(), for the whole comparison or for a selection.
BuildPatch ==
    /\ patching = "comparing"
    /\ LET changes == Changes(base, candidate)
       IN  \E selected \in SUBSET changes \ {{}} :
               candidate' = Derived(base, Closed(selected, changes))
    /\ patching' = "built"
    /\ UNCHANGED <<base, image, before, todo>>

\* The image is edited after the patch was built.
EditPatched ==
    /\ patching = "built" /\ image = base
    /\ \E path \in PatchPaths :
           image' = {r \in image : ~Under(r.path, path)}
    /\ UNCHANGED <<base, candidate, before, todo, patching>>

\* Mistake: any image of the same kind is taken for the base.
PreflightAnyBase ==
    /\ patching = "built"
    /\ before' = image
    /\ todo' = Operations(base, candidate)
    /\ patching' = "applying"
    /\ UNCHANGED <<base, candidate, image>>

\* apply_patch_archive(): the middleware takes the checkpoint, the preflight
\* compares the image with the base and the plan with the two manifests.
Preflight ==
    /\ patching = "built"
    /\ before' = image
    /\ IF image = base /\ \A r \in candidate : {s \in candidate : SameObject(r, s)} = {r}
       THEN todo' = Operations(base, candidate) /\ patching' = "applying"
       ELSE patching' = "refused" /\ UNCHANGED todo
    /\ UNCHANGED <<base, candidate, image>>

Undone(result) ==
    /\ image' = before /\ todo' = NothingToDo /\ patching' = result
    /\ UNCHANGED <<base, candidate, before>>

\* _remove_filesystem_record(): a folder goes with what is in it.
RemoveNext ==
    /\ patching = "applying" /\ todo.removals # {}
    /\ IF At(image, FirstRemoval.path) = {} THEN Undone("failed")
       ELSE /\ image' = {r \in image : ~Under(r.path, FirstRemoval.path)}
            /\ todo' = [todo EXCEPT !.removals = @ \ {FirstRemoval}]
            /\ UNCHANGED <<base, candidate, before, patching>>

\* make_directory() and put().
WriteNext ==
    /\ patching = "applying" /\ todo.removals = {} /\ todo.writings # {}
    /\ LET new == FirstWriting
           old == At(image, new.path)
       IN  IF /\ HasParent(image, new.path)
              /\ \A r \in old : ~IsFolderRecord(r) /\ ~IsFolderRecord(new)
           THEN /\ image' = (image \ old) \cup {new}
                /\ todo' = [todo EXCEPT !.writings = @ \ {new}]
                /\ UNCHANGED <<base, candidate, before, patching>>
           ELSE Undone("failed")

\* Mistake: the result is not compared with the candidate.
VerifyNothing ==
    /\ patching = "applying" /\ todo = NothingToDo
    /\ patching' = "applied"
    /\ UNCHANGED <<base, candidate, image, before, todo>>

\* The manifest of the result must be the candidate.
Verify ==
    /\ patching = "applying" /\ todo = NothingToDo
    /\ IF image = candidate
       THEN patching' = "applied" /\ UNCHANGED <<base, candidate, image, before, todo>>
       ELSE Undone("failed")

AbortPatch == patching = "applying" /\ Undone("aborted")

PatchNext ==
    \/ BuildPatch \/ EditPatched \/ Preflight
    \/ RemoveNext \/ WriteNext \/ Verify \/ AbortPatch
PatchSpec == PatchInit /\ [][PatchNext]_patchVars
-----------------------------------------------------------------------------
\* A patch is applied whole or not at all (README.md:1136): one that reports
\* success turned exactly its base into exactly its candidate, any other end
\* leaves the image as it was found.
PatchIsWhole ==
    /\ patching = "applied" => before = base /\ image = candidate
    /\ patching \in {"refused", "failed", "aborted"} => image = before

\* "Selective patches [...] automatically close dependencies around new parent
\* folders, removed folder descendants" (README.md:1120): a patch that removes
\* a folder removes what the base holds in it.
RemovalsAreClosed ==
    patching = "built" =>
        \A r \in base : IsFolderRecord(r) /\ At(candidate, r.path) = {} =>
            \A s \in base : Under(s.path, r.path) => At(candidate, s.path) = {}
=============================================================================
