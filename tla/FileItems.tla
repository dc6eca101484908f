----------------------------- MODULE FileItems ------------------------------
(***************************************************************************)
(* Moving and deleting a selection of files and folders                    *)
(* (src/app/gemdos_items.py) and the editor projects that go with them     *)
(* (src/app/rom_disk_service.py, editor_project.py): notes, symbols and    *)
(* test results, kept by path beside the image.  Each request holds the    *)
(* session lock for its changes and is undone as a whole when it fails     *)
(* (ImageHistory), so each is one step.  Going back to a checkpoint is     *)
(* left out.                                                               *)
(*                                                                         *)
(* A path is a sequence of names.  Files and folders are told apart by a   *)
(* number of their own, whatever they are called.                          *)
(***************************************************************************)
EXTENDS Naturals, Sequences, FiniteSets
LOCAL INSTANCE SequencesExt

CONSTANTS
    ItemNames,      \* names within a folder
    Volumes,        \* partitions of the drive
    MaxItems,       \* bounds the files and folders ever made
    MaxProjects,    \* bounds the projects stored at a time
    NoItem,         \* nothing at this path
    NoProject       \* no project is stored for this path

VARIABLES
    tree,           \* what each partition holds at each path
    projects,       \* the item each stored project was written for
    items           \* files and folders made so far

itemVars == <<tree, projects, items>>
-----------------------------------------------------------------------------
ItemPaths == {<<n>> : n \in ItemNames} \cup {<<m, n>> : m, n \in ItemNames}
ItemRecord == [number : 1 .. MaxItems, isFolder : BOOLEAN]

Below(path, folder) == IsPrefix(folder, path)
Suffix(path, folder) == SubSeq(path, Len(folder) + 1, Len(path))
Folders(files) == {<<>>} \cup {path \in ItemPaths : files[path] # NoItem /\ files[path].isFolder}
IsFolder(files, path) == path \in Folders(files)

ItemsTypeOK ==
    /\ tree \in [Volumes -> [ItemPaths -> ItemRecord \cup {NoItem}]]
    /\ \A v \in Volumes, path \in ItemPaths :
           tree[v][path] # NoItem => IsFolder(tree[v], Front(path))
    /\ projects \in [ItemPaths -> 1 .. MaxItems \cup {NoProject}]
    /\ items \in 0 .. MaxItems

ItemsInit ==
    /\ tree = [v \in Volumes |-> [path \in ItemPaths |-> NoItem]]
    /\ projects = [path \in ItemPaths |-> NoProject]
    /\ items = 0
-----------------------------------------------------------------------------
\* mkdir and put.
CreateItem(v, path, isFolder) ==
    /\ items < MaxItems
    /\ tree[v][path] = NoItem
    /\ IsFolder(tree[v], Front(path))
    /\ items' = items + 1
    /\ tree' = [tree EXCEPT ![v][path] = [number |-> items + 1, isFolder |-> isFolder]]
    /\ UNCHANGED projects

\* Mistake: only the project stored for the moved path itself follows.
ProjectsMovedExactly(moves) ==
    [path \in ItemPaths |->
        LET to == {k \in DOMAIN moves : path = moves[k].destination}
            from == {k \in DOMAIN moves : path = moves[k].source}
        IN  IF to # {} THEN projects[moves[CHOOSE k \in to : TRUE].source]
            ELSE IF from # {} THEN NoProject ELSE projects[path]]

\* move_editor_projects(): each path goes with the longest source it is below;
\* what was stored for its destination is overwritten.
Mover(path, moves) ==
    LET over == {k \in DOMAIN moves : Below(path, moves[k].source)}
    IN  CHOOSE k \in over : \A j \in over : Len(moves[j].source) <= Len(moves[k].source)
GoesTo(path, moves) ==
    IF \E k \in DOMAIN moves : Below(path, moves[k].source)
    THEN LET move == moves[Mover(path, moves)]
         IN  move.destination \o Suffix(path, move.source)
    ELSE path
ProjectsMoved(moves) ==
    LET stored == {path \in ItemPaths : projects[path] # NoProject}
        movers == {path \in stored : GoesTo(path, moves) # path}
        arrives(at) == {path \in movers : GoesTo(path, moves) = at}
    IN  [at \in ItemPaths |->
            IF arrives(at) # {} THEN projects[CHOOSE path \in arrives(at) : TRUE]
            ELSE IF at \in movers THEN NoProject ELSE projects[at]]

\* mount.rename() of an object and what is below it.
Renamed(files, move) ==
    [path \in ItemPaths |->
        IF Below(path, move.destination)
        THEN LET from == move.source \o Suffix(path, move.destination)
             IN  IF from \in ItemPaths THEN files[from] ELSE NoItem
        ELSE IF Below(path, move.source) THEN NoItem ELSE files[path]]
Renameable(files, move) ==
    /\ files[move.source] # NoItem
    /\ files[move.destination] = NoItem
    /\ IsFolder(files, Front(move.destination))
    /\ ~(IsFolder(files, move.source) /\ Below(move.destination, move.source))
    /\ \A path \in ItemPaths :
           files[path] # NoItem /\ Below(path, move.source)
               => move.destination \o Suffix(path, move.source) \in ItemPaths

\* move_gemdos_items(): the whole selection is checked first, then one object
\* after the other is renamed.
MoveItems(v, moves) ==
    /\ \A k \in DOMAIN moves :
           /\ moves[k].source # moves[k].destination
           /\ Renameable(tree[v], moves[k])
    /\ \A j, k \in DOMAIN moves : j # k => moves[j].destination # moves[k].destination
    /\ LET after[k \in 0 .. Len(moves)] ==
               IF k = 0 THEN tree[v] ELSE Renamed(after[k - 1], moves[k])
       IN  /\ \A k \in DOMAIN moves : Renameable(after[k - 1], moves[k])
           /\ tree' = [tree EXCEPT ![v] = after[Len(moves)]]
    /\ projects' = ProjectsMoved(moves)
    /\ UNCHANGED items

\* Mistake: what lies below a selected folder stays.
DeleteSelectedOnly(v, selected) ==
    /\ \A path \in selected : tree[v][path] # NoItem
    /\ tree' = [tree EXCEPT ![v] = [path \in ItemPaths |->
                                       IF path \in selected THEN NoItem ELSE @[path]]]
    /\ projects' = [path \in ItemPaths |-> IF path \in selected THEN NoProject ELSE projects[path]]
    /\ UNCHANGED items

\* delete_gemdos_items() and delete_editor_projects(): the selection with all
\* that lies below it.
DeleteItems(v, selected) ==
    /\ \A path \in selected : tree[v][path] # NoItem
    /\ LET gone == {path \in ItemPaths : \E top \in selected : Below(path, top)}
       IN  /\ tree' = [tree EXCEPT ![v] = [path \in ItemPaths |->
                                              IF path \in gone THEN NoItem ELSE @[path]]]
           /\ projects' = [path \in ItemPaths |->
                              IF path \in gone THEN NoProject ELSE projects[path]]
    /\ UNCHANGED items

Room(path) == Cardinality({at \in ItemPaths \ {path} : projects[at] # NoProject}) < MaxProjects

\* save_editor_project() of the editor of an open file.  The key of a project
\* is the path, without the partition.
SaveProject(v, path) ==
    /\ tree[v][path] # NoItem /\ ~tree[v][path].isFolder /\ Room(path)
    /\ projects' = [projects EXCEPT ![path] = tree[v][path].number]
    /\ UNCHANGED <<tree, items>>

\* The editor of a file that has been deleted since it was opened saves too.
SaveOrphan(path) ==
    /\ \A v \in Volumes : tree[v][path] = NoItem /\ Room(path)
    /\ \E gone \in 1 .. items :
           /\ \A v \in Volumes, other \in ItemPaths :
                  tree[v][other] # NoItem => tree[v][other].number # gone
           /\ projects' = [projects EXCEPT ![path] = gone]
    /\ UNCHANGED <<tree, items>>

\* The browser renames one item, or drops a selection into one folder.
Existing(v) == {path \in ItemPaths : tree[v][path] # NoItem}
Drops(v, folder) ==
    {[source |-> path, destination |-> Append(folder, Last(path))] :
        path \in {p \in Existing(v) : Append(folder, Last(p)) \in ItemPaths}}
ItemsNext ==
    \/ \E v \in Volumes, path \in ItemPaths :
           \/ \E isFolder \in BOOLEAN : CreateItem(v, path, isFolder)
           \/ SaveProject(v, path)
    \/ \E path \in ItemPaths : SaveOrphan(path)
    \/ \E v \in Volumes : \E source \in Existing(v), destination \in ItemPaths :
           MoveItems(v, <<[source |-> source, destination |-> destination]>>)
    \/ \E v \in Volumes : \E folder \in Folders(tree[v]) :
           \E one, two \in Drops(v, folder) : MoveItems(v, <<one, two>>)
    \/ \E v \in Volumes : \E one, two \in Existing(v) : DeleteItems(v, {one, two})

ItemsSpec == ItemsInit /\ [][ItemsNext]_itemVars
-----------------------------------------------------------------------------
Stays(v, path) == {at \in ItemPaths : tree'[v][at] = tree[v][path]}

\* "Renaming or moving a file or folder also moves its editor project metadata.
\* Deleting it removes matching notes [...].  Metadata in other partitions
\* remains untouched" (docs/FILE-EDITOR-GUIDE.md:723): whatever is moved or
\* deleted, alone or below a folder, every project stays with its file and goes
\* with it.  A save of the other file at this path is no move.
ProjectsFollowFiles ==
    [][tree' # tree =>
        \A v \in Volumes, path \in ItemPaths :
            (tree[v][path] # NoItem /\ projects[path] = tree[v][path].number)
               => IF Stays(v, path) = {} THEN projects'[path] # projects[path]
                  ELSE \A at \in Stays(v, path) : projects'[at] = projects[path]
      ]_itemVars
=============================================================================
