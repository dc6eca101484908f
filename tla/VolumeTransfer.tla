--------------------------- MODULE VolumeTransfer ---------------------------
(***************************************************************************)
(* What is copied onto a volume: an entry of another image or of the same  *)
(* one, a whole disk extracted into a folder, a folder of the host, a disk *)
(* put into the place of a blank one (src/app/disk_service.py, the copy    *)
(* helpers of src/atarinut/disc/cli.py).                                   *)
(*                                                                         *)
(* A copy collects what it will write before it writes anything, and then  *)
(* writes item after item; any of them may fail, the volume being full or  *)
(* the operation aborted.  The images are locked throughout, so one        *)
(* request is looked at, on every volume it may find.                      *)
(***************************************************************************)
EXTENDS Naturals, FiniteSets, SequencesExt

CONSTANTS
    Leafs,          \* names of entries
    DiscTops        \* the names a disk has in its root

VARIABLES
    disc,           \* the source: what it holds at each path, and whether it boots
    volume,         \* the target, likewise
    beforeCopy,     \* the volume when the request came
    copying         \* the request: what is still to be written

transferVars == <<disc, volume, beforeCopy, copying>>
-----------------------------------------------------------------------------
TransferPaths == UNION {[1 .. n -> Leafs] : n \in 1 .. 3}
Held == {"nothing", "folder", "old", "new"}
Holds(tree, path) == IF path = <<>> THEN "folder" ELSE tree[path]
In(path, folder) == IsPrefix(folder, path)
Rest(path, folder) == SubSeq(path, Len(folder) + 1, Len(path))

Trees(tops, content) ==
    {tree \in [{p \in TransferPaths : Len(p) <= 2} -> {"nothing", "folder", content}] :
        \A p \in DOMAIN tree :
            /\ tree[p] # "nothing" => Holds(tree, Front(p)) = "folder" /\ p[1] \in tops
            /\ tree[p] = "folder" => Len(p) = 1}
Deepened(tree) == [p \in TransferPaths |-> IF p \in DOMAIN tree THEN tree[p] ELSE "nothing"]
IsBlank(tree) == \A p \in DOMAIN tree : tree[p] = "nothing"

NoCopy == [doing |-> "nothing"]
Answered == [doing |-> "answered"]

TransferTypeOK ==
    /\ {disc.tree[p] : p \in TransferPaths} \subseteq Held /\ disc.boots \in BOOLEAN
    /\ \A tree \in {volume.tree, beforeCopy.tree} :
           \A p \in TransferPaths : tree[p] # "nothing" => Holds(tree, Front(p)) = "folder"
    /\ copying.doing \in {"nothing", "copying", "extracting", "done", "failed", "answered"}

TransferInit ==
    /\ \E tree \in Trees(DiscTops, "new"), boots \in BOOLEAN :
           disc = [tree |-> Deepened(tree), boots |-> boots]
    /\ \E tree \in Trees(Leafs, "old") :
           volume = [tree |-> Deepened(tree), boots |-> FALSE]
    /\ beforeCopy = volume
    /\ copying = NoCopy
-----------------------------------------------------------------------------
(***************************************************************************)
(* One item: folders first, each before what it holds, then files in the   *)
(* order in which the source stores them.                                  *)
(***************************************************************************)

\* Mistake: the destination is taken as it was named.
DestinationAsNamed(tree, from, to) == IF to = <<>> THEN <<Last(from)>> ELSE to

\* collect_copy_items(): an entry copied onto a folder goes into it.
Destination(tree, from, to) ==
    IF Holds(tree, to) = "folder" THEN Append(to, Last(from)) ELSE to

Items(tree, from, to) ==
    {[at |-> to \o Rest(p, from), holds |-> tree[p]] :
        p \in {p \in TransferPaths : In(p, from) /\ tree[p] # "nothing"}}

NextItems(items) ==
    {item \in items : \A other \in items :
        \/ item.holds # "folder" /\ other.holds # "folder"
        \/ item.holds = "folder" /\ (other.holds = "folder" => Len(item.at) <= Len(other.at))}

\* ensure_directory_chain(): what is missing is made; a file in the way fails.
Chainable(tree, path) == \A k \in 1 .. Len(path) : tree[SubSeq(path, 1, k)] \in {"folder", "nothing"}
Chain(tree, path) == [p \in TransferPaths |-> IF IsPrefix(p, path) THEN "folder" ELSE tree[p]]

\* remove() with force: a folder goes with all it holds, read-only or not.
Without(tree, path) == [p \in TransferPaths |-> IF In(p, path) THEN "nothing" ELSE tree[p]]

\* write_copy_item() with overwriting: whatever has the name is removed first.
Writable(tree, item) ==
    IF item.holds = "folder" THEN Chainable(tree, item.at) ELSE Chainable(tree, Front(item.at))
WithItem(tree, item) ==
    IF item.holds = "folder" THEN Chain(tree, item.at)
    ELSE [Chain(Without(tree, item.at), Front(item.at)) EXCEPT ![item.at] = item.holds]

\* A disk that boots makes a volume boot that it is extracted into the root of:
\* carry_boot_option().
Carried(into) == volume.boots \/ (disc.boots /\ into = <<>>)

WriteItem ==
    /\ copying.doing \in {"copying", "extracting"} /\ copying.items # {}
    /\ \E item \in NextItems(copying.items) :
           /\ Writable(volume.tree, item)
           /\ volume' = [volume EXCEPT !.tree = WithItem(@, item)]
           /\ copying' = [copying EXCEPT !.items = @ \ {item}]
    /\ UNCHANGED <<disc, beforeCopy>>

FinishCopy ==
    /\ copying.doing \in {"copying", "extracting"} /\ copying.items = {}
    /\ volume' = IF copying.doing = "copying" THEN volume
                 ELSE [volume EXCEPT !.boots = Carried(copying.into)]
    /\ copying' = [copying EXCEPT !.doing = "done"]
    /\ UNCHANGED <<disc, beforeCopy>>

\* Mistake: the folder that was made stays, with what was written into it.
FailCopyKeepFolder ==
    /\ copying.doing \in {"copying", "extracting"}
    /\ volume' = IF copying.doing = "extracting" /\ copying.made THEN volume ELSE beforeCopy
    /\ copying' = [copying EXCEPT !.doing = "failed"]
    /\ UNCHANGED <<disc, beforeCopy>>

\* An item fails.  Extraction removes the folder it made, or puts back the copy
\* it took; a copy of an entry leaves that to the checkpoint of the request.
FailCopy ==
    /\ copying.doing \in {"copying", "extracting"}
    /\ volume' = IF copying.doing = "extracting" /\ copying.made
                 THEN [volume EXCEPT !.tree = Without(@, copying.into)]
                 ELSE beforeCopy
    /\ copying' = [copying EXCEPT !.doing = "failed"]
    /\ UNCHANGED <<disc, beforeCopy>>
-----------------------------------------------------------------------------
(***************************************************************************)
(* The requests.                                                           *)
(***************************************************************************)
Start(doing, items, made, from, into) ==
    /\ \A item \in items : item.at \in TransferPaths
    /\ copying' = [doing |-> doing, items |-> items, made |-> made, from |-> from, into |-> into]
    /\ beforeCopy' = volume

\* copy(), from another image or within one.
CopyEntry(within, from, to) ==
    /\ copying = NoCopy
    /\ LET tree == IF within THEN volume.tree ELSE disc.tree
       IN  /\ tree[from] # "nothing"
           /\ Start("copying", Items(tree, from, Destination(volume.tree, from, to)), FALSE, from, to)
    /\ UNCHANGED <<disc, volume>>

\* copy() of a file of a CD, a ROM or a container: put(), which makes no folder
\* and takes no folder's place.
CopyFromView(from, to) ==
    /\ copying = NoCopy
    /\ disc.tree[from] = "new"
    /\ Holds(volume.tree, Front(to)) = "folder" /\ volume.tree[to] # "folder"
    /\ volume' = [volume EXCEPT !.tree[to] = "new"]
    /\ beforeCopy' = volume
    /\ copying' = Answered
    /\ UNCHANGED disc

\* extract_image_to_directory(): into a folder that is there, or a new one.
ExtractDisc(folder, create) ==
    /\ copying = NoCopy
    /\ ~IsBlank(disc.tree)
    /\ IF create
       THEN /\ folder # <<>> /\ volume.tree[folder] = "nothing"
            /\ Holds(volume.tree, Front(folder)) = "folder"
            /\ volume' = [volume EXCEPT !.tree[folder] = "folder"]
       ELSE Holds(volume.tree, folder) = "folder" /\ UNCHANGED volume
    /\ Start("extracting", Items(disc.tree, <<>>, folder), create, <<>>, folder)
    /\ UNCHANGED disc

\* put_host_tree(): the whole batch is checked, then made and written.  Files
\* that exist are replaced only when that was asked for.
ImportBatch(batch, replace) ==
    /\ copying = NoCopy
    /\ \A path \in batch :
           /\ volume.tree[path] # "folder"
           /\ Chainable(volume.tree, Front(path))
           /\ \A other \in batch : path # other => ~In(other, path)
    /\ replace \/ \A path \in batch : volume.tree[path] = "nothing"
    /\ LET chained[p \in TransferPaths] ==
               IF \E path \in batch : IsPrefix(p, Front(path)) THEN "folder" ELSE volume.tree[p]
       IN  volume' = [volume EXCEPT !.tree = [p \in TransferPaths |->
                                                 IF p \in batch THEN "new" ELSE chained[p]]]
    /\ beforeCopy' = volume
    /\ copying' = Answered
    /\ UNCHANGED disc

\* replace_blank_image(): a floppy takes the place of a blank one whole.
ReplaceBlank ==
    /\ copying = NoCopy
    /\ IsBlank(volume.tree)
    /\ volume' = disc
    /\ beforeCopy' = volume
    /\ copying' = Answered
    /\ UNCHANGED disc

CopyTargets == {<<>>} \cup {<<n>> : n \in Leafs}
ShortPaths == {p \in TransferPaths : Len(p) <= 2}
TransferNext ==
    \/ WriteItem \/ FinishCopy \/ FailCopy \/ ReplaceBlank
    \/ \E within \in BOOLEAN, from \in ShortPaths, to \in CopyTargets : CopyEntry(within, from, to)
    \/ \E from, to \in ShortPaths : CopyFromView(from, to)
    \/ \E folder \in CopyTargets, create \in BOOLEAN : ExtractDisc(folder, create)
    \/ \E one, two \in ShortPaths, replace \in BOOLEAN : ImportBatch({one, two}, replace)
TransferSpec == TransferInit /\ [][TransferNext]_transferVars
-----------------------------------------------------------------------------
SameBelow(old, new, except) ==
    \A p \in TransferPaths :
        old[p] # "nothing" /\ ~(\E q \in except : In(p, q)) => new[p] = old[p]

\* A copy is whole or not at all: one that failed left the volume as it was,
\* whichever item failed and whether or not a folder was made for it; one that
\* is complete brought every file, and an entry dropped on a folder took
\* nothing from it but what had its own name.  A disk extracted into a folder
\* does not make the volume boot.
TransferIsWhole ==
    /\ copying.doing = "failed" => volume = beforeCopy
    /\ copying.doing = "done" =>
           /\ volume.boots # beforeCopy.boots => disc.boots /\ copying.into = <<>>
           /\ copying.from = <<>> =>
                  \A item \in Items(disc.tree, <<>>, copying.into) : volume.tree[item.at] = item.holds
           /\ (copying.from # <<>> /\ Holds(beforeCopy.tree, copying.into) = "folder") =>
                  SameBelow(beforeCopy.tree, volume.tree, {Append(copying.into, Last(copying.from))})

\* "Direct extraction never overwrites an existing name" (README.md:1528).
ExtractionKeepsNames ==
    copying.doing = "done" /\ copying.from = <<>> => SameBelow(beforeCopy.tree, volume.tree, {})
=============================================================================
