---------------------------- MODULE GemdosVolume ----------------------------
(***************************************************************************)
(* A mounted FAT volume and the calls that change it, as the sequence of   *)
(* blocks each call writes (src/atarinut/filesystem/gemdos.py).            *)
(*                                                                         *)
(* A call reads the volume, works out its changes on a copy of the FAT in  *)
(* memory and then writes block after block: clusters, the copies of the   *)
(* FAT, directory records.  The process may die between any two of them    *)
(* (the image file is written through one buffered handle that is flushed  *)
(* at every seek, so a prefix of the blocks is what reaches it).  The next *)
(* mount finds that, and further calls follow on it.                       *)
(*                                                                         *)
(* A cluster of a file holds which part of which write it is, so that a    *)
(* file with the data of another one is visible.  A copy of the FAT is     *)
(* written as one block.  Attributes, dates, the label and the width of    *)
(* FAT entries are left out.                                               *)
(***************************************************************************)
EXTENDS Naturals, SequencesExt

CONSTANTS
    MaxCluster,       \* clusters are numbered 1 .. MaxCluster
    RootEntries,      \* records in the root directory
    ClusterEntries,   \* records in a cluster of a subdirectory
    Names,            \* the names of files and folders
    MaxDepth,         \* bound: components in a path
    MaxSize,          \* bound: clusters in a file
    MaxCalls,         \* bound: calls in a behaviour
    Volumes,          \* the volumes a session may begin with
    MayCrash          \* may the process die between two blocks?

ASSUME SizeAssumption ==
    /\ MaxCluster \in Nat \ {0} /\ RootEntries \in Nat \ {0}
    /\ ClusterEntries \in Nat \ (0 .. 2)
ASSUME BoundAssumption ==
    /\ MaxDepth \in Nat \ {0} /\ MaxSize \in Nat /\ MaxCalls \in Nat
    /\ MayCrash \in BOOLEAN

VARIABLES
    disk,      \* the copies of the FAT, the root directory, the clusters
    todo,      \* the blocks the current call has still to write
    call,      \* what it does
    base,      \* the disk when it began
    calls,     \* how many calls there were: numbers the writes
    crashed,   \* did the process ever die within a call?
    torn       \* ... within a call that replaces, moves or defragments?

vars == <<disk, todo, call, base, calls, crashed, torn>>
-----------------------------------------------------------------------------
Clusters == 1 .. MaxCluster
Root == 0
Free == 0
Eoc == MaxCluster + 1

Record == [state : {"free", "deleted", "live"}, name : Names \cup {""}, dir : BOOLEAN,
           first : 0 .. MaxCluster, size : 0 .. MaxSize]
FreeRecord == [state |-> "free", name |-> "", dir |-> FALSE, first |-> 0, size |-> 0]
Live(name, dir, first, size) ==
    [state |-> "live", name |-> name, dir |-> dir, first |-> first, size |-> size]

FileBlock(write, part, size) ==
    [kind |-> "file", write |-> write, part |-> part, size |-> size]
\* self and parent are the dot records; only the first cluster has them.
DirBlock(self, parent, count) ==
    [kind |-> "dir", self |-> self, parent |-> parent,
     records |-> [i \in 1 .. count |-> FreeRecord]]
ZeroBlock == DirBlock(0, 0, ClusterEntries)

Fat == [Clusters -> 0 .. Eoc]
Block ==
    [kind : {"file"}, write : 0 .. MaxCalls, part : 1 .. MaxSize, size : 1 .. MaxSize]
    \cup [kind : {"dir"}, self : 0 .. MaxCluster, parent : 0 .. MaxCluster,
          records : Seq(Record)]

Disk == [fat : [1 .. 2 -> Fat], root : [1 .. RootEntries -> Record], data : [Clusters -> Block]]

\* A place of a record, and a block to be written.
Place == (0 .. MaxCluster) \X Nat
Write ==
    [at : {"fat"}, copy : 1 .. 2, value : Fat]
    \cup [at : {"cluster"}, cluster : Clusters, value : Block]
    \cup [at : {"parent"}, cluster : Clusters, value : 0 .. MaxCluster]
    \cup [at : {"record"}, place : Place, value : Record]

Quiet == todo = <<>>

TypeOK ==
    /\ disk \in Disk /\ base \in Disk
    /\ todo \in Seq(Write)
    /\ calls \in 0 .. MaxCalls
    /\ crashed \in BOOLEAN /\ torn \in BOOLEAN
-----------------------------------------------------------------------------
(***************************************************************************)
(* Reading a volume d.                                                     *)
(***************************************************************************)

\* _load_fat() reads the first copy.
Loaded(d) == d.fat[1]

\* The clusters reached from a first one, and where that ends.
Walk(fat, first) ==
    LET after(c) == IF c \in Clusters THEN fat[c] ELSE c
        at[i \in 0 .. MaxCluster] == IF i = 0 THEN first ELSE after(at[i - 1])
    IN  at

\* _chain(): not strict, it is what was reached; strict, it must end properly.
Chain(fat, first) ==
    LET at == Walk(fat, first)
        length == Cardinality({i \in 0 .. MaxCluster : at[i] \in Clusters})
    IN  [i \in 1 .. length |-> at[i - 1]]
Sound(fat, first) == first = 0 \/ Walk(fat, first)[MaxCluster] = Eoc

\* _dir_sectors(), _iter_slots(): the records of a directory in storage order.
Records(block) == IF block.kind = "dir" THEN DOMAIN block.records ELSE {}
Places(d, dir) ==
    IF dir = Root THEN [i \in 1 .. RootEntries |-> <<Root, i>>]
    ELSE LET chain == Chain(Loaded(d), dir)
         IN  FlattenSeq([k \in DOMAIN chain |->
                [i \in Records(d.data[chain[k]]) |-> <<chain[k], i>>]])
At(d, place) ==
    IF place[1] = Root THEN d.root[place[2]] ELSE d.data[place[1]].records[place[2]]

\* _entries(): a free record ends the directory, a deleted one is skipped.
Entries(d, dir) ==
    LET places == Places(d, dir)
        used == {n \in DOMAIN places : \A i \in 1 .. n : At(d, places[i]).state # "free"}
    IN  {places[n] : n \in {n \in used : At(d, places[n]).state = "live"}}

Found(d, dir, name) == {p \in Entries(d, dir) : At(d, p).name = name}

\* _resolve() of a path of folders: none or one.
Folder(d, path) ==
    LET within(dirs, name) ==
            {At(d, p).first :
                p \in {p \in UNION {Found(d, dir, name) : dir \in dirs} : At(d, p).dir}}
        reached[n \in 0 .. Len(path)] ==
            IF n = 0 THEN {Root} ELSE within(reached[n - 1], path[n])
    IN  reached[Len(path)]
Parent(path) == Front(path)
Object(d, path) == UNION {Found(d, dir, Last(path)) : dir \in Folder(d, Parent(path))}

Paths == UNION {[1 .. n -> Names] : n \in 1 .. MaxDepth}
-----------------------------------------------------------------------------
(***************************************************************************)
(* The FAT in memory, and the blocks that calls write.                     *)
(***************************************************************************)

\* Mistake: the last cluster is taken to be one further.
FreeClustersPastEnd(fat) == {c \in 1 .. Eoc : c = Eoc \/ fat[c] = Free}

\* _free_clusters().
FreeClusters(fat) == {c \in Clusters : fat[c] = Free}
FreeCount(fat) == Cardinality(FreeClusters(fat))

\* Linking the clusters of a sequence into a chain, and releasing them.
Linked(fat, chain) ==
    [c \in Clusters |->
        IF c \notin ToSet(chain) THEN fat[c]
        ELSE IF c = Last(chain) THEN Eoc
        ELSE chain[(CHOOSE i \in DOMAIN chain : chain[i] = c) + 1]]
Released(fat, chain) == [c \in Clusters |-> IF c \in ToSet(chain) THEN Free ELSE fat[c]]

\* _allocate_chain(): the lowest free clusters.
Lowest(fat, count) ==
    LET free == FreeClusters(fat)
    IN  [i \in 1 .. count |-> CHOOSE c \in free : Cardinality({b \in free : b < c}) = i - 1]
Runs(fat, count) ==
    {first \in Clusters : \A c \in first .. first + count - 1 : c \in FreeClusters(fat)}

WriteFat(copy, fat) == [at |-> "fat", copy |-> copy, value |-> fat]
WriteCluster(c, block) == [at |-> "cluster", cluster |-> c, value |-> block]
WriteRecord(place, record) == [at |-> "record", place |-> place, value |-> record]
WriteParent(c, parent) == [at |-> "parent", cluster |-> c, value |-> parent]

\* _store_fat(): one copy after the other.
Store(fat) == <<WriteFat(1, fat), WriteFat(2, fat)>>

\* One block reaches the disk.
Written(d, w) ==
    CASE w.at = "fat" -> [d EXCEPT !.fat[w.copy] = w.value]
      [] w.at = "cluster" -> [d EXCEPT !.data[w.cluster] = w.value]
      [] w.at = "parent" -> [d EXCEPT !.data[w.cluster].parent = w.value]
      [] w.at = "record" ->
            IF w.place[1] = Root THEN [d EXCEPT !.root[w.place[2]] = w.value]
            ELSE [d EXCEPT !.data[w.place[1]].records[w.place[2]] = w.value]

\* _allocate_slot(): the first record not in use; a folder without one grows by
\* a cleared cluster, which is stored at once.
Slot(d, dir) ==
    LET fat == Loaded(d)
        places == Places(d, dir)
        usable == {n \in DOMAIN places : At(d, places[n]).state # "live"}
        first == CHOOSE n \in usable : \A m \in usable : n <= m
        new == Lowest(fat, 1)
        grown == Linked([fat EXCEPT ![Last(Chain(fat, dir))] = new[1]], new)
    IN  IF usable # {} THEN [place |-> places[first], writes |-> <<>>, fat |-> fat]
        ELSE [place |-> <<new[1], 1>>,
              writes |-> <<WriteCluster(new[1], ZeroBlock)>> \o Store(grown),
              fat |-> grown]
HasSlot(d, dir) ==
    \/ \E p \in ToSet(Places(d, dir)) : At(d, p).state # "live"
    \/ dir # Root /\ FreeCount(Loaded(d)) > 0

Ready == Quiet /\ ~ torn /\ calls < MaxCalls

Begin(what, writes) ==
    /\ writes # <<>>
    /\ call' = what
    /\ todo' = writes
    /\ base' = disk
    /\ calls' = calls + 1
    /\ UNCHANGED <<disk, crashed, torn>>
-----------------------------------------------------------------------------
(***************************************************************************)
(* The calls.  One that is refused before it writes leaves no trace and is *)
(* not an action.  No call is made on a volume that an interrupted         *)
(* replacement, move or defragmentation left: it may have entries that     *)
(* share clusters.                                                         *)
(***************************************************************************)

\* format_volume(): a new volume.
Blank == [fat |-> [i \in 1 .. 2 |-> [c \in Clusters |-> Free]],
          root |-> [i \in 1 .. RootEntries |-> FreeRecord],
          data |-> [c \in Clusters |-> ZeroBlock]]

Init ==
    /\ disk \in Volumes
    /\ todo = <<>>
    /\ call = [kind |-> "none"]
    /\ base = disk
    /\ calls = 0
    /\ crashed = FALSE /\ torn = FALSE

Parts(chain, size) ==
    [i \in 1 .. Len(chain) |-> WriteCluster(chain[i], FileBlock(calls + 1, i, size))]

\* write_bytes() of a new file: clusters, FAT, record.
Create(path, size) ==
    Ready /\ \E dir \in Folder(disk, Parent(path)) :
        /\ Object(disk, path) = {}
        /\ HasSlot(disk, dir)
        /\ LET slot == Slot(disk, dir)
               chain == Lowest(slot.fat, size)
               first == IF size = 0 THEN 0 ELSE chain[1]
               store == IF size = 0 THEN <<>> ELSE Store(Linked(slot.fat, chain))
           IN  IF size > FreeCount(slot.fat)
               THEN Begin([kind |-> "refused"], slot.writes)
               ELSE Begin([kind |-> "write", path |-> path, size |-> size],
                          slot.writes \o Parts(chain, size) \o store \o
                          <<WriteRecord(slot.place, Live(Last(path), FALSE, first, size))>>)

\* Mistake: the clusters of the old content are not released.
ReplaceKeepsOld(path, size) ==
    Ready /\ \E place \in Object(disk, path) :
        LET fat == Loaded(disk)
            chain == Lowest(fat, size)
            first == IF size = 0 THEN 0 ELSE chain[1]
        IN  /\ ~ At(disk, place).dir
            /\ size <= FreeCount(fat)
            /\ Begin([kind |-> "write", path |-> path, size |-> size],
                     Parts(chain, size) \o Store(Linked(fat, chain)) \o
                     <<WriteRecord(place, Live(Last(path), FALSE, first, size))>>)

\* write_bytes() of a file that exists.  Both contents coexist if there is
\* room; otherwise the old clusters are released first and may be overwritten.
Replace(path, size) ==
    Ready /\ \E place \in Object(disk, path) :
        LET fat == Loaded(disk)
            old == Chain(fat, At(disk, place).first)
            kept == IF size > FreeCount(fat) THEN <<>> ELSE old
            early == IF size > FreeCount(fat) THEN Released(fat, old) ELSE fat
            chain == Lowest(early, size)
            first == IF size = 0 THEN 0 ELSE chain[1]
            store == IF size = 0 /\ old = <<>> THEN <<>>
                     ELSE Store(Released(Linked(early, chain), kept))
        IN  /\ ~ At(disk, place).dir
            /\ size <= FreeCount(fat) + Len(old)
            /\ Begin([kind |-> "write", path |-> path, size |-> size],
                     Parts(chain, size) \o store \o
                     <<WriteRecord(place, Live(Last(path), FALSE, first, size))>>)

\* mkdir(): the cluster with the dot records, FAT, record.
MakeFolder(path) ==
    Ready /\ \E dir \in Folder(disk, Parent(path)) :
        /\ Object(disk, path) = {}
        /\ HasSlot(disk, dir)
        /\ LET slot == Slot(disk, dir)
               chain == Lowest(slot.fat, 1)
           IN  IF FreeCount(slot.fat) = 0
               THEN Begin([kind |-> "refused"], slot.writes)
               ELSE Begin([kind |-> "folder", path |-> path],
                          slot.writes \o
                          <<WriteCluster(chain[1], DirBlock(chain[1], dir, ClusterEntries - 2))>> \o
                          Store(Linked(slot.fat, chain)) \o
                          <<WriteRecord(slot.place, Live(Last(path), TRUE, chain[1], 0))>>)

\* Mistakes: the chain is released before the record is deleted; a record that
\* is no longer needed is marked as never used.
RecordLast(d, done, place) ==
    LET chain == Chain(done.fat, At(d, place).first)
        fat == Released(done.fat, chain)
        deleted == [At(d, place) EXCEPT !.state = "deleted"]
    IN  [fat |-> fat,
         writes |-> done.writes \o (IF chain = <<>> THEN <<>> ELSE Store(fat))
                                \o <<WriteRecord(place, deleted)>>]
RecordFreed(d, done, place) ==
    LET chain == Chain(done.fat, At(d, place).first)
        fat == Released(done.fat, chain)
    IN  [fat |-> fat,
         writes |-> done.writes \o <<WriteRecord(place, FreeRecord)>>
                                \o (IF chain = <<>> THEN <<>> ELSE Store(fat))]

\* One object: its record is deleted first, then its clusters are released.
Removed(d, done, place) ==
    LET chain == Chain(done.fat, At(d, place).first)
        fat == Released(done.fat, chain)
        deleted == [At(d, place) EXCEPT !.state = "deleted"]
    IN  [fat |-> fat,
         writes |-> done.writes \o <<WriteRecord(place, deleted)>>
                                \o (IF chain = <<>> THEN <<>> ELSE Store(fat))]

\* What is in a folder, each object after what is in it.
Inside(d, dir) ==
    LET below[n \in 0 .. MaxCluster] ==
            [c \in 0 .. MaxCluster |->
                IF n = 0 THEN <<>>
                ELSE FlattenSeq([k \in DOMAIN Places(d, c) |->
                        LET p == Places(d, c)[k]
                        IN  IF p \notin Entries(d, c) THEN <<>>
                            ELSE IF At(d, p).dir THEN Append(below[n - 1][At(d, p).first], p)
                            ELSE <<p>>])]
    IN  below[MaxCluster][dir]

\* remove(), recursive: what is in a folder goes before the folder.
Delete(path) ==
    Ready /\ \E place \in Object(disk, path) :
        LET entry == At(disk, place)
            places == (IF entry.dir THEN Inside(disk, entry.first) ELSE <<>>) \o <<place>>
            done[k \in 0 .. Len(places)] ==
                IF k = 0 THEN [fat |-> Loaded(disk), writes |-> <<>>]
                ELSE Removed(disk, done[k - 1], places[k])
        IN  Begin([kind |-> "remove", path |-> path], done[Len(places)].writes)

\* Mistake: the old record is deleted before there is a new one.
MoveDeletesFirst(from, to) ==
    Ready /\ \E place \in Object(disk, from), dir \in Folder(disk, Parent(to)) :
        /\ Object(disk, to) = {}
        /\ ~ (At(disk, place).dir /\ IsStrictPrefix(from, to))
        /\ Parent(from) # Parent(to)
        /\ HasSlot(disk, dir)
        /\ LET slot == Slot(disk, dir)
               entry == At(disk, place)
               moved == [entry EXCEPT !.name = Last(to)]
               gone == [entry EXCEPT !.state = "deleted"]
           IN  Begin([kind |-> "move", path |-> from, to |-> to],
                     slot.writes \o
                     <<WriteRecord(place, gone), WriteRecord(slot.place, moved)>> \o
                     (IF entry.dir THEN <<WriteParent(entry.first, dir)>> ELSE <<>>))

\* rename() into another folder: the new record, the deletion of the old one,
\* and the parent record of a folder that moved.
Move(from, to) ==
    Ready /\ \E place \in Object(disk, from), dir \in Folder(disk, Parent(to)) :
        /\ Object(disk, to) = {}
        /\ ~ (At(disk, place).dir /\ IsStrictPrefix(from, to))
        /\ Parent(from) # Parent(to)
        /\ HasSlot(disk, dir)
        /\ LET slot == Slot(disk, dir)
               entry == At(disk, place)
               moved == [entry EXCEPT !.name = Last(to)]
               gone == [entry EXCEPT !.state = "deleted"]
           IN  Begin([kind |-> "move", path |-> from, to |-> to],
                     slot.writes \o
                     <<WriteRecord(slot.place, moved), WriteRecord(place, gone)>> \o
                     (IF entry.dir THEN <<WriteParent(entry.first, dir)>> ELSE <<>>))

\* rename() within a folder: one record.
Rename(from, to) ==
    Ready /\ \E place \in Object(disk, from) :
        /\ Object(disk, to) = {}
        /\ Parent(from) = Parent(to)
        /\ Begin([kind |-> "rename", path |-> from, to |-> to],
                 <<WriteRecord(place, [At(disk, place) EXCEPT !.name = Last(to)])>>)

\* One fragmented file: a run that leaves the old chain intact is preferred; if
\* there is none the old chain is released first; if that is not enough either
\* the file stays as it is.
Gathered(d, done, place) ==
    LET chain == Chain(done.fat, At(d, place).first)
        count == Len(chain)
        split == \E i \in 1 .. count - 1 : chain[i + 1] # chain[i] + 1
        released == Released(done.fat, chain)
        runs == IF Runs(done.fat, count) # {} THEN Runs(done.fat, count)
                ELSE Runs(released, count)
        first == CHOOSE c \in runs : \A other \in runs : c <= other
        run == [i \in 1 .. count |-> first + i - 1]
        fat == Linked(released, run)
    IN  IF ~ split \/ runs = {} THEN done
        ELSE [fat |-> fat,
              writes |-> done.writes \o
                  [i \in 1 .. count |-> WriteCluster(run[i], d.data[chain[i]])] \o
                  Store(fat) \o <<WriteRecord(place, [At(d, place) EXCEPT !.first = first])>>]

\* defragment(): every file of the volume.
Defragment ==
    Ready /\
    LET places == Inside(disk, Root)
        done[k \in 0 .. Len(places)] ==
            IF k = 0 THEN [fat |-> Loaded(disk), writes |-> <<>>]
            ELSE IF At(disk, places[k]).dir THEN done[k - 1]
            ELSE Gathered(disk, done[k - 1], places[k])
    IN  Begin([kind |-> "defragment"], done[Len(places)].writes)

\* The next block of the current call.
WriteBlock ==
    /\ ~ Quiet
    /\ disk' = Written(disk, Head(todo))
    /\ todo' = Tail(todo)
    /\ UNCHANGED <<call, base, calls, crashed, torn>>

\* The process dies, or the medium fails: the rest is never written.
Crash ==
    /\ MayCrash
    /\ ~ Quiet
    /\ todo' = <<>>
    /\ crashed' = TRUE
    /\ torn' = (call.kind \in {"move", "defragment"}
                  \/ (call.kind = "write" /\ Object(base, call.path) # {}))
    /\ UNCHANGED <<disk, call, base, calls>>
-----------------------------------------------------------------------------
Call ==
    \/ \E path \in Paths, size \in 0 .. MaxSize : Create(path, size) \/ Replace(path, size)
    \/ \E path \in Paths : MakeFolder(path) \/ Delete(path)
    \/ \E from, to \in Paths : from # to /\ (Move(from, to) \/ Rename(from, to))
    \/ Defragment

\* Nothing has to be called.
NoMoreCalls == Quiet /\ UNCHANGED vars

Next == Call \/ WriteBlock \/ Crash \/ NoMoreCalls

Spec == Init /\ [][Next]_vars
-----------------------------------------------------------------------------
(***************************************************************************)
(* What a volume holds, and what is wrong with it.                         *)
(***************************************************************************)

\* The objects that can be reached from the root directory.
Objects(d) ==
    LET inside(path, dir) ==
            {[path |-> Append(path, At(d, p).name), place |-> p, entry |-> At(d, p)] :
                p \in Entries(d, dir)}
        level[n \in 0 .. MaxCluster] ==
            IF n = 0 THEN inside(<<>>, Root)
            ELSE UNION {inside(o.path, o.entry.first) : o \in {o \in level[n - 1] : o.entry.dir}}
    IN  UNION {level[n] : n \in 0 .. MaxCluster}

\* The objects as a user sees them: names, folders and the content of files.
Data(d, entry) ==
    LET chain == Chain(Loaded(d), entry.first)
    IN  IF entry.dir THEN <<>> ELSE [i \in DOMAIN chain |-> d.data[chain[i]]]
Tree(d) == {[path |-> o.path, dir |-> o.entry.dir, data |-> Data(d, o.entry)] : o \in Objects(d)}

\* validate(): what it reports of a volume, given the objects in it.
Reported(d, objects) ==
    LET fat == Loaded(d)
        folders == {o \in objects : o.entry.dir}
        claims(o) == ToSet(Chain(fat, o.entry.first))
        ancestors(o) == {f.entry.first : f \in {f \in folders : IsPrefix(f.path, o.path)}}
        dots(o) == d.data[o.entry.first]
        found ==
          [copies |-> d.fat[1] # d.fat[2],
           damaged |-> \E o \in objects : ~ Sound(fat, o.entry.first),
           length |-> \E o \in objects \ folders :
                        Len(Chain(fat, o.entry.first)) # o.entry.size,
           shared |-> \E o, other \in objects :
                        o # other /\ claims(o) \cap claims(other) # {},
           dots |-> \E o \in folders : dots(o).kind = "dir" =>
                        \/ dots(o).self # o.entry.first
                        \/ dots(o).parent \notin ancestors(o) \cup {Root},
           lost |-> \E c \in Clusters : fat[c] # Free /\ \A o \in objects : c \notin claims(o)]
    IN  {problem \in DOMAIN found : found[problem]}
Problems(d) == Reported(d, Objects(d))

\* Every file holds the clusters of one write, all of them and in their order.
FilesWhole(d) ==
    \A o \in Objects(d) : ~ o.entry.dir =>
        LET data == Data(d, o.entry)
        IN  /\ Sound(Loaded(d), o.entry.first)
            /\ Len(data) = o.entry.size
            /\ \E write \in 0 .. MaxCalls :
                  data = [i \in DOMAIN data |-> FileBlock(write, i, Len(data))]

\* The parent record of every folder names the folder it is in.
ParentsTrue(d) ==
    \A o \in Objects(d) : \A f \in Objects(d) \cup {[path |-> <<>>, entry |-> [first |-> Root]]} :
        o.entry.dir /\ f.path = Parent(o.path) => d.data[o.entry.first].parent = f.entry.first

\* The tree that a call makes of a tree.
Promised(tree, what) ==
    CASE what.kind = "write" ->
            {o \in tree : o.path # what.path} \cup
            {[path |-> what.path, dir |-> FALSE,
              data |-> [i \in 1 .. what.size |-> FileBlock(calls, i, what.size)]]}
      [] what.kind = "folder" -> tree \cup {[path |-> what.path, dir |-> TRUE, data |-> <<>>]}
      [] what.kind = "remove" -> {o \in tree : ~ IsPrefix(what.path, o.path)}
      [] what.kind \in {"move", "rename"} ->
            {IF IsPrefix(what.path, o.path)
             THEN [o EXCEPT !.path = what.to \o SubSeq(o.path, Len(what.path) + 1, Len(o.path))]
             ELSE o : o \in tree}
      [] OTHER -> tree
-----------------------------------------------------------------------------
(***************************************************************************)
(* How a sound volume is laid out: its folders, by the cluster they begin  *)
(* with, the path of each of them, and what is at every place.             *)
(***************************************************************************)

\* A chain that ends properly and meets no cluster twice.
IsChain(fat, s) ==
    /\ s \in Seq(Clusters) /\ s # <<>>
    /\ \A i, j \in DOMAIN s : s[i] = s[j] => i = j
    /\ \A i \in DOMAIN s : fat[s[i]] = IF i = Len(s) THEN Eoc ELSE s[i + 1]
Chained(fat, first) ==
    first \in Clusters /\ IsChain(fat, Chain(fat, first)) /\ Chain(fat, first)[1] = first

\* A record that was never used ends its directory.
FreeTail(d, dir) ==
    LET places == Places(d, dir)
    IN  \A i, j \in DOMAIN places :
            i < j /\ At(d, places[i]).state = "free" => At(d, places[j]).state = "free"

Holds(d, entry, write) ==
    LET chain == Chain(Loaded(d), entry.first)
    IN  /\ Len(chain) = entry.size
        /\ \A i \in DOMAIN chain : d.data[chain[i]] = FileBlock(write, i, entry.size)
FileSound(d, entry) ==
    /\ entry.first = 0 \/ Chained(Loaded(d), entry.first)
    /\ \E write \in 0 .. MaxCalls : Holds(d, entry, write)

FolderSound(d, folders, dir) ==
    /\ Chained(Loaded(d), dir)
    /\ \A c \in ToSet(Chain(Loaded(d), dir)) : d.data[c].kind = "dir"
    /\ d.data[dir].self = dir
    /\ d.data[dir].parent \in folders
    /\ \E p \in Entries(d, d.data[dir].parent) : At(d, p).dir /\ At(d, p).first = dir

EntrySound(d, folders, paths, dir, p) ==
    /\ At(d, p).name \in Names
    /\ IF At(d, p).dir
       THEN /\ At(d, p).first \in folders \ {Root}
            /\ paths[At(d, p).first] = Append(paths[dir], At(d, p).name)
       ELSE FileSound(d, At(d, p))

\* No two objects share a name in their folder, or a cluster.
Claimed(d, p) == ToSet(Chain(Loaded(d), At(d, p).first))
Apart(d, folders) ==
    \A dir, other \in folders : \A p \in Entries(d, dir), q \in Entries(d, other) :
        p # q => /\ Claimed(d, p) \cap Claimed(d, q) = {}
                 /\ dir = other => At(d, p).name # At(d, q).name

LaidOut(d, folders, paths) ==
    /\ d \in Disk
    /\ folders \subseteq 0 .. MaxCluster /\ Root \in folders
    /\ paths \in [folders -> Seq(Names)] /\ paths[Root] = <<>>
    /\ \A dir \in folders : FreeTail(d, dir)
    /\ \A dir \in folders \ {Root} : FolderSound(d, folders, dir)
    /\ \A dir \in folders : \A p \in Entries(d, dir) : EntrySound(d, folders, paths, dir, p)
    /\ Apart(d, folders)

\* Both copies of the FAT agree, and no cluster is lost.
Tidy(d, folders) ==
    /\ d.fat[1] = d.fat[2]
    /\ \A c \in Clusters : Loaded(d)[c] # Free =>
           \E dir \in folders : \E p \in Entries(d, dir) : c \in Claimed(d, p)

\* The folders of a volume, and their paths.
FoldersOf(d) == {Root} \cup {o.entry.first : o \in {o \in Objects(d) : o.entry.dir}}
PathsOf(d) ==
    [dir \in FoldersOf(d) |->
        IF dir = Root THEN <<>>
        ELSE (CHOOSE o \in Objects(d) : o.entry.dir /\ o.entry.first = dir).path]

\* What a session opens is a volume that was formatted and filled by calls.
ASSUME VolumesAssumption ==
    \A d \in Volumes : LaidOut(d, FoldersOf(d), PathsOf(d)) /\ Tidy(d, FoldersOf(d))
-----------------------------------------------------------------------------
(***************************************************************************)
(* Properties.                                                             *)
(***************************************************************************)

\* A volume on which every call came to its end passes validate(), and the
\* parent record of every folder is true, however calls follow one another.
VolumeValid ==
    Quiet /\ ~ crashed => Problems(disk) = {} /\ ParentsTrue(disk)

\* A call that comes to its end did what it promises and nothing else: no
\* other file changed its content, its name or its folder.
Finishes == Len(todo) = 1 /\ todo' = <<>> /\ disk' = Written(disk, Head(todo))
EffectAsPromised == [][Finishes => Tree(disk') = Promised(Tree(base), call)]_vars

\* Whatever calls died half-way, new files, folders, deletions and renamings
\* leave nothing worse than lost clusters and an old second FAT, and files whole
\* ("a failure after this point leaves clusters that validation can reclaim").
CrashLeavesOnlyLeaks ==
    Quiet /\ ~ torn => Problems(disk) \subseteq {"copies", "lost"} /\ FilesWhole(disk)

\* A call that dies leaves everything as it was or as it should become, or a
\* part of either: nothing else disappears, and a move has the object in its
\* old folder or its new one.  Replacing and defragmenting are excepted.
Dies == ~ Quiet /\ todo' = <<>> /\ crashed' /\ disk' = disk
InPlace == call.kind = "defragment" \/ (call.kind = "write" /\ Object(base, call.path) # {})
Between(before, after, tree) ==
    /\ before \subseteq tree \/ after \subseteq tree
    /\ tree \subseteq before \cup after
CrashBetween ==
    [][Dies /\ ~ InPlace => Between(Tree(base), Promised(Tree(base), call), Tree(disk))]_vars

\* "never an entry pointing at data that was not written"
\* (gemdos.py:1087-1090): not so when a file is replaced.
NeverDangling == Quiet => FilesWhole(disk)
=============================================================================
