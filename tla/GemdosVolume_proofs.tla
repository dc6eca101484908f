------------------------ MODULE GemdosVolume_proofs ------------------------
(***************************************************************************)
(* The layout of a volume, for any number of clusters, names and records:  *)
(* chains, directories, the walk down the folders, and what one change of  *)
(* the directories leaves of it.                                           *)
(***************************************************************************)
EXTENDS GemdosVolume, RecursionLemmas

(***************************************************************************)
(* Walking a chain of the FAT.                                             *)
(***************************************************************************)

\* A walk starts at the first cluster and follows the FAT until that leads to
\* no cluster; there it stays.
LEMMA WalkSteps ==
  ASSUME NEW fat \in Fat, NEW first \in 0 .. Eoc
  PROVE  /\ Walk(fat, first) \in [0 .. MaxCluster -> 0 .. Eoc]
         /\ Walk(fat, first)[0] = first
         /\ \A i \in 1 .. MaxCluster :
               Walk(fat, first)[i] = IF Walk(fat, first)[i - 1] \in Clusters
                                     THEN fat[Walk(fat, first)[i - 1]]
                                     ELSE Walk(fat, first)[i - 1]
<1> DEFINE after(c) == IF c \in Clusters THEN fat[c] ELSE c
           step == [kv \in (1 .. MaxCluster) \X (0 .. Eoc) |-> after(kv[2])]
           V == 0 .. Eoc
           Walks(g) == g = [i \in 0 .. MaxCluster |-> IF i = 0 THEN first ELSE after(g[i - 1])]
           at == CHOOSE g : Walks(g)
<1>1. MaxCluster \in Nat /\ \A c \in V : after(c) \in V
  BY SizeAssumption DEF Fat, Clusters, Eoc
<1>2. step \in [(1 .. MaxCluster) \X V -> V]
  BY <1>1
<1>3. PICK f \in [0 .. MaxCluster -> V] :
         f[0] = first /\ \A k \in 1 .. MaxCluster : f[k] = step[<<k, f[k - 1]>>]
  <2> HIDE DEF step
  <2>1. first \in V
    OBVIOUS
  <2> HIDE DEF V
  <2>2. HasSteps(MaxCluster, V, first, step)
    BY <1>1, <1>2, <2>1, StepsExist
  <2> QED BY <2>2 DEF HasSteps
<1>4. \A k \in 1 .. MaxCluster : f[k] = after(f[k - 1])
  <2> SUFFICES ASSUME NEW k \in 1 .. MaxCluster PROVE f[k] = after(f[k - 1])
    OBVIOUS
  <2>1. f[k - 1] \in V
    BY <1>1, <1>3
  <2>2. step[<<k, f[k - 1]>>] = after(f[k - 1])
    BY <2>1
  <2> QED BY <1>3, <2>2
<1> HIDE DEF after
<1>5. Walks(f)
  <2>1. \A i \in 0 .. MaxCluster : f[i] = IF i = 0 THEN first ELSE after(f[i - 1])
    <3>1. \A i \in 0 .. MaxCluster : i = 0 \/ i \in 1 .. MaxCluster
      BY <1>1
    <3> QED BY <1>3, <1>4, <3>1
  <2> QED BY <1>3, <2>1
<1>6. Walks(at)
  <2> HIDE DEF Walks
  <2> QED BY <1>5
<1>7. Walk(fat, first) = at
  BY DEF Walk, after
<1> HIDE DEF at
<1>8. at[0] = first /\ \A i \in 1 .. MaxCluster : at[i] = after(at[i - 1])
  <2>1. at = [i \in 0 .. MaxCluster |-> IF i = 0 THEN first ELSE after(at[i - 1])]
    BY <1>6
  <2> HIDE DEF Walks
  <2>2. \A i \in 0 .. MaxCluster : at[i] = IF i = 0 THEN first ELSE after(at[i - 1])
    BY <2>1
  <2>3. 0 \in 0 .. MaxCluster /\ \A i \in 1 .. MaxCluster : i \in 0 .. MaxCluster /\ i # 0
    BY <1>1
  <2> QED BY <2>2, <2>3
<1>9. \A i \in 0 .. MaxCluster : at[i] \in V
  <2> DEFINE T == {i \in 0 .. MaxCluster : at[i] \in V}
  <2>1. 0 \in T
    BY <1>1, <1>8
  <2>2. ASSUME NEW k \in 0 .. MaxCluster - 1, k \in T PROVE k + 1 \in T
    <3>1. k + 1 \in 1 .. MaxCluster /\ (k + 1) - 1 = k
      BY <1>1
    <3>2. at[k + 1] = after(at[k])
      BY <1>8, <3>1
    <3>3. at[k] \in V /\ k + 1 \in 0 .. MaxCluster
      BY <1>1, <2>2
    <3>4. at[k + 1] \in V
      BY <1>1, <3>2, <3>3
    <3> QED BY <3>3, <3>4
  <2> HIDE DEF T
  <2>3. 0 .. MaxCluster \subseteq T
    BY <1>1, <2>1, <2>2, UpTo
  <2> QED BY <2>3 DEF T
<1>10. at \in [0 .. MaxCluster -> V]
  BY <1>6, <1>9
<1> QED BY <1>7, <1>8, <1>10 DEF after

\* What a chain of distinct clusters is found to be: the chain itself, ending
\* properly.
LEMMA ChainFound ==
  ASSUME NEW fat \in Fat, NEW s, IsChain(fat, s)
  PROVE  Chain(fat, s[1]) = s /\ Sound(fat, s[1]) /\ s[1] \in Clusters
<1> DEFINE n == Len(s)
           at == Walk(fat, s[1])
<1>1. /\ MaxCluster \in Nat /\ n \in Nat /\ n > 0 /\ DOMAIN s = 1 .. n
      /\ \A i \in 1 .. n : s[i] \in Clusters
      /\ s \in Seq(Clusters)
  BY SizeAssumption DEF IsChain
<1>2. n <= MaxCluster
  <2> SUFFICES ASSUME n > MaxCluster PROVE FALSE
    BY <1>1
  <2>1. IsFiniteSet(1 .. n) /\ Cardinality(1 .. n) = n
    BY <1>1, FS_Interval
  <2>2. IsFiniteSet(Clusters) /\ Cardinality(Clusters) = MaxCluster
    BY SizeAssumption, FS_Interval DEF Clusters
  <2>3. s \in [1 .. n -> Clusters]
    BY <1>1
  <2>4. \E i, j \in 1 .. n : i # j /\ s[i] = s[j]
    BY <1>1, <2>1, <2>2, <2>3, FS_PigeonHole
  <2> QED BY <1>1, <2>4 DEF IsChain
<1>3. s[1] \in 0 .. Eoc /\ s[1] \in Clusters /\ Eoc \notin Clusters /\ Eoc = MaxCluster + 1
  BY <1>1 DEF Clusters, Eoc
<1>4. /\ at \in [0 .. MaxCluster -> 0 .. Eoc] /\ at[0] = s[1]
      /\ \A i \in 1 .. MaxCluster :
            at[i] = IF at[i - 1] \in Clusters THEN fat[at[i - 1]] ELSE at[i - 1]
  BY <1>3, WalkSteps
<1> HIDE DEF at
<1>5. \A i \in 0 .. MaxCluster : at[i] = IF i < n THEN s[i + 1] ELSE Eoc
  <2> DEFINE T == {i \in 0 .. MaxCluster : at[i] = IF i < n THEN s[i + 1] ELSE Eoc}
  <2>1. 0 \in T
    BY <1>1, <1>4
  <2>2. ASSUME NEW k \in 0 .. MaxCluster - 1, k \in T PROVE k + 1 \in T
    <3>1. k + 1 \in 1 .. MaxCluster /\ (k + 1) - 1 = k /\ k + 1 \in 0 .. MaxCluster
      BY <1>1
    <3>2. at[k + 1] = IF at[k] \in Clusters THEN fat[at[k]] ELSE at[k]
      BY <1>4, <3>1
    <3>3. CASE k < n
      <4>1. k + 1 \in 1 .. n /\ at[k] = s[k + 1]
        BY <1>1, <2>2, <3>3
      <4>2. fat[s[k + 1]] = IF k + 1 = n THEN Eoc ELSE s[(k + 1) + 1]
        BY <1>1, <4>1 DEF IsChain
      <4>3. at[k + 1] = IF k + 1 = n THEN Eoc ELSE s[(k + 1) + 1]
        BY <1>1, <3>2, <4>1, <4>2
      <4>4. (k + 1 < n) <=> (k + 1 # n)
        <5>1. n \in Nat /\ k + 1 \in 1 .. n
          BY <1>1, <4>1
        <5> HIDE DEF n
        <5> QED BY <5>1
      <4>5. at[k + 1] = IF k + 1 < n THEN s[(k + 1) + 1] ELSE Eoc
        BY <4>3, <4>4
      <4> QED BY <3>1, <4>5
    <3>4. CASE ~(k < n)
      BY <1>1, <1>3, <2>2, <3>1, <3>2, <3>4
    <3> QED BY <3>3, <3>4
  <2> HIDE DEF T
  <2>3. 0 .. MaxCluster \subseteq T
    BY <1>1, <2>1, <2>2, UpTo
  <2> QED BY <2>3 DEF T
<1>6. at[MaxCluster] = Eoc
  BY <1>1, <1>2, <1>5
<1>7. {i \in 0 .. MaxCluster : at[i] \in Clusters} = 0 .. n - 1
  <2>1. \A i \in 0 .. MaxCluster : at[i] \in Clusters <=> i < n
    <3> SUFFICES ASSUME NEW i \in 0 .. MaxCluster PROVE at[i] \in Clusters <=> i < n
      OBVIOUS
    <3>1. CASE i < n
      <4>1. i + 1 \in 1 .. n
        BY <1>1, <3>1
      <4> QED BY <1>1, <1>5, <3>1, <4>1
    <3>2. CASE ~(i < n)
      BY <1>3, <1>5, <3>2
    <3> QED BY <3>1, <3>2
  <2>2. \A i : i \in 0 .. n - 1 <=> i \in 0 .. MaxCluster /\ i < n
    BY <1>1, <1>2
  <2> QED BY <2>1, <2>2
<1>8. Cardinality(0 .. n - 1) = n
  <2>1. 0 \in Int /\ n - 1 \in Int /\ ~(0 > n - 1)
    BY <1>1
  <2>2. Cardinality(0 .. n - 1) = (n - 1) - 0 + 1
    BY <2>1, FS_Interval
  <2> QED BY <1>1, <2>2
<1>9. Chain(fat, s[1]) = [i \in 1 .. n |-> at[i - 1]]
  BY <1>7, <1>8 DEF Chain, at
<1>10. Chain(fat, s[1]) = s
  <2>1. \A i \in 1 .. n : at[i - 1] = s[i]
    BY <1>1, <1>2, <1>5
  <2>2. s = [i \in 1 .. n |-> s[i]]
    BY <1>1
  <2> QED BY <1>9, <2>1, <2>2
<1>11. Sound(fat, s[1])
  BY <1>6 DEF Sound, at
<1> QED BY <1>3, <1>10, <1>11

\* Nothing is reached from 0.
LEMMA NoChain ==
  ASSUME NEW fat \in Fat
  PROVE  Chain(fat, 0) = <<>>
<1> DEFINE at == Walk(fat, 0)
<1>1. MaxCluster \in Nat /\ 0 \notin Clusters /\ 0 \in 0 .. Eoc
  BY SizeAssumption DEF Clusters, Eoc
<1>2. /\ at \in [0 .. MaxCluster -> 0 .. Eoc] /\ at[0] = 0
      /\ \A i \in 1 .. MaxCluster :
            at[i] = IF at[i - 1] \in Clusters THEN fat[at[i - 1]] ELSE at[i - 1]
  BY <1>1, WalkSteps
<1> HIDE DEF at
<1>3. \A i \in 0 .. MaxCluster : at[i] = 0
  <2> DEFINE T == {i \in 0 .. MaxCluster : at[i] = 0}
  <2>1. 0 \in T
    BY <1>1, <1>2
  <2>2. ASSUME NEW k \in 0 .. MaxCluster - 1, k \in T PROVE k + 1 \in T
    <3>1. k + 1 \in 1 .. MaxCluster /\ (k + 1) - 1 = k /\ k + 1 \in 0 .. MaxCluster
      BY <1>1
    <3> QED BY <1>1, <1>2, <2>2, <3>1
  <2> HIDE DEF T
  <2>3. 0 .. MaxCluster \subseteq T
    BY <1>1, <2>1, <2>2, UpTo
  <2> QED BY <2>3 DEF T
<1>4. {i \in 0 .. MaxCluster : at[i] \in Clusters} = {}
  BY <1>1, <1>3
<1>5. Cardinality({}) = 0
  BY FS_EmptySet
<1>6. Chain(fat, 0) = [i \in 1 .. 0 |-> at[i - 1]]
  BY <1>4, <1>5 DEF Chain, at
<1> QED BY <1>6

\* The names of records, one that was never used has none.
AnyName == Names \cup {""}

\* What a record is made of.
LEMMA RecordIs ==
  /\ Record = [state : {"free", "deleted", "live"}, name : AnyName, dir : BOOLEAN,
               first : 0 .. MaxCluster, size : 0 .. MaxSize]
  /\ Names \subseteq AnyName
<1>1. Names \subseteq AnyName
  BY Zenon DEF AnyName
<1> QED BY <1>1, Zenon DEF Record, AnyName

(***************************************************************************)
(* The places of a directory.                                              *)
(***************************************************************************)
PlacesIn(d, chain) ==
    [k \in DOMAIN chain |-> [i \in Records(d.data[chain[k]]) |-> <<chain[k], i>>]]

\* A cluster of a folder holds its records, one of a file none.
LEMMA RecordsCounted ==
  ASSUME NEW block \in Block
  PROVE  /\ block.kind = "dir" => /\ block.records \in Seq(Record)
                                   /\ Records(block) = 1 .. Len(block.records)
         /\ block.kind # "dir" => Records(block) = {}
         /\ block.kind = "dir" => block.self \in 0 .. MaxCluster /\ block.parent \in 0 .. MaxCluster
         /\ block.kind \in {"dir", "file"}
BY DEF Block, Records

\* The places of one cluster are a list.
PlacesOf(c, block) == [i \in Records(block) |-> <<c, i>>]
ListsPlaces(c, block) ==
    /\ PlacesOf(c, block) \in Seq(Place)
    /\ \A i, j \in DOMAIN PlacesOf(c, block) :
          PlacesOf(c, block)[i] = PlacesOf(c, block)[j] => i = j
    /\ ToSet(PlacesOf(c, block)) = {<<c, i>> : i \in Records(block)}

\* The records of one cluster of a folder give a list of places, each once.
LEMMA ClusterPlaces ==
  ASSUME NEW block \in Block, NEW c \in Clusters
  PROVE  ListsPlaces(c, block)
<1> DEFINE n == IF block.kind = "dir" THEN Len(block.records) ELSE 0
           list == [i \in 1 .. n |-> <<c, i>>]
<1>1. n \in Nat /\ Records(block) = 1 .. n
  <2>1. CASE block.kind = "dir"
    <3>1. block.records \in Seq(Record) /\ Records(block) = 1 .. Len(block.records)
      BY <2>1, RecordsCounted
    <3>2. Len(block.records) \in Nat
      BY <3>1
    <3> QED BY <2>1, <3>1, <3>2
  <2>2. CASE block.kind # "dir"
    BY <2>2, RecordsCounted
  <2> QED BY <2>1, <2>2
<1> HIDE DEF n
<1>2. c \in 0 .. MaxCluster
  BY SizeAssumption DEF Clusters
<1>3. list \in Seq(Place)
  BY <1>1, <1>2 DEF Place
<1>4. \A i, j \in 1 .. n : list[i] = list[j] => i = j
  OBVIOUS
<1>5. ToSet(list) = {<<c, i>> : i \in 1 .. n}
  BY DEF ToSet
<1> QED BY <1>1, <1>3, <1>4, <1>5 DEF ListsPlaces, PlacesOf

\* The places of a folder are those of the clusters of its chain, each once.
LEMMA FolderPlaces ==
  ASSUME NEW d \in Disk, NEW dir, dir # Root, NEW chain \in Seq(Clusters),
         chain = Chain(Loaded(d), dir)
  PROVE  /\ Places(d, dir) = FlattenSeq(PlacesIn(d, chain))
         /\ PlacesIn(d, chain) \in Seq(Seq(Place))
         /\ Places(d, dir) \in Seq(Place)
         /\ \A p : p \in ToSet(Places(d, dir)) <=>
               \E c \in ToSet(chain) : \E i \in Records(d.data[c]) : p = <<c, i>>
         /\ (\A k, l \in DOMAIN chain : chain[k] = chain[l] => k = l) =>
               \A i, j \in DOMAIN Places(d, dir) : Places(d, dir)[i] = Places(d, dir)[j] => i = j
<1> DEFINE lists == PlacesIn(d, chain)
           n == Len(chain)
<1>1. n \in Nat /\ DOMAIN chain = 1 .. n /\ \A k \in 1 .. n : chain[k] \in Clusters
          /\ d.data[chain[k]] \in Block
  BY DEF Disk
<1>2. Places(d, dir) = FlattenSeq(lists)
  BY DEF Places, PlacesIn
<1>3. DOMAIN lists = 1 .. n /\ \A k \in 1 .. n :
         /\ lists[k] = [i \in Records(d.data[chain[k]]) |-> <<chain[k], i>>]
         /\ lists[k] \in Seq(Place)
         /\ \A i, j \in DOMAIN lists[k] : lists[k][i] = lists[k][j] => i = j
         /\ ToSet(lists[k]) = {<<chain[k], i>> : i \in Records(d.data[chain[k]])}
  <2>1. DOMAIN lists = 1 .. n
    BY <1>1 DEF PlacesIn
  <2>2. ASSUME NEW k \in 1 .. n
        PROVE  lists[k] = [i \in Records(d.data[chain[k]]) |-> <<chain[k], i>>]
    BY <1>1 DEF PlacesIn
  <2> HIDE DEF lists
  <2>3. ASSUME NEW k \in 1 .. n
        PROVE  /\ lists[k] \in Seq(Place)
               /\ \A i, j \in DOMAIN lists[k] : lists[k][i] = lists[k][j] => i = j
               /\ ToSet(lists[k]) = {<<chain[k], i>> : i \in Records(d.data[chain[k]])}
    <3>1. ListsPlaces(chain[k], d.data[chain[k]])
      BY <1>1, ClusterPlaces
    <3>2. lists[k] = PlacesOf(chain[k], d.data[chain[k]])
      BY <2>2 DEF PlacesOf
    <3> QED BY <3>1, <3>2 DEF ListsPlaces
  <2> QED BY <2>1, <2>2, <2>3
<1>4. lists = [k \in 1 .. n |-> lists[k]]
  BY <1>1 DEF PlacesIn
<1> HIDE DEF lists
<1>5. lists \in Seq(Seq(Place)) /\ Len(lists) = n
  <2>1. lists \in [1 .. n -> Seq(Place)]
    BY <1>3, <1>4
  <2> QED BY <1>1, <2>1
<1>6. /\ FlattenSeq(lists) \in Seq(Place)
      /\ \A x : x \in ToSet(FlattenSeq(lists)) <=> \E k \in 1 .. Len(lists) : x \in ToSet(lists[k])
  BY <1>5, FlattenedSet
<1>7. ASSUME NEW p
      PROVE  p \in ToSet(Places(d, dir)) <=>
               \E c \in ToSet(chain) : \E i \in Records(d.data[c]) : p = <<c, i>>
  <2>1. p \in ToSet(Places(d, dir)) <=> \E k \in 1 .. n : p \in ToSet(lists[k])
    BY <1>2, <1>5, <1>6
  <2>2. \A k \in 1 .. n : p \in ToSet(lists[k])
            <=> \E i \in Records(d.data[chain[k]]) : p = <<chain[k], i>>
    BY <1>3
  <2>3. ToSet(chain) = {chain[k] : k \in 1 .. n}
    BY <1>1 DEF ToSet
  <2> QED BY <2>1, <2>2, <2>3
<1>8. ASSUME \A k, l \in DOMAIN chain : chain[k] = chain[l] => k = l
      PROVE  \A i, j \in DOMAIN FlattenSeq(lists) :
                 FlattenSeq(lists)[i] = FlattenSeq(lists)[j] => i = j
  <2>1. \A k \in 1 .. Len(lists) : \A i, j \in 1 .. Len(lists[k]) :
            lists[k][i] = lists[k][j] => i = j
    BY <1>3, <1>5
  <2>2. ASSUME NEW k \in 1 .. Len(lists), NEW l \in 1 .. Len(lists), k # l
        PROVE  ToSet(lists[k]) \cap ToSet(lists[l]) = {}
    <3>1. k \in 1 .. n /\ l \in 1 .. n /\ chain[k] # chain[l]
      BY <1>1, <1>5, <1>8, <2>2
    <3> QED BY <1>3, <3>1
  <2> QED BY <1>5, <2>1, <2>2, FlattenedOnce
<1> QED BY <1>2, <1>5, <1>6, <1>7, <1>8 DEF lists

\* The places of the root directory.
LEMMA RootPlaces ==
  ASSUME NEW d \in Disk
  PROVE  /\ Places(d, Root) = [i \in 1 .. RootEntries |-> <<Root, i>>]
         /\ Places(d, Root) \in Seq(Place)
         /\ \A p : p \in ToSet(Places(d, Root)) <=> \E i \in 1 .. RootEntries : p = <<Root, i>>
         /\ \A i, j \in DOMAIN Places(d, Root) : Places(d, Root)[i] = Places(d, Root)[j] => i = j
<1>1. Places(d, Root) = [i \in 1 .. RootEntries |-> <<Root, i>>]
  BY DEF Places
<1>2. RootEntries \in Nat /\ Root \in 0 .. MaxCluster
  BY SizeAssumption DEF Root
<1>3. Places(d, Root) \in Seq(Place)
  BY <1>1, <1>2 DEF Place
<1>4. ToSet(Places(d, Root)) = {<<Root, i>> : i \in 1 .. RootEntries}
  BY <1>1 DEF ToSet
<1> QED BY <1>1, <1>3, <1>4

\* The places of a folder change only with its chain and with the records of its
\* clusters.
LEMMA SamePlaces ==
  ASSUME NEW d, NEW e, NEW dir,
         dir # Root => Chain(Loaded(e), dir) = Chain(Loaded(d), dir),
         dir # Root =>
             \A c \in ToSet(Chain(Loaded(d), dir)) : Records(e.data[c]) = Records(d.data[c])
  PROVE  Places(e, dir) = Places(d, dir)
<1>1. CASE dir = Root
  BY <1>1 DEF Places
<1>2. CASE dir # Root
  <2> DEFINE chain == Chain(Loaded(d), dir)
             list(v, k) == [i \in Records(v.data[chain[k]]) |-> <<chain[k], i>>]
  <2>1. \A k \in DOMAIN chain : chain[k] \in ToSet(chain)
    BY DEF ToSet
  <2>2. \A k \in DOMAIN chain : list(e, k) = list(d, k)
    BY <1>2, <2>1
  <2>3. [k \in DOMAIN chain |-> list(e, k)] = [k \in DOMAIN chain |-> list(d, k)]
    BY <2>2
  <2>4. /\ Places(e, dir) = FlattenSeq([k \in DOMAIN chain |-> list(e, k)])
        /\ Places(d, dir) = FlattenSeq([k \in DOMAIN chain |-> list(d, k)])
    BY <1>2 DEF Places
  <2> QED BY <2>3, <2>4
<1> QED BY <1>1, <1>2

\* Where nothing follows a record that was never used, the entries of a folder
\* are its live records.
LEMMA LiveEntries ==
  ASSUME NEW d, NEW dir, FreeTail(d, dir), Places(d, dir) \in Seq(Place)
  PROVE  \A p : p \in Entries(d, dir) <=> p \in ToSet(Places(d, dir)) /\ At(d, p).state = "live"
<1> DEFINE places == Places(d, dir)
<1>1. Len(places) \in Nat /\ DOMAIN places = 1 .. Len(places)
  OBVIOUS
<1>2. ASSUME NEW n \in DOMAIN places, At(d, places[n]).state = "live", NEW i \in 1 .. n
      PROVE  At(d, places[i]).state # "free"
  <2>1. i \in DOMAIN places /\ (i < n \/ i = n)
    BY <1>1
  <2> QED BY <1>2, <2>1 DEF FreeTail
<1> HIDE DEF places
<1>3. Entries(d, dir) = {places[n] : n \in {n \in DOMAIN places : At(d, places[n]).state = "live"}}
  BY <1>2 DEF Entries, places
<1> QED BY <1>3 DEF ToSet, places


(***************************************************************************)
(* What is used on a volume, and what a change has to leave alone.         *)
(***************************************************************************)
Used(d, folders) == UNION {Claimed(d, p) : p \in UNION {Entries(d, dir) : dir \in folders}}

\* The clusters of a set have not changed but for the records in them and their
\* parent records.
LikeOn(d, e, X) ==
    \A c \in X :
        /\ Loaded(e)[c] = Loaded(d)[c]
        /\ e.data[c].kind = d.data[c].kind
        /\ d.data[c].kind = "file" => e.data[c] = d.data[c]
        /\ d.data[c].kind = "dir" => e.data[c].self = d.data[c].self
        /\ Records(e.data[c]) = Records(d.data[c])

\* What is known of the places of a directory.
PlacesKnown(d, dir) ==
    /\ Places(d, dir) \in Seq(Place)
    /\ \A i, j \in DOMAIN Places(d, dir) : Places(d, dir)[i] = Places(d, dir)[j] => i = j
    /\ \A p : p \in ToSet(Places(d, dir)) <=>
           IF dir = Root THEN \E i \in 1 .. RootEntries : p = <<Root, i>>
           ELSE \E c \in ToSet(Chain(Loaded(d), dir)) : \E i \in Records(d.data[c]) : p = <<c, i>>
    /\ \A p \in ToSet(Places(d, dir)) : At(d, p) \in Record

\* A folder is its chain, of clusters with records.
DirChain(d, dir) ==
    /\ Chained(Loaded(d), dir)
    /\ \A c \in ToSet(Chain(Loaded(d), dir)) : d.data[c].kind = "dir"

\* Nothing is in an empty list.
LEMMA EmptyList ==
  ASSUME NEW S
  PROVE  <<>> \in Seq(S) /\ ToSet(<<>>) = {}
BY DEF ToSet

\* A chain consists of clusters, one of which is the first.
LEMMA ChainClusters ==
  ASSUME NEW fat, NEW first, Chained(fat, first)
  PROVE  /\ Chain(fat, first) \in Seq(Clusters) /\ ToSet(Chain(fat, first)) \subseteq Clusters
         /\ first \in ToSet(Chain(fat, first)) /\ first # 0
         /\ \A i, j \in DOMAIN Chain(fat, first) :
               Chain(fat, first)[i] = Chain(fat, first)[j] => i = j
         /\ \A c \in ToSet(Chain(fat, first)) : fat[c] # Free
<1> DEFINE s == Chain(fat, first)
<1>1. s \in Seq(Clusters) /\ s # <<>> /\ s[1] = first /\ first \in Clusters
      /\ (\A i, j \in DOMAIN s : s[i] = s[j] => i = j)
      /\ \A i \in DOMAIN s : fat[s[i]] = IF i = Len(s) THEN Eoc ELSE s[i + 1]
  BY DEF Chained, IsChain
<1> HIDE DEF s
<1>2. Len(s) \in Nat /\ DOMAIN s = 1 .. Len(s) /\ Len(s) > 0
          /\ \A i \in 1 .. Len(s) : s[i] \in Clusters
  BY <1>1
<1>3. ToSet(s) = {s[i] : i \in 1 .. Len(s)}
  BY <1>2 DEF ToSet
<1>4. 1 \in 1 .. Len(s) /\ first \in ToSet(s)
  BY <1>1, <1>2, <1>3
<1>5. \A c \in Clusters : c # 0 /\ c # Free
  BY SizeAssumption DEF Clusters, Free
<1>6. Eoc # Free
  BY SizeAssumption DEF Eoc, Free
<1>7. ASSUME NEW c \in ToSet(s)
      PROVE  fat[c] # Free
  <2>1. PICK i \in 1 .. Len(s) : c = s[i]
    BY <1>3
  <2>2. CASE i = Len(s)
    BY <1>1, <1>2, <1>6, <2>1, <2>2
  <2>3. CASE i # Len(s)
    <3>1. i + 1 \in 1 .. Len(s)
      <4>1. Len(s) \in Nat /\ i \in 1 .. Len(s) /\ i # Len(s)
        BY <1>2, <2>1, <2>3
      <4> QED BY <4>1
    <3>2. s[i + 1] \in Clusters
      BY <1>2, <3>1
    <3>3. fat[s[i]] = s[i + 1]
      BY <1>1, <1>2, <2>1, <2>3
    <3> QED BY <1>5, <2>1, <3>2, <3>3
  <2> QED BY <2>2, <2>3
<1> QED BY <1>1, <1>2, <1>3, <1>4, <1>5, <1>7 DEF s

\* A chain is the same in a FAT that agrees on its clusters.
LEMMA ChainKept ==
  ASSUME NEW fat \in Fat, NEW fat2 \in Fat, NEW first, Chained(fat, first),
         \A c \in ToSet(Chain(fat, first)) : fat2[c] = fat[c]
  PROVE  Chain(fat2, first) = Chain(fat, first) /\ Chained(fat2, first)
<1> DEFINE s == Chain(fat, first)
<1>1. IsChain(fat, s) /\ s[1] = first /\ first \in Clusters
  BY DEF Chained
<1> HIDE DEF s
<1>2. \A i \in DOMAIN s : s[i] \in ToSet(s)
  BY DEF ToSet
<1>3. IsChain(fat2, s)
  <2>1. \A i \in DOMAIN s : fat2[s[i]] = fat[s[i]]
    BY <1>2 DEF s
  <2> QED BY <1>1, <2>1 DEF IsChain
<1>4. Chain(fat2, first) = s
  BY <1>1, <1>3, ChainFound
<1> QED BY <1>1, <1>3, <1>4 DEF Chained, s

\* The records at the places of a directory are records.
LEMMA PlacesAre ==
  ASSUME NEW d \in Disk, NEW dir, dir = Root \/ DirChain(d, dir)
  PROVE  PlacesKnown(d, dir)
<1>1. CASE dir = Root
  <2>1. \A i \in 1 .. RootEntries : At(d, <<Root, i>>) \in Record
    BY DEF At, Disk
  <2> QED BY <1>1, <2>1, RootPlaces DEF PlacesKnown
<1>2. CASE dir # Root
  <2> DEFINE chain == Chain(Loaded(d), dir)
  <2>1. /\ chain \in Seq(Clusters) /\ ToSet(chain) \subseteq Clusters
        /\ \A i, j \in DOMAIN chain : chain[i] = chain[j] => i = j
        /\ \A c \in ToSet(chain) : d.data[c].kind = "dir"
    BY <1>2, ChainClusters DEF DirChain
  <2>2. ASSUME NEW c \in ToSet(chain), NEW i \in Records(d.data[c])
        PROVE  At(d, <<c, i>>) \in Record
    <3>1. c # Root /\ d.data[c] \in Block /\ d.data[c].kind = "dir"
      BY <2>1, SizeAssumption DEF Disk, Clusters, Root
    <3>2. d.data[c].records \in Seq(Record) /\ i \in 1 .. Len(d.data[c].records)
      BY <2>2, <3>1, RecordsCounted
    <3>3. At(d, <<c, i>>) = d.data[c].records[i]
      BY <3>1 DEF At
    <3> QED BY <3>2, <3>3
  <2> HIDE DEF chain
  <2>3. /\ Places(d, dir) \in Seq(Place)
        /\ \A p : p \in ToSet(Places(d, dir)) <=>
               \E c \in ToSet(chain) : \E i \in Records(d.data[c]) : p = <<c, i>>
        /\ \A i, j \in DOMAIN Places(d, dir) : Places(d, dir)[i] = Places(d, dir)[j] => i = j
    BY <1>2, <2>1, FolderPlaces DEF chain
  <2> QED BY <1>2, <2>2, <2>3 DEF PlacesKnown, chain
<1> QED BY <1>1, <1>2

(***************************************************************************)
(* What a laid out volume is like, folder by folder and entry by entry.    *)
(***************************************************************************)

\* A folder of a laid out volume.
FolderIs(d, folders, dir) ==
    /\ DirChain(d, dir)
    /\ Chain(Loaded(d), dir) \in Seq(Clusters)
    /\ ToSet(Chain(Loaded(d), dir)) \subseteq Used(d, folders)
    /\ d.data[dir].self = dir /\ d.data[dir].parent \in folders
    /\ \E p \in Entries(d, d.data[dir].parent) :
          At(d, p).dir /\ At(d, p).first = dir /\ Claimed(d, p) = ToSet(Chain(Loaded(d), dir))

\* An entry of a laid out volume.
EntryIs(d, folders, p) ==
    /\ At(d, p) \in Record /\ At(d, p).state = "live"
    /\ At(d, p).name \in Names
    /\ At(d, p).first = 0 \/ Chained(Loaded(d), At(d, p).first)
    /\ Chain(Loaded(d), At(d, p).first) \in Seq(Clusters)
    /\ Claimed(d, p) \subseteq Used(d, folders)
    /\ Claimed(d, p) \subseteq Clusters
    /\ \A c \in Claimed(d, p) : Loaded(d)[c] # Free

\* Opening a volume loads the first copy of its FAT.
LEMMA LoadedFat ==
  ASSUME NEW d \in Disk
  PROVE  Loaded(d) \in Fat
BY DEF Disk, Loaded

\* What an entry claims is used.
LEMMA ClaimedUsed ==
  ASSUME NEW d, NEW folders, NEW dir \in folders, NEW p \in Entries(d, dir)
  PROVE  Claimed(d, p) \subseteq Used(d, folders)
BY DEF Used

\* A folder is found where its parent record says, and its clusters are used.
LEMMA LaidFolder ==
  ASSUME NEW d, NEW folders, NEW paths, LaidOut(d, folders, paths), NEW dir \in folders, dir # Root
  PROVE  FolderIs(d, folders, dir)
<1>1. FolderSound(d, folders, dir)
  BY DEF LaidOut
<1>2. DirChain(d, dir) /\ Chain(Loaded(d), dir) \in Seq(Clusters)
  BY <1>1, ChainClusters DEF FolderSound, DirChain
<1>3. PICK p \in Entries(d, d.data[dir].parent) : At(d, p).dir /\ At(d, p).first = dir
  BY <1>1 DEF FolderSound
<1>4. d.data[dir].self = dir /\ d.data[dir].parent \in folders
  BY <1>1 DEF FolderSound
<1>5. Claimed(d, p) = ToSet(Chain(Loaded(d), dir))
  BY <1>3 DEF Claimed
<1>6. Claimed(d, p) \subseteq Used(d, folders)
  BY <1>3, <1>4, ClaimedUsed
<1> QED BY <1>2, <1>3, <1>4, <1>5, <1>6 DEF FolderIs

\* The places of a directory are known, and its entries are its live records.
LEMMA LaidPlaces ==
  ASSUME NEW d, NEW folders, NEW paths, LaidOut(d, folders, paths), NEW dir \in folders
  PROVE  /\ PlacesKnown(d, dir)
         /\ FreeTail(d, dir)
         /\ \A p : p \in Entries(d, dir) <=> p \in ToSet(Places(d, dir)) /\ At(d, p).state = "live"
<1>1. d \in Disk /\ FreeTail(d, dir)
  BY DEF LaidOut
<1>2. dir = Root \/ DirChain(d, dir)
  BY LaidFolder DEF FolderIs
<1>3. PlacesKnown(d, dir)
  BY <1>1, <1>2, PlacesAre
<1>4. Places(d, dir) \in Seq(Place)
  BY <1>3 DEF PlacesKnown
<1> QED BY <1>1, <1>3, <1>4, LiveEntries

\* An entry is a live record; its clusters are in use.
LEMMA LaidEntry ==
  ASSUME NEW d, NEW folders, NEW paths, LaidOut(d, folders, paths), NEW dir \in folders,
         NEW p \in Entries(d, dir)
  PROVE  EntryIs(d, folders, p)
<1>1. d \in Disk /\ EntrySound(d, folders, paths, dir, p)
  BY DEF LaidOut
<1>2. At(d, p) \in Record /\ At(d, p).state = "live"
  BY LaidPlaces DEF PlacesKnown
<1>3. At(d, p).first = 0 \/ Chained(Loaded(d), At(d, p).first)
  <2>1. CASE At(d, p).dir
    <3>1. At(d, p).first \in folders /\ At(d, p).first # Root
      BY <1>1, <2>1 DEF EntrySound
    <3>2. FolderIs(d, folders, At(d, p).first)
      BY <3>1, LaidFolder
    <3> QED BY <3>2 DEF FolderIs, DirChain
  <2>2. CASE ~ At(d, p).dir
    BY <1>1, <2>2 DEF EntrySound, FileSound
  <2> QED BY <2>1, <2>2
<1>4. /\ Chain(Loaded(d), At(d, p).first) \in Seq(Clusters)
      /\ ToSet(Chain(Loaded(d), At(d, p).first)) \subseteq Clusters
      /\ \A c \in ToSet(Chain(Loaded(d), At(d, p).first)) : Loaded(d)[c] # Free
  <2>1. CASE At(d, p).first = 0
    <3>1. Chain(Loaded(d), 0) = <<>>
      BY <1>1, LoadedFat, NoChain
    <3> QED BY <2>1, <3>1, EmptyList
  <2>2. CASE At(d, p).first # 0
    BY <1>3, <2>2, ChainClusters
  <2> QED BY <2>1, <2>2
<1>5. At(d, p).name \in Names
  BY <1>1 DEF EntrySound
<1> QED BY <1>2, <1>3, <1>4, <1>5, ClaimedUsed DEF EntryIs, Claimed

\* What is used is in use in the FAT.
LEMMA UsedIsTaken ==
  ASSUME NEW d, NEW folders, NEW paths, LaidOut(d, folders, paths), NEW c \in Used(d, folders)
  PROVE  c \in Clusters /\ Loaded(d)[c] # Free
<1>1. PICK dir \in folders : \E p \in Entries(d, dir) : c \in Claimed(d, p)
  BY DEF Used
<1>2. PICK p \in Entries(d, dir) : c \in Claimed(d, p)
  BY <1>1
<1> QED BY <1>2, LaidEntry DEF EntryIs

\* Two different entries claim nothing together, and two in one folder have
\* different names.
LEMMA LaidApart ==
  ASSUME NEW d, NEW folders, NEW paths, LaidOut(d, folders, paths),
         NEW dir \in folders, NEW p \in Entries(d, dir),
         NEW other \in folders, NEW q \in Entries(d, other), p # q
  PROVE  /\ Claimed(d, p) \cap Claimed(d, q) = {}
         /\ dir = other => At(d, p).name # At(d, q).name
BY DEF LaidOut, Apart

\* A folder has one entry.
LEMMA OneEntry ==
  ASSUME NEW d, NEW folders, NEW paths, LaidOut(d, folders, paths),
         NEW dir \in folders, NEW p \in Entries(d, dir), At(d, p).dir,
         NEW other \in folders, NEW q \in Entries(d, other), At(d, p).first = At(d, q).first
  PROVE  p = q
<1>1. EntrySound(d, folders, paths, dir, p)
  BY DEF LaidOut
<1>2. At(d, p).first \in folders /\ At(d, p).first # Root
  BY <1>1 DEF EntrySound
<1>3. FolderIs(d, folders, At(d, p).first)
  BY <1>2, LaidFolder
<1>4. At(d, p).first \in Claimed(d, p)
  BY <1>3, ChainClusters DEF FolderIs, DirChain, Claimed
<1>5. Claimed(d, q) = Claimed(d, p)
  BY DEF Claimed
<1> QED BY <1>4, <1>5, LaidApart

\* A place is in one directory.
LEMMA OneFolder ==
  ASSUME NEW d, NEW folders, NEW paths, LaidOut(d, folders, paths),
         NEW dir \in folders, NEW other \in folders,
         NEW p \in ToSet(Places(d, dir)), p \in ToSet(Places(d, other))
  PROVE  dir = other
<1>1. PlacesKnown(d, dir) /\ PlacesKnown(d, other)
  BY LaidPlaces
<1>2. \A c \in Clusters : c # Root
  BY SizeAssumption DEF Clusters, Root
<1>3. dir # Root => p[1] \in ToSet(Chain(Loaded(d), dir)) /\ p[1] \in Clusters
  <2> SUFFICES ASSUME dir # Root PROVE p[1] \in ToSet(Chain(Loaded(d), dir)) /\ p[1] \in Clusters
    OBVIOUS
  <2>1. p[1] \in ToSet(Chain(Loaded(d), dir))
    BY <1>1 DEF PlacesKnown
  <2>2. ToSet(Chain(Loaded(d), dir)) \subseteq Clusters
    BY LaidFolder, ChainClusters DEF FolderIs, DirChain
  <2> QED BY <2>1, <2>2
<1>4. other # Root => p[1] \in ToSet(Chain(Loaded(d), other)) /\ p[1] \in Clusters
  <2> SUFFICES ASSUME other # Root
               PROVE  p[1] \in ToSet(Chain(Loaded(d), other)) /\ p[1] \in Clusters
    OBVIOUS
  <2>1. p[1] \in ToSet(Chain(Loaded(d), other))
    BY <1>1 DEF PlacesKnown
  <2>2. ToSet(Chain(Loaded(d), other)) \subseteq Clusters
    BY LaidFolder, ChainClusters DEF FolderIs, DirChain
  <2> QED BY <2>1, <2>2
<1>5. dir = Root => p[1] = Root
  BY <1>1 DEF PlacesKnown
<1>6. other = Root => p[1] = Root
  BY <1>1 DEF PlacesKnown
<1>7. CASE dir # Root /\ other # Root
  <2>1. FolderIs(d, folders, dir) /\ FolderIs(d, folders, other)
    BY <1>7, LaidFolder
  <2>2. PICK a \in Entries(d, d.data[dir].parent) :
           At(d, a).first = dir /\ Claimed(d, a) = ToSet(Chain(Loaded(d), dir))
    BY <2>1 DEF FolderIs
  <2>3. PICK b \in Entries(d, d.data[other].parent) :
           At(d, b).first = other /\ Claimed(d, b) = ToSet(Chain(Loaded(d), other))
    BY <2>1 DEF FolderIs
  <2>4. d.data[dir].parent \in folders /\ d.data[other].parent \in folders
    BY <2>1 DEF FolderIs
  <2>5. Claimed(d, a) \cap Claimed(d, b) # {}
    BY <1>3, <1>4, <1>7, <2>2, <2>3
  <2>6. a = b
    BY <2>4, <2>5, LaidApart
  <2> QED BY <2>2, <2>3, <2>6
<1> QED BY <1>2, <1>3, <1>4, <1>5, <1>6, <1>7

(***************************************************************************)
(* What a change leaves alone, and when what it leaves is laid out.        *)
(***************************************************************************)

SteadyFolder(d, e, dir) ==
    /\ Places(e, dir) = Places(d, dir)
    /\ PlacesKnown(e, dir)
    /\ dir # Root => /\ DirChain(e, dir)
                     /\ Chain(Loaded(e), dir) = Chain(Loaded(d), dir)
                     /\ e.data[dir].self = dir
SteadyEntry(d, e, entry) ==
    /\ Chain(Loaded(e), entry.first) = Chain(Loaded(d), entry.first)
    /\ entry.first = 0 \/ Chained(Loaded(e), entry.first)
    /\ FileSound(d, entry) => FileSound(e, entry)

\* A folder whose clusters are left alone keeps its places.
LEMMA KeepsFolder ==
  ASSUME NEW d, NEW folders, NEW paths, LaidOut(d, folders, paths), NEW e \in Disk,
         NEW dir \in folders,
         dir # Root => LikeOn(d, e, ToSet(Chain(Loaded(d), dir)))
  PROVE  SteadyFolder(d, e, dir)
<1>1. CASE dir = Root
  <2>1. d \in Disk
    BY DEF LaidOut
  <2>2. Places(e, dir) = Places(d, dir)
    BY <1>1, <2>1, RootPlaces
  <2> QED BY <1>1, <2>2, PlacesAre DEF SteadyFolder
<1>2. CASE dir # Root
  <2> DEFINE chain == Chain(Loaded(d), dir)
  <2>1. d \in Disk /\ FolderIs(d, folders, dir)
    BY <1>2, LaidFolder DEF LaidOut
  <2>2. /\ Chained(Loaded(d), dir) /\ dir \in ToSet(chain)
        /\ \A c \in ToSet(chain) : d.data[c].kind = "dir"
        /\ d.data[dir].self = dir
    BY <2>1, ChainClusters DEF FolderIs, DirChain
  <2> HIDE DEF chain
  <2>3. \A c \in ToSet(chain) :
           /\ Loaded(e)[c] = Loaded(d)[c] /\ e.data[c].kind = d.data[c].kind
           /\ d.data[c].kind = "dir" => e.data[c].self = d.data[c].self
           /\ Records(e.data[c]) = Records(d.data[c])
    BY <1>2 DEF LikeOn, chain
  <2>4. Chain(Loaded(e), dir) = chain /\ Chained(Loaded(e), dir)
    BY <2>1, <2>2, <2>3, ChainKept, LoadedFat DEF chain
  <2>5. DirChain(e, dir)
    BY <2>2, <2>3, <2>4 DEF DirChain
  <2>6. e.data[dir].self = dir
    BY <2>2, <2>3
  <2>7. Places(e, dir) = Places(d, dir)
    BY <2>3, <2>4, SamePlaces DEF chain
  <2> QED BY <2>4, <2>5, <2>6, <2>7, PlacesAre DEF SteadyFolder, chain
<1> QED BY <1>1, <1>2

\* An entry whose clusters are left alone has the chain and the content it had.
LEMMA KeepsEntry ==
  ASSUME NEW d \in Disk, NEW e \in Disk, NEW entry,
         entry.first = 0 \/ Chained(Loaded(d), entry.first),
         LikeOn(d, e, ToSet(Chain(Loaded(d), entry.first)))
  PROVE  SteadyEntry(d, e, entry)
<1> DEFINE chain == Chain(Loaded(d), entry.first)
<1>1. \A c \in ToSet(chain) : Loaded(e)[c] = Loaded(d)[c]
  BY DEF LikeOn
<1>2. Chain(Loaded(e), entry.first) = chain
  <2>1. CASE entry.first = 0
    BY <2>1, NoChain, LoadedFat
  <2>2. CASE entry.first # 0
    BY <1>1, <2>2, ChainKept, LoadedFat
  <2> QED BY <2>1, <2>2
<1>3. entry.first = 0 \/ Chained(Loaded(e), entry.first)
  BY <1>1, ChainKept, LoadedFat
<1>4. ASSUME FileSound(d, entry)
      PROVE  FileSound(e, entry)
  <2>1. PICK write \in 0 .. MaxCalls : Holds(d, entry, write)
    BY <1>4 DEF FileSound
  <2>2. Len(chain) = entry.size
        /\ \A i \in DOMAIN chain : d.data[chain[i]] = FileBlock(write, i, entry.size)
    BY <2>1 DEF Holds
  <2>3. \A i \in DOMAIN chain : chain[i] \in ToSet(chain)
    BY DEF ToSet
  <2> HIDE DEF chain
  <2>4. \A c \in ToSet(chain) : d.data[c].kind = "file" => e.data[c] = d.data[c]
    BY DEF LikeOn, chain
  <2>5. ASSUME NEW i \in DOMAIN chain
        PROVE  d.data[chain[i]].kind = "file"
    <3>1. d.data[chain[i]] = FileBlock(write, i, entry.size)
      BY <2>2
    <3>2. FileBlock(write, i, entry.size).kind = "file"
      BY DEF FileBlock
    <3> QED BY <3>1, <3>2
  <2>6. \A i \in DOMAIN chain : e.data[chain[i]] = FileBlock(write, i, entry.size)
    BY <2>2, <2>3, <2>4, <2>5
  <2>7. Holds(e, entry, write)
    BY <1>2, <2>2, <2>6 DEF Holds
  <2> QED BY <1>3, <2>1, <2>7 DEF FileSound
<1> QED BY <1>2, <1>3, <1>4 DEF SteadyEntry

\* An entry that stays, and one that comes or changes.
Stays(d, e, folders, folders2, paths2, dir, p) ==
    /\ dir \in folders /\ p \in Entries(d, dir)
    /\ At(e, p) = At(d, p)
    /\ LikeOn(d, e, Claimed(d, p))
    /\ At(d, p).dir => /\ At(d, p).first \in folders2
                       /\ paths2[At(d, p).first] = Append(paths2[dir], At(d, p).name)
AwayFrom(e, folders2, dir, p) ==
    \A other \in folders2 : \A q \in Entries(e, other) :
        q # p => /\ Claimed(e, p) \cap Claimed(e, q) = {}
                 /\ dir = other => At(e, p).name # At(e, q).name
Comes(e, folders2, paths2, dir, p) ==
    EntrySound(e, folders2, paths2, dir, p) /\ AwayFrom(e, folders2, dir, p)

\* What has to be shown of the volume e that a change makes of d.
Relays(d, folders, e, folders2, paths2, kept) ==
    /\ e \in Disk
    /\ folders2 \subseteq 0 .. MaxCluster /\ Root \in folders2
    /\ paths2 \in [folders2 -> Seq(Names)] /\ paths2[Root] = <<>>
    /\ \A dir \in folders2 : FreeTail(e, dir)
    /\ \A dir \in folders2 \ {Root} : FolderSound(e, folders2, dir)
    /\ \A dir \in folders2 : \A p \in Entries(e, dir) :
          IF p \in kept THEN Stays(d, e, folders, folders2, paths2, dir, p)
          ELSE Comes(e, folders2, paths2, dir, p)

\* An entry that stays through a change keeps its record and what it claims.
LEMMA StaysSteady ==
  ASSUME NEW d, NEW folders, NEW paths, LaidOut(d, folders, paths), NEW e \in Disk,
         NEW folders2, NEW paths2, NEW dir, NEW p,
         Stays(d, e, folders, folders2, paths2, dir, p)
  PROVE  /\ SteadyEntry(d, e, At(d, p)) /\ At(e, p) = At(d, p)
         /\ Claimed(e, p) = Claimed(d, p)
<1>1. d \in Disk /\ dir \in folders /\ p \in Entries(d, dir) /\ At(e, p) = At(d, p)
      /\ LikeOn(d, e, Claimed(d, p))
  BY DEF Stays, LaidOut
<1>2. At(d, p).first = 0 \/ Chained(Loaded(d), At(d, p).first)
  BY <1>1, LaidEntry DEF EntryIs
<1>3. SteadyEntry(d, e, At(d, p))
  BY <1>1, <1>2, KeepsEntry DEF Claimed
<1> QED BY <1>1, <1>3 DEF SteadyEntry, Claimed

\* A volume that a change leaves laid out.
LEMMA Relaid ==
  ASSUME NEW d, NEW folders, NEW paths, LaidOut(d, folders, paths),
         NEW e, NEW folders2, NEW paths2, NEW kept,
         Relays(d, folders, e, folders2, paths2, kept)
  PROVE  LaidOut(e, folders2, paths2)
<1>1. /\ e \in Disk
      /\ folders2 \subseteq 0 .. MaxCluster /\ Root \in folders2
      /\ paths2 \in [folders2 -> Seq(Names)] /\ paths2[Root] = <<>>
      /\ \A dir \in folders2 : FreeTail(e, dir)
      /\ \A dir \in folders2 \ {Root} : FolderSound(e, folders2, dir)
  BY DEF Relays
<1>2. ASSUME NEW dir \in folders2, NEW p \in Entries(e, dir), p \in kept
      PROVE  Stays(d, e, folders, folders2, paths2, dir, p)
  BY <1>2 DEF Relays
<1>3. ASSUME NEW dir \in folders2, NEW p \in Entries(e, dir), p \notin kept
      PROVE  Comes(e, folders2, paths2, dir, p)
  BY <1>3 DEF Relays
<1>4. ASSUME NEW dir \in folders2, NEW p \in Entries(e, dir)
      PROVE  EntrySound(e, folders2, paths2, dir, p)
  <2>1. CASE p \in kept
    <3>1. Stays(d, e, folders, folders2, paths2, dir, p)
      BY <1>2, <2>1
    <3>2. SteadyEntry(d, e, At(d, p)) /\ At(e, p) = At(d, p)
      BY <1>1, <3>1, StaysSteady
    <3>3. dir \in folders /\ p \in Entries(d, dir)
      BY <3>1 DEF Stays
    <3>4. EntrySound(d, folders, paths, dir, p)
      BY <3>3 DEF LaidOut
    <3>5. At(d, p).name \in Names /\ (~ At(d, p).dir => FileSound(e, At(d, p)))
      BY <3>2, <3>4 DEF EntrySound, SteadyEntry
    <3>6. CASE At(d, p).dir
      <4>1. /\ At(d, p).first \in folders2
            /\ paths2[At(d, p).first] = Append(paths2[dir], At(d, p).name)
        BY <3>1, <3>6 DEF Stays
      <4>2. At(d, p).first # Root
        BY <3>4, <3>6 DEF EntrySound
      <4> QED BY <3>2, <3>5, <3>6, <4>1, <4>2 DEF EntrySound
    <3>7. CASE ~ At(d, p).dir
      BY <3>2, <3>5, <3>7 DEF EntrySound
    <3> QED BY <3>6, <3>7
  <2>2. CASE p \notin kept
    BY <1>3, <2>2 DEF Comes
  <2> QED BY <2>1, <2>2
<1>5. ASSUME NEW dir \in folders2, NEW p \in Entries(e, dir),
             NEW other \in folders2, NEW q \in Entries(e, other), p # q
      PROVE  /\ Claimed(e, p) \cap Claimed(e, q) = {}
             /\ dir = other => At(e, p).name # At(e, q).name
  <2>1. CASE p \notin kept
    <3>1. AwayFrom(e, folders2, dir, p)
      BY <1>3, <2>1 DEF Comes
    <3> QED BY <1>5, <3>1 DEF AwayFrom
  <2>2. CASE q \notin kept
    <3>1. AwayFrom(e, folders2, other, q)
      BY <1>3, <2>2 DEF Comes
    <3> QED BY <1>5, <3>1 DEF AwayFrom
  <2>3. CASE p \in kept /\ q \in kept
    <3>1. /\ Stays(d, e, folders, folders2, paths2, dir, p)
          /\ Stays(d, e, folders, folders2, paths2, other, q)
      BY <1>2, <2>3
    <3>2. /\ At(e, p) = At(d, p) /\ Claimed(e, p) = Claimed(d, p)
          /\ At(e, q) = At(d, q) /\ Claimed(e, q) = Claimed(d, q)
      BY <1>1, <3>1, StaysSteady
    <3>3. /\ dir \in folders /\ p \in Entries(d, dir)
          /\ other \in folders /\ q \in Entries(d, other)
      BY <3>1 DEF Stays
    <3> QED BY <1>5, <3>2, <3>3, LaidApart
  <2> QED BY <2>1, <2>2, <2>3
<1>6. Apart(e, folders2)
  BY <1>5 DEF Apart
<1> QED BY <1>1, <1>4, <1>6 DEF LaidOut

\* A folder whose clusters and entry are left is as sound as it was.
LEMMA KeepsSound ==
  ASSUME NEW d, NEW folders, NEW paths, LaidOut(d, folders, paths), NEW e \in Disk,
         NEW folders2, NEW dir \in folders, dir # Root,
         SteadyFolder(d, e, dir),
         e.data[dir].parent \in folders2,
         NEW p \in Entries(e, e.data[dir].parent), At(e, p).dir, At(e, p).first = dir
  PROVE  FolderSound(e, folders2, dir)
<1>1. DirChain(e, dir) /\ e.data[dir].self = dir
  BY DEF SteadyFolder
<1> QED BY <1>1 DEF FolderSound, DirChain

(***************************************************************************)
(* Changes of records.                                                     *)
(***************************************************************************)

\* A record that a listing of its directory gets to.
Reached(d, dir, p) ==
    \E n \in DOMAIN Places(d, dir) :
        /\ Places(d, dir)[n] = p
        /\ \A m \in DOMAIN Places(d, dir) : m < n => At(d, Places(d, dir)[m]).state # "free"

\* A change that leaves what is used but for the records at some places.
Edits(d, e, folders, X) ==
    /\ e \in Disk
    /\ LikeOn(d, e, Used(d, folders))
    /\ \A dir \in folders : \A p \in ToSet(Places(d, dir)) :
          IF p \in X THEN At(e, p).state # "free" /\ Reached(d, dir, p)
          ELSE At(e, p) = At(d, p)

\* A directory after such a change.
Edited(d, e, dir, X) ==
    /\ SteadyFolder(d, e, dir)
    /\ FreeTail(e, dir)
    /\ \A p : p \in Entries(e, dir) <=>
           IF p \in X THEN p \in ToSet(Places(d, dir)) /\ At(e, p).state = "live"
           ELSE p \in Entries(d, dir)
    /\ \A p \in ToSet(Places(d, dir)) : p \notin X => At(e, p) = At(d, p)

\* After a change at some records, a directory has its other entries still, and
\* the edited ones that are live.
LEMMA EditedFolder ==
  ASSUME NEW d, NEW folders, NEW paths, LaidOut(d, folders, paths),
         NEW e, NEW X, Edits(d, e, folders, X), NEW dir \in folders
  PROVE  Edited(d, e, dir, X)
<1> DEFINE places == Places(d, dir)
<1>1. e \in Disk /\ LikeOn(d, e, Used(d, folders))
  BY DEF Edits
<1>2. SteadyFolder(d, e, dir)
  <2>1. dir # Root => ToSet(Chain(Loaded(d), dir)) \subseteq Used(d, folders)
    BY LaidFolder DEF FolderIs
  <2>2. dir # Root => LikeOn(d, e, ToSet(Chain(Loaded(d), dir)))
    BY <1>1, <2>1 DEF LikeOn
  <2> QED BY <1>1, <2>2, KeepsFolder
<1>3. Places(e, dir) = places /\ PlacesKnown(e, dir)
  BY <1>2 DEF SteadyFolder
<1>4. PlacesKnown(d, dir) /\ FreeTail(d, dir)
      /\ \A p : p \in Entries(d, dir) <=> p \in ToSet(places) /\ At(d, p).state = "live"
  BY LaidPlaces
<1>5. \A p \in ToSet(places) :
          IF p \in X THEN At(e, p).state # "free" /\ Reached(d, dir, p)
          ELSE At(e, p) = At(d, p)
  BY DEF Edits
<1> HIDE DEF places
<1>6. places \in Seq(Place)
      /\ \A i, j \in DOMAIN places : places[i] = places[j] => i = j
  BY <1>4 DEF PlacesKnown, places
<1>7. ASSUME NEW i \in DOMAIN places, NEW j \in DOMAIN places, i < j,
             At(e, places[i]).state = "free"
      PROVE  At(e, places[j]).state = "free"
  <2>1. places[i] \in ToSet(places) /\ places[j] \in ToSet(places)
    BY DEF ToSet
  <2>2. At(d, places[i]).state = "free"
    BY <1>5, <1>7, <2>1
  <2>3. places[j] \notin X
    <3> SUFFICES ASSUME places[j] \in X PROVE FALSE
      OBVIOUS
    <3>1. Reached(d, dir, places[j])
      BY <1>5, <2>1
    <3>2. PICK n \in DOMAIN places :
             /\ places[n] = places[j]
             /\ \A m \in DOMAIN places : m < n => At(d, places[m]).state # "free"
      BY <3>1 DEF Reached, places
    <3>3. n = j
      BY <1>6, <3>2
    <3> QED BY <1>7, <2>2, <3>2, <3>3
  <2>4. At(d, places[j]).state = "free"
    BY <1>4, <1>7, <2>2 DEF FreeTail, places
  <2> QED BY <1>5, <2>1, <2>3, <2>4
<1>8. FreeTail(e, dir)
  BY <1>3, <1>7 DEF FreeTail
<1>9. \A p : p \in Entries(e, dir) <=> p \in ToSet(places) /\ At(e, p).state = "live"
  <2>1. Places(e, dir) \in Seq(Place)
    BY <1>3, <1>6
  <2> QED BY <1>3, <1>8, <2>1, LiveEntries
<1>10. \A p : p \in Entries(e, dir) <=>
           IF p \in X THEN p \in ToSet(places) /\ At(e, p).state = "live"
           ELSE p \in Entries(d, dir)
  BY <1>4, <1>5, <1>9
<1> QED BY <1>2, <1>5, <1>8, <1>10 DEF Edited, places

\* An entry that a change of other records leaves.
LEMMA EditLeaves ==
  ASSUME NEW d, NEW folders, NEW paths, LaidOut(d, folders, paths),
         NEW e, NEW X, Edits(d, e, folders, X),
         NEW dir \in folders, NEW p \in Entries(d, dir), p \notin X
  PROVE  /\ p \in Entries(e, dir) /\ At(e, p) = At(d, p) /\ Claimed(e, p) = Claimed(d, p)
         /\ LikeOn(d, e, Claimed(d, p)) /\ SteadyEntry(d, e, At(d, p))
<1>1. Edited(d, e, dir, X)
  BY EditedFolder
<1>2. p \in ToSet(Places(d, dir))
  BY LaidPlaces
<1>3. p \in Entries(e, dir) /\ At(e, p) = At(d, p)
  BY <1>1, <1>2 DEF Edited
<1>4. EntryIs(d, folders, p)
  BY LaidEntry
<1>5. LikeOn(d, e, Claimed(d, p))
  BY <1>4 DEF EntryIs, Edits, LikeOn
<1>6. SteadyEntry(d, e, At(d, p))
  BY <1>4, <1>5, KeepsEntry DEF EntryIs, Edits, LaidOut, Claimed
<1>7. Claimed(e, p) = Claimed(d, p)
  BY <1>3, <1>6 DEF SteadyEntry, Claimed
<1> QED BY <1>3, <1>5, <1>6, <1>7

\* The parent record of every folder is left.
SameParents(d, e, folders) ==
    \A dir \in folders \ {Root} : e.data[dir].parent = d.data[dir].parent

\* A folder whose entry a change of records leaves is as sound as it was.
LEMMA EditKeepsSound ==
  ASSUME NEW d, NEW folders, NEW paths, LaidOut(d, folders, paths),
         NEW e, NEW X, Edits(d, e, folders, X), NEW folders2,
         NEW dir \in folders, dir # Root, e.data[dir].parent = d.data[dir].parent,
         d.data[dir].parent \in folders2,
         \A p \in X : ~(p \in Entries(d, d.data[dir].parent) /\ At(d, p).first = dir)
  PROVE  FolderSound(e, folders2, dir)
<1>1. FolderIs(d, folders, dir)
  BY LaidFolder
<1>2. PICK p \in Entries(d, d.data[dir].parent) : At(d, p).dir /\ At(d, p).first = dir
  BY <1>1 DEF FolderIs
<1>3. d.data[dir].parent \in folders /\ p \notin X
  BY <1>1, <1>2 DEF FolderIs
<1>4. p \in Entries(e, d.data[dir].parent) /\ At(e, p) = At(d, p)
  BY <1>3, EditLeaves
<1>5. SteadyFolder(d, e, dir) /\ e \in Disk
  BY EditedFolder DEF Edited, Edits
<1> QED BY <1>2, <1>4, <1>5, KeepsSound

\* What is used after a change.
LEMMA UsedAfter ==
  ASSUME NEW d, NEW folders, NEW c
  PROVE  c \in Used(d, folders) <=>
            \E dir \in folders : \E p \in Entries(d, dir) : c \in Claimed(d, p)
BY DEF Used

\* A volume is laid out as before when nothing that is used changes.
Leaves(d, e, folders) == Edits(d, e, folders, {}) /\ SameParents(d, e, folders)

\* Writes to what nothing uses leave the volume laid out as it was.
LEMMA Untouched ==
  ASSUME NEW d, NEW folders, NEW paths, LaidOut(d, folders, paths),
         NEW e, Leaves(d, e, folders)
  PROVE  /\ LaidOut(e, folders, paths)
         /\ Used(e, folders) = Used(d, folders)
<1>1. Edits(d, e, folders, {}) /\ SameParents(d, e, folders) /\ e \in Disk
  BY DEF Leaves, Edits
<1>2. ASSUME NEW dir \in folders, NEW p
      PROVE  p \in Entries(e, dir) <=> p \in Entries(d, dir)
  <2>1. Edited(d, e, dir, {})
    BY <1>1, EditedFolder
  <2> QED BY <2>1 DEF Edited
<1>3. ASSUME NEW dir \in folders, NEW p \in Entries(d, dir)
      PROVE  At(e, p) = At(d, p) /\ Claimed(e, p) = Claimed(d, p) /\ LikeOn(d, e, Claimed(d, p))
  BY <1>1, EditLeaves
<1> DEFINE kept == UNION {Entries(d, dir) : dir \in folders}
<1>4. ASSUME NEW dir \in folders, NEW p \in Entries(e, dir)
      PROVE  p \in kept /\ Stays(d, e, folders, folders, paths, dir, p)
  <2>1. p \in Entries(d, dir)
    BY <1>2
  <2>2. EntrySound(d, folders, paths, dir, p)
    BY <2>1 DEF LaidOut
  <2>3. At(d, p).dir => /\ At(d, p).first \in folders
                        /\ paths[At(d, p).first] = Append(paths[dir], At(d, p).name)
    BY <2>2 DEF EntrySound
  <2> QED BY <1>3, <2>1, <2>3 DEF Stays
<1>5. ASSUME NEW dir \in folders, dir # Root
      PROVE  FolderSound(e, folders, dir)
  <2>1. d.data[dir].parent \in folders
    BY <1>5, LaidFolder DEF FolderIs
  <2>2. e.data[dir].parent = d.data[dir].parent
    BY <1>1, <1>5 DEF SameParents
  <2> QED BY <1>1, <1>5, <2>1, <2>2, EditKeepsSound
<1>6. ASSUME NEW dir \in folders
      PROVE  FreeTail(e, dir)
  BY <1>1, EditedFolder DEF Edited
<1>7. Relays(d, folders, e, folders, paths, kept)
  BY <1>1, <1>4, <1>5, <1>6 DEF Relays, LaidOut
<1>8. LaidOut(e, folders, paths)
  <2> HIDE DEF kept
  <2> QED BY <1>7, Relaid
<1>9. ASSUME NEW c
      PROVE  c \in Used(e, folders) <=> c \in Used(d, folders)
  BY <1>2, <1>3, UsedAfter
<1> QED BY <1>8, <1>9

(***************************************************************************)
(* One record is deleted, or a new one is used.                            *)
(***************************************************************************)

\* The record at p in dir is marked as deleted.
Deletes(d, e, folders, dir, p) ==
    /\ dir \in folders /\ p \in Entries(d, dir)
    /\ Edits(d, e, folders, {p}) /\ SameParents(d, e, folders)
    /\ At(e, p).state = "deleted"
    /\ At(d, p).dir => Entries(d, At(d, p).first) = {}

Without(d, folders, p) == IF At(d, p).dir THEN folders \ {At(d, p).first} ELSE folders

\* The entry of a file or of an empty folder goes.
LEMMA Deleted ==
  ASSUME NEW d, NEW folders, NEW paths, LaidOut(d, folders, paths),
         NEW e, NEW dir, NEW p, Deletes(d, e, folders, dir, p)
  PROVE  /\ LaidOut(e, Without(d, folders, p), [c \in Without(d, folders, p) |-> paths[c]])
         /\ Used(e, Without(d, folders, p)) = Used(d, folders) \ Claimed(d, p)
         /\ \A c \in Without(d, folders, p) : Entries(e, c) = Entries(d, c) \ {p}
<1> DEFINE folders2 == Without(d, folders, p)
           paths2 == [c \in folders2 |-> paths[c]]
           kept == (UNION {Entries(d, c) : c \in folders}) \ {p}
<1>1. /\ dir \in folders /\ p \in Entries(d, dir) /\ e \in Disk
      /\ Edits(d, e, folders, {p}) /\ SameParents(d, e, folders)
      /\ At(e, p).state = "deleted"
      /\ At(d, p).dir => Entries(d, At(d, p).first) = {}
  BY DEF Deletes, Edits
<1>2. EntrySound(d, folders, paths, dir, p)
  BY <1>1 DEF LaidOut
<1>3. /\ folders2 \subseteq folders /\ Root \in folders2
      /\ \A c \in folders : c \notin folders2 => At(d, p).dir /\ c = At(d, p).first
  BY <1>2 DEF EntrySound, Without, LaidOut
<1> HIDE DEF folders2
<1>4. ASSUME NEW c \in folders, NEW q
      PROVE  q \in Entries(e, c) <=> q \in Entries(d, c) /\ q # p
  <2>1. Edited(d, e, c, {p})
    BY <1>1, EditedFolder
  <2> QED BY <1>1, <2>1 DEF Edited
<1>5. ASSUME NEW c \in folders, NEW q \in Entries(d, c), q # p
      PROVE  /\ At(e, q) = At(d, q) /\ Claimed(e, q) = Claimed(d, q)
             /\ LikeOn(d, e, Claimed(d, q))
  <2>1. q \notin {p}
    BY <1>5
  <2> QED BY <1>1, <2>1, EditLeaves
<1>6. ASSUME NEW c \in folders2, NEW q \in Entries(e, c)
      PROVE  q \in kept /\ Stays(d, e, folders, folders2, paths2, c, q)
  <2>1. c \in folders /\ q \in Entries(d, c) /\ q # p
    BY <1>3, <1>4
  <2>2. EntrySound(d, folders, paths, c, q)
    BY <2>1 DEF LaidOut
  <2>3. ASSUME At(d, q).dir
        PROVE  /\ At(d, q).first \in folders2
               /\ paths2[At(d, q).first] = Append(paths2[c], At(d, q).name)
    <3>1. At(d, q).first \in folders
      BY <2>2, <2>3 DEF EntrySound
    <3>2. At(d, p).dir => At(d, q).first # At(d, p).first
      BY <1>1, <2>1, <2>3, OneEntry
    <3>3. At(d, q).first \in folders2
      BY <1>3, <3>1, <3>2
    <3> QED BY <2>2, <2>3, <3>3 DEF EntrySound
  <2> QED BY <1>5, <2>1, <2>3 DEF Stays
<1>7. ASSUME NEW c \in folders2, c # Root
      PROVE  FolderSound(e, folders2, c)
  <2>1. c \in folders
    BY <1>3
  <2>2. FolderIs(d, folders, c)
    BY <1>7, <2>1, LaidFolder
  <2>3. d.data[c].parent \in folders /\ Entries(d, d.data[c].parent) # {}
    BY <2>2 DEF FolderIs
  <2>4. d.data[c].parent \in folders2
    BY <1>1, <1>3, <2>3
  <2>5. e.data[c].parent = d.data[c].parent
    BY <1>1, <1>7, <2>1 DEF SameParents
  <2>6. At(d, p).first # c
    <3> SUFFICES ASSUME At(d, p).first = c PROVE FALSE
      OBVIOUS
    <3>1. PICK a \in Entries(d, d.data[c].parent) : At(d, a).dir /\ At(d, a).first = c
      BY <2>2 DEF FolderIs
    <3>2. a = p
      BY <1>1, <2>3, <3>1, OneEntry
    <3>3. At(d, p).dir
      BY <3>1, <3>2
    <3> QED BY <1>7, <3>3 DEF folders2, Without
  <2> QED BY <1>1, <1>7, <2>1, <2>4, <2>5, <2>6, EditKeepsSound
<1>8. ASSUME NEW c \in folders2
      PROVE  FreeTail(e, c)
  <2>1. Edited(d, e, c, {p})
    BY <1>1, <1>3, EditedFolder
  <2> QED BY <2>1 DEF Edited
<1>9. /\ folders2 \subseteq 0 .. MaxCluster
      /\ paths2 \in [folders2 -> Seq(Names)] /\ paths2[Root] = <<>>
  BY <1>3 DEF LaidOut
<1>10. Relays(d, folders, e, folders2, paths2, kept)
  <2> HIDE DEF paths2, kept
  <2> QED BY <1>1, <1>3, <1>6, <1>7, <1>8, <1>9 DEF Relays
<1>11. LaidOut(e, folders2, paths2)
  <2> HIDE DEF kept, paths2
  <2> QED BY <1>10, Relaid
<1>12. \A c \in folders2 : Entries(e, c) = Entries(d, c) \ {p}
  BY <1>3, <1>4
<1>13. ASSUME NEW c
       PROVE  c \in Used(e, folders2) <=> c \in Used(d, folders) /\ c \notin Claimed(d, p)
  <2>1. ASSUME NEW f \in folders2, NEW q \in Entries(e, f), c \in Claimed(e, q)
        PROVE  c \in Used(d, folders) /\ c \notin Claimed(d, p)
    <3>1. f \in folders /\ q \in Entries(d, f) /\ q # p
      BY <1>3, <1>4
    <3>2. c \in Claimed(d, q)
      BY <1>5, <2>1, <3>1
    <3>3. Claimed(d, q) \cap Claimed(d, p) = {}
      BY <1>1, <3>1, LaidApart
    <3> QED BY <3>1, <3>2, <3>3, ClaimedUsed
  <2>2. ASSUME NEW f \in folders, NEW q \in Entries(d, f), c \in Claimed(d, q),
               c \notin Claimed(d, p)
        PROVE  c \in Used(e, folders2)
    <3>1. q # p
      BY <2>2
    <3>2. f \in folders2
      BY <1>1, <1>3, <2>2
    <3>3. q \in Entries(e, f) /\ c \in Claimed(e, q)
      BY <1>4, <1>5, <2>2, <3>1
    <3> QED BY <3>2, <3>3, UsedAfter
  <2> QED BY <2>1, <2>2, UsedAfter
<1> QED BY <1>11, <1>12, <1>13 DEF folders2

\* A record at q in dir is used for a new entry; a new folder is empty.
Inserts(d, e, folders, paths, dir, q, folders2, paths2) ==
    /\ dir \in folders /\ q \in ToSet(Places(d, dir)) /\ At(d, q).state # "live"
    /\ Edits(d, e, folders, {q}) /\ SameParents(d, e, folders)
    /\ At(e, q).state = "live"
    /\ folders \subseteq folders2 /\ folders2 \subseteq 0 .. MaxCluster
    /\ paths2 \in [folders2 -> Seq(Names)]
    /\ \A c \in folders : paths2[c] = paths[c]
    /\ \A c \in folders2 \ folders :
          FolderSound(e, folders2, c) /\ FreeTail(e, c) /\ Entries(e, c) = {}
    /\ EntrySound(e, folders2, paths2, dir, q)
    /\ Claimed(e, q) \cap Used(d, folders) = {}
    /\ \A p \in Entries(d, dir) : At(d, p).name # At(e, q).name

\* A new record in a place that was free makes one more entry: the volume is laid
\* out, and the entry's clusters are used besides.
LEMMA Inserted ==
  ASSUME NEW d, NEW folders, NEW paths, LaidOut(d, folders, paths),
         NEW e, NEW dir, NEW q, NEW folders2, NEW paths2,
         Inserts(d, e, folders, paths, dir, q, folders2, paths2)
  PROVE  /\ LaidOut(e, folders2, paths2)
         /\ Used(e, folders2) = Used(d, folders) \cup Claimed(e, q)
         /\ \A c \in folders : Entries(e, c) = IF c = dir THEN Entries(d, c) \cup {q}
                                               ELSE Entries(d, c)
<1> DEFINE kept == UNION {Entries(d, c) : c \in folders}
<1>1. /\ dir \in folders /\ q \in ToSet(Places(d, dir)) /\ At(d, q).state # "live"
      /\ Edits(d, e, folders, {q}) /\ SameParents(d, e, folders) /\ e \in Disk
      /\ At(e, q).state = "live"
      /\ folders \subseteq folders2 /\ folders2 \subseteq 0 .. MaxCluster
      /\ paths2 \in [folders2 -> Seq(Names)]
      /\ \A c \in folders : paths2[c] = paths[c]
      /\ \A c \in folders2 \ folders :
            FolderSound(e, folders2, c) /\ FreeTail(e, c) /\ Entries(e, c) = {}
      /\ EntrySound(e, folders2, paths2, dir, q)
      /\ Claimed(e, q) \cap Used(d, folders) = {}
      /\ \A p \in Entries(d, dir) : At(d, p).name # At(e, q).name
  BY DEF Inserts, Edits
<1>2. \A c \in folders : q \notin Entries(d, c)
  BY <1>1, LaidPlaces
<1>3. \A c \in folders : q \in ToSet(Places(d, c)) => c = dir
  BY <1>1, OneFolder
<1>4. ASSUME NEW c \in folders, NEW p
      PROVE  p \in Entries(e, c) <=> p \in Entries(d, c) \/ (p = q /\ c = dir)
  <2>1. Edited(d, e, c, {q})
    BY <1>1, EditedFolder
  <2> QED BY <1>1, <1>2, <1>3, <2>1 DEF Edited
<1>5. ASSUME NEW c \in folders, NEW p \in Entries(d, c)
      PROVE  /\ At(e, p) = At(d, p) /\ Claimed(e, p) = Claimed(d, p)
             /\ LikeOn(d, e, Claimed(d, p)) /\ Claimed(d, p) \subseteq Used(d, folders)
  <2>1. p \notin {q}
    BY <1>2
  <2> QED BY <1>1, <2>1, EditLeaves, ClaimedUsed
<1>6. ASSUME NEW c \in folders2, NEW p \in Entries(e, c)
      PROVE  c \in folders /\ (p \in Entries(d, c) \/ (p = q /\ c = dir))
  BY <1>1, <1>4
<1>7. ASSUME NEW c \in folders2, NEW p \in Entries(e, c)
      PROVE  IF p \in kept THEN Stays(d, e, folders, folders2, paths2, c, p)
             ELSE Comes(e, folders2, paths2, c, p)
  <2>1. CASE p # q
    <3>1. c \in folders /\ p \in Entries(d, c)
      BY <1>6, <2>1
    <3>2. EntrySound(d, folders, paths, c, p)
      BY <3>1 DEF LaidOut
    <3>3. At(d, p).dir => /\ At(d, p).first \in folders2
                          /\ paths2[At(d, p).first] = Append(paths2[c], At(d, p).name)
      BY <1>1, <3>1, <3>2 DEF EntrySound
    <3> QED BY <1>5, <3>1, <3>3 DEF Stays
  <2>2. CASE p = q
    <3>1. p \notin kept
      BY <1>2, <2>2
    <3>2. c = dir
      BY <1>2, <1>6, <2>2
    <3>3. ASSUME NEW f \in folders2, NEW a \in Entries(e, f), a # q
          PROVE  /\ Claimed(e, q) \cap Claimed(e, a) = {}
                 /\ dir = f => At(e, q).name # At(e, a).name
      <4>1. f \in folders /\ a \in Entries(d, f)
        BY <1>6, <3>3
      <4> QED BY <1>1, <1>5, <4>1
    <3>4. AwayFrom(e, folders2, dir, q)
      BY <3>3 DEF AwayFrom
    <3> QED BY <1>1, <2>2, <3>1, <3>2, <3>4 DEF Comes
  <2> QED BY <2>1, <2>2
<1>8. ASSUME NEW c \in folders2, c # Root
      PROVE  FolderSound(e, folders2, c)
  <2>1. CASE c \in folders
    <3>1. d.data[c].parent \in folders
      BY <1>8, <2>1, LaidFolder DEF FolderIs
    <3>2. e.data[c].parent = d.data[c].parent
      BY <1>1, <1>8, <2>1 DEF SameParents
    <3>3. \A p \in {q} : ~(p \in Entries(d, d.data[c].parent) /\ At(d, p).first = c)
      BY <1>2, <3>1
    <3>4. Edits(d, e, folders, {q}) /\ d.data[c].parent \in folders2
      BY <1>1, <3>1
    <3> QED BY <1>8, <2>1, <3>2, <3>3, <3>4, EditKeepsSound
  <2>2. CASE c \notin folders
    BY <1>1, <2>2
  <2> QED BY <2>1, <2>2
<1>9. ASSUME NEW c \in folders2
      PROVE  FreeTail(e, c)
  <2>1. CASE c \in folders
    <3>1. Edited(d, e, c, {q})
      BY <1>1, <2>1, EditedFolder
    <3> QED BY <3>1 DEF Edited
  <2>2. CASE c \notin folders
    BY <1>1, <2>2
  <2> QED BY <2>1, <2>2
<1>10. Root \in folders2 /\ paths2[Root] = <<>>
  BY <1>1 DEF LaidOut
<1>11. Relays(d, folders, e, folders2, paths2, kept)
  <2> HIDE DEF kept
  <2> QED BY <1>1, <1>7, <1>8, <1>9, <1>10 DEF Relays
<1>12. LaidOut(e, folders2, paths2)
  <2> HIDE DEF kept
  <2> QED BY <1>11, Relaid
<1>13. \A c \in folders : Entries(e, c) = IF c = dir THEN Entries(d, c) \cup {q} ELSE Entries(d, c)
  BY <1>4
<1>14. ASSUME NEW c
       PROVE  c \in Used(e, folders2) <=> c \in Used(d, folders) \/ c \in Claimed(e, q)
  <2>1. ASSUME NEW f \in folders2, NEW p \in Entries(e, f), c \in Claimed(e, p)
        PROVE  c \in Used(d, folders) \/ c \in Claimed(e, q)
    <3>1. f \in folders /\ (p \in Entries(d, f) \/ p = q)
      BY <1>6
    <3> QED BY <1>5, <2>1, <3>1
  <2>2. ASSUME NEW f \in folders, NEW p \in Entries(d, f), c \in Claimed(d, p)
        PROVE  c \in Used(e, folders2)
    <3>1. f \in folders2 /\ p \in Entries(e, f) /\ c \in Claimed(e, p)
      BY <1>1, <1>4, <1>5, <2>2
    <3> QED BY <3>1, UsedAfter
  <2>3. ASSUME c \in Claimed(e, q)
        PROVE  c \in Used(e, folders2)
    <3>1. dir \in folders2 /\ q \in Entries(e, dir)
      BY <1>1, <1>4
    <3> QED BY <2>3, <3>1, UsedAfter
  <2> QED BY <2>1, <2>2, <2>3, UsedAfter
<1> QED BY <1>12, <1>13, <1>14

(***************************************************************************)
(* The paths of folders, and the objects of a laid out volume.             *)
(***************************************************************************)

\* A path that is one name longer than another.
LEMMA AppendLast ==
  ASSUME NEW S, NEW s \in Seq(S), NEW a \in S
  PROVE  /\ Append(s, a) \in Seq(S) /\ Len(Append(s, a)) = Len(s) + 1 /\ Append(s, a) # <<>>
         /\ Front(Append(s, a)) = s /\ Last(Append(s, a)) = a
<1>1. /\ Append(s, a) \in Seq(S) /\ Len(Append(s, a)) = Len(s) + 1 /\ Append(s, a) # <<>>
      /\ Append(s, a)[Len(s) + 1] = a
  OBVIOUS
<1>2. Front(Append(s, a)) = s
  <2>1. Front(Append(s, a)) = SubSeq(Append(s, a), 1, Len(s))
    BY <1>1 DEF Front
  <2>2. Len(s) \in Nat /\ \A i \in 1 .. Len(s) : Append(s, a)[i] = s[i]
    OBVIOUS
  <2>3. SubSeq(Append(s, a), 1, Len(s)) = s
    BY <1>1, <2>2
  <2> QED BY <2>1, <2>3
<1>3. Last(Append(s, a)) = a
  BY <1>1 DEF Last
<1> QED BY <1>1, <1>2, <1>3

\* A path that is not empty is its front and its last name.
LEMMA FrontAndLast ==
  ASSUME NEW S, NEW s \in Seq(S), s # <<>>
  PROVE  /\ Front(s) \in Seq(S) /\ Last(s) \in S /\ s = Append(Front(s), Last(s))
         /\ Len(Front(s)) = Len(s) - 1
<1>1. PICK m \in Nat : Len(s) = m + 1
  <2>1. Len(s) \in Nat /\ Len(s) > 0
    OBVIOUS
  <2>2. Len(s) - 1 \in Nat /\ Len(s) = (Len(s) - 1) + 1
    BY <2>1
  <2> QED BY <2>2
<1>2. \A i \in 1 .. m + 1 : s[i] \in S
  BY <1>1
<1>3. Front(s) = [i \in 1 .. m |-> s[i]]
  BY <1>1 DEF Front
<1>4. Last(s) = s[m + 1]
  BY <1>1 DEF Last
<1>5. Front(s) \in Seq(S) /\ Len(Front(s)) = m /\ \A i \in 1 .. m : Front(s)[i] = s[i]
  BY <1>2, <1>3
<1>6. Last(s) \in S
  BY <1>2, <1>4
<1>7. s = Append(Front(s), Last(s))
  <2> DEFINE t == Append(Front(s), Last(s))
  <2>1. t \in Seq(S) /\ Len(t) = m + 1 /\ t[m + 1] = Last(s)
        /\ \A i \in 1 .. m : t[i] = Front(s)[i]
    BY <1>5, <1>6
  <2> HIDE DEF t
  <2>2. ASSUME NEW i \in 1 .. m + 1
        PROVE  s[i] = t[i]
    <3>1. CASE i = m + 1
      BY <1>4, <2>1, <3>1
    <3>2. CASE i # m + 1
      <4>1. i \in 1 .. m
        BY <3>2
      <4>2. t[i] = Front(s)[i]
        BY <2>1, <4>1
      <4>3. Front(s)[i] = s[i]
        BY <1>5, <4>1
      <4> QED BY <4>2, <4>3
    <3> QED BY <3>1, <3>2
  <2>3. s = t
    BY <1>1, <2>1, <2>2, SameList
  <2> QED BY <2>3 DEF t
<1> QED BY <1>1, <1>5, <1>6, <1>7

\* The folder a folder is in, and its name there.
HasParent(d, folders, paths, dir) ==
    \E above \in folders : \E p \in Entries(d, above) :
        /\ above = d.data[dir].parent
        /\ At(d, p).dir /\ At(d, p).first = dir /\ At(d, p).name \in Names
        /\ paths[above] \in Seq(Names)
        /\ paths[dir] = Append(paths[above], At(d, p).name)
        /\ Len(paths[dir]) = Len(paths[above]) + 1

\* Every folder but the root is an entry of the folder its ".." names.
LEMMA FolderPath ==
  ASSUME NEW d, NEW folders, NEW paths, LaidOut(d, folders, paths), NEW dir \in folders, dir # Root
  PROVE  HasParent(d, folders, paths, dir)
<1> DEFINE above == d.data[dir].parent
<1>1. above \in folders
  BY LaidFolder DEF FolderIs
<1>2. PICK p \in Entries(d, above) : At(d, p).dir /\ At(d, p).first = dir
  BY LaidFolder DEF FolderIs
<1>3. EntrySound(d, folders, paths, above, p)
  BY <1>1, <1>2 DEF LaidOut
<1>4. At(d, p).name \in Names /\ paths[dir] = Append(paths[above], At(d, p).name)
  BY <1>2, <1>3 DEF EntrySound
<1>5. paths[above] \in Seq(Names)
  BY <1>1 DEF LaidOut
<1>6. Len(paths[dir]) = Len(paths[above]) + 1
  BY <1>4, <1>5, AppendLast
<1> QED BY <1>1, <1>2, <1>4, <1>5, <1>6 DEF HasParent

\* No two folders have one path.
LEMMA PathsDiffer ==
  ASSUME NEW d, NEW folders, NEW paths, LaidOut(d, folders, paths),
         NEW one \in folders, NEW two \in folders, paths[one] = paths[two]
  PROVE  one = two
<1> DEFINE T == {k \in Nat : \A a, b \in folders :
                     Len(paths[a]) = k /\ paths[a] = paths[b] => a = b}
<1>1. \A c \in folders : paths[c] \in Seq(Names) /\ Len(paths[c]) \in Nat
  BY DEF LaidOut
<1>2. paths[Root] = <<>>
  BY DEF LaidOut
<1>3. ASSUME NEW c \in folders, c # Root
      PROVE  Len(paths[c]) > 0
  <2>1. HasParent(d, folders, paths, c)
    BY <1>3, FolderPath
  <2> QED BY <1>1, <2>1 DEF HasParent
<1>4. 0 \in T
  <2>1. ASSUME NEW a \in folders, Len(paths[a]) = 0
        PROVE  a = Root
    BY <1>3, <2>1
  <2> QED BY <2>1
<1>5. ASSUME NEW k \in Nat, k \in T
      PROVE  k + 1 \in T
  <2>1. ASSUME NEW a \in folders, NEW b \in folders, Len(paths[a]) = k + 1, paths[a] = paths[b]
        PROVE  a = b
    <3>1. a # Root /\ b # Root
      BY <1>2, <2>1
    <3>2. HasParent(d, folders, paths, a) /\ HasParent(d, folders, paths, b)
      <4>1. HasParent(d, folders, paths, a)
        BY <3>1, FolderPath
      <4>2. HasParent(d, folders, paths, b)
        BY <3>1, FolderPath
      <4> QED BY <4>1, <4>2
    <3>3. PICK a2 \in folders : \E p \in Entries(d, a2) :
             /\ At(d, p).dir /\ At(d, p).first = a /\ At(d, p).name \in Names
             /\ paths[a2] \in Seq(Names)
             /\ paths[a] = Append(paths[a2], At(d, p).name)
             /\ Len(paths[a]) = Len(paths[a2]) + 1
      BY <3>2 DEF HasParent
    <3>4. PICK p \in Entries(d, a2) :
             /\ At(d, p).dir /\ At(d, p).first = a /\ At(d, p).name \in Names
             /\ paths[a2] \in Seq(Names)
             /\ paths[a] = Append(paths[a2], At(d, p).name)
             /\ Len(paths[a]) = Len(paths[a2]) + 1
      BY <3>3
    <3>5. PICK b2 \in folders : \E q \in Entries(d, b2) :
             /\ At(d, q).dir /\ At(d, q).first = b /\ At(d, q).name \in Names
             /\ paths[b2] \in Seq(Names)
             /\ paths[b] = Append(paths[b2], At(d, q).name)
      BY <3>2 DEF HasParent
    <3>6. PICK q \in Entries(d, b2) :
             /\ At(d, q).dir /\ At(d, q).first = b /\ At(d, q).name \in Names
             /\ paths[b2] \in Seq(Names)
             /\ paths[b] = Append(paths[b2], At(d, q).name)
      BY <3>5
    <3>7. paths[a2] = paths[b2] /\ At(d, p).name = At(d, q).name
      <4>1. Front(paths[a]) = paths[a2] /\ Last(paths[a]) = At(d, p).name
        BY <3>4, AppendLast
      <4>2. Front(paths[b]) = paths[b2] /\ Last(paths[b]) = At(d, q).name
        BY <3>6, AppendLast
      <4> QED BY <2>1, <4>1, <4>2
    <3>8. Len(paths[a2]) = k
      BY <1>1, <2>1, <3>4
    <3>9. a2 = b2
      BY <1>5, <3>7, <3>8
    <3>10. p = q
      BY <3>4, <3>6, <3>7, <3>9, LaidApart
    <3> QED BY <3>4, <3>6, <3>10
  <2> QED BY <2>1
<1> HIDE DEF T
<1>6. Nat \subseteq T
  BY <1>4, <1>5, Always
<1> QED BY <1>1, <1>6 DEF T

\* Folders are not deeper than there are clusters.
LEMMA PathsShort ==
  ASSUME NEW d, NEW folders, NEW paths, LaidOut(d, folders, paths), NEW dir \in folders
  PROVE  Len(paths[dir]) \in 0 .. MaxCluster
<1> DEFINE m == Len(paths[dir])
           T == {k \in 0 .. m : \E c \in folders : Len(paths[c]) = m - k}
<1>1. \A c \in folders : Len(paths[c]) \in Nat
  BY DEF LaidOut
<1>2. paths[Root] = <<>> /\ folders \subseteq 0 .. MaxCluster /\ MaxCluster \in Nat
  BY SizeAssumption DEF LaidOut
<1>3. m \in Nat
  BY <1>1
<1>4. 0 \in T
  BY <1>3
<1>5. ASSUME NEW k \in 0 .. m - 1, k \in T
      PROVE  k + 1 \in T
  <2>1. PICK c \in folders : Len(paths[c]) = m - k
    BY <1>5
  <2> HIDE DEF m
  <2>2. Len(paths[c]) # 0 /\ m - k - 1 = m - (k + 1) /\ k + 1 \in 0 .. m
    BY <1>3, <2>1
  <2>3. c # Root
    BY <1>2, <2>2
  <2>4. HasParent(d, folders, paths, c)
    BY <2>3, FolderPath
  <2>5. PICK a \in folders : Len(paths[c]) = Len(paths[a]) + 1
    BY <2>4 DEF HasParent
  <2>6. Len(paths[a]) = m - (k + 1)
    BY <1>1, <1>3, <2>1, <2>5
  <2> QED BY <2>2, <2>6
<1> HIDE DEF T, m
<1>6. 0 .. m \subseteq T
  BY <1>3, <1>4, <1>5, UpTo
<1>7. ASSUME NEW j \in 0 .. m
      PROVE  \E c \in folders : Len(paths[c]) = j
  <2>1. m - j \in T
    BY <1>3, <1>6
  <2>2. PICK c \in folders : Len(paths[c]) = m - (m - j)
    BY <2>1 DEF T
  <2> QED BY <1>3, <2>2
<1>8. m <= MaxCluster
  <2> SUFFICES ASSUME m > MaxCluster PROVE FALSE
    BY <1>2, <1>3
  <2> DEFINE f == [j \in 0 .. m |-> CHOOSE c \in folders : Len(paths[c]) = j]
  <2>1. \A j \in 0 .. m : f[j] \in folders /\ Len(paths[f[j]]) = j
    BY <1>7
  <2>2. f \in [0 .. m -> 0 .. MaxCluster]
    BY <1>2, <2>1
  <2> HIDE DEF f
  <2>3. IsFiniteSet(0 .. m) /\ Cardinality(0 .. m) = m + 1
    BY <1>3, FS_Interval
  <2>4. IsFiniteSet(0 .. MaxCluster) /\ Cardinality(0 .. MaxCluster) = MaxCluster + 1
    BY <1>2, FS_Interval
  <2>5. Cardinality(0 .. MaxCluster) < Cardinality(0 .. m)
    BY <1>2, <1>3, <2>3, <2>4
  <2>6. \E i, j \in 0 .. m : i # j /\ f[i] = f[j]
    BY <2>2, <2>3, <2>4, <2>5, FS_PigeonHole
  <2> QED BY <2>1, <2>6
<1> QED BY <1>2, <1>3, <1>8 DEF m

\* An object: an entry and the path it has.
Obj(d, paths, dir, p) ==
    [path |-> Append(paths[dir], At(d, p).name), place |-> p, entry |-> At(d, p)]
AtDepth(d, folders, paths, n) ==
    UNION {{Obj(d, paths, dir, p) : p \in Entries(d, dir)} :
              dir \in {dir \in folders : Len(paths[dir]) = n}}

\* The objects of a volume are the entries of its folders.
LEMMA ObjectsAre ==
  ASSUME NEW d, NEW folders, NEW paths, LaidOut(d, folders, paths)
  PROVE  \A o : o \in Objects(d) <=>
             \E dir \in folders : \E p \in Entries(d, dir) : o = Obj(d, paths, dir, p)
<1> DEFINE inside(path, dir) ==
             {[path |-> Append(path, At(d, p).name), place |-> p, entry |-> At(d, p)] :
                 p \in Entries(d, dir)}
           below(objects) ==
             UNION {inside(o.path, o.entry.first) : o \in {o \in objects : o.entry.dir}}
           Levels(g) == g = [n \in 0 .. MaxCluster |->
                               IF n = 0 THEN inside(<<>>, Root) ELSE below(g[n - 1])]
           level == CHOOSE g : Levels(g)
           f == [n \in 0 .. MaxCluster |-> AtDepth(d, folders, paths, n)]
<1>1. MaxCluster \in Nat /\ \A c \in folders : paths[c] \in Seq(Names) /\ Len(paths[c]) \in Nat
  BY SizeAssumption DEF LaidOut
<1>2. Root \in folders /\ paths[Root] = <<>>
  BY DEF LaidOut
<1>3. \A c \in folders : inside(paths[c], c) = {Obj(d, paths, c, p) : p \in Entries(d, c)}
  BY DEF Obj
<1>4. Objects(d) = UNION {level[n] : n \in 0 .. MaxCluster}
  BY DEF Objects
<1> HIDE DEF inside
<1>5. ASSUME NEW c \in folders, c # Root
      PROVE  \E a \in folders : \E p \in Entries(d, a) :
                /\ At(d, p).dir /\ At(d, p).first = c
                /\ paths[c] = Append(paths[a], At(d, p).name)
                /\ Len(paths[c]) = Len(paths[a]) + 1
  <2>1. HasParent(d, folders, paths, c)
    BY <1>5, FolderPath
  <2> QED BY <2>1 DEF HasParent
<1>6. AtDepth(d, folders, paths, 0) = inside(<<>>, Root)
  <2>1. \A c \in folders : Len(paths[c]) = 0 <=> c = Root
    BY <1>1, <1>2, <1>5
  <2>2. {c \in folders : Len(paths[c]) = 0} = {Root}
    BY <1>2, <2>1
  <2> QED BY <1>2, <1>3, <2>2 DEF AtDepth
<1>7. ASSUME NEW n \in 1 .. MaxCluster
      PROVE  AtDepth(d, folders, paths, n) = below(AtDepth(d, folders, paths, n - 1))
  <2>1. ASSUME NEW c \in folders, Len(paths[c]) = n
        PROVE  \E o \in AtDepth(d, folders, paths, n - 1) :
                  o.entry.dir /\ o.entry.first = c /\ o.path = paths[c]
    <3>1. c # Root
      BY <1>2, <2>1
    <3>2. PICK a \in folders : \E p \in Entries(d, a) :
             /\ At(d, p).dir /\ At(d, p).first = c
             /\ paths[c] = Append(paths[a], At(d, p).name)
             /\ Len(paths[c]) = Len(paths[a]) + 1
      BY <1>5, <3>1
    <3>3. PICK p \in Entries(d, a) :
             /\ At(d, p).dir /\ At(d, p).first = c
             /\ paths[c] = Append(paths[a], At(d, p).name)
             /\ Len(paths[c]) = Len(paths[a]) + 1
      BY <3>2
    <3>4. Len(paths[a]) = n - 1
      BY <1>1, <2>1, <3>3
    <3>5. Obj(d, paths, a, p) \in AtDepth(d, folders, paths, n - 1)
      BY <3>4 DEF AtDepth
    <3>6. /\ Obj(d, paths, a, p).entry = At(d, p)
          /\ Obj(d, paths, a, p).path = Append(paths[a], At(d, p).name)
      BY DEF Obj
    <3> QED BY <3>3, <3>5, <3>6
  <2>2. ASSUME NEW o \in AtDepth(d, folders, paths, n - 1), o.entry.dir
        PROVE  /\ o.entry.first \in folders /\ o.path = paths[o.entry.first]
               /\ Len(paths[o.entry.first]) = n
    <3>1. PICK a \in folders : Len(paths[a]) = n - 1
                              /\ \E p \in Entries(d, a) : o = Obj(d, paths, a, p)
      BY <2>2 DEF AtDepth
    <3>2. PICK p \in Entries(d, a) : o = Obj(d, paths, a, p)
      BY <3>1
    <3>3. o.entry = At(d, p) /\ o.path = Append(paths[a], At(d, p).name)
      BY <3>2 DEF Obj
    <3>4. EntrySound(d, folders, paths, a, p)
      BY DEF LaidOut
    <3>5. /\ At(d, p).first \in folders /\ At(d, p).name \in Names
          /\ paths[At(d, p).first] = Append(paths[a], At(d, p).name)
      BY <2>2, <3>3, <3>4 DEF EntrySound
    <3>6. Len(Append(paths[a], At(d, p).name)) = Len(paths[a]) + 1
      BY <1>1, <3>5, AppendLast
    <3>7. n \in Int
      OBVIOUS
    <3> QED BY <3>1, <3>3, <3>5, <3>6, <3>7
  <2>3. \A x : x \in AtDepth(d, folders, paths, n) <=>
            \E c \in folders : Len(paths[c]) = n /\ x \in inside(paths[c], c)
    <3>1. \A x : x \in AtDepth(d, folders, paths, n) <=>
              \E c \in folders : Len(paths[c]) = n
                  /\ x \in {Obj(d, paths, c, p) : p \in Entries(d, c)}
      BY DEF AtDepth
    <3> QED BY <1>3, <3>1
  <2>4. \A x : x \in below(AtDepth(d, folders, paths, n - 1)) <=>
            \E o \in AtDepth(d, folders, paths, n - 1) :
                o.entry.dir /\ x \in inside(o.path, o.entry.first)
    OBVIOUS
  <2> QED BY <2>1, <2>2, <2>3, <2>4
<1> HIDE DEF below
<1>8. Levels(f)
  <2>1. \A n \in 0 .. MaxCluster : f[n] = IF n = 0 THEN inside(<<>>, Root) ELSE below(f[n - 1])
    <3>1. \A n \in 0 .. MaxCluster : n = 0 \/ (n \in 1 .. MaxCluster /\ n - 1 \in 0 .. MaxCluster)
      BY <1>1
    <3> QED BY <1>6, <1>7, <3>1
  <2> QED BY <2>1
<1>9. Levels(level)
  <2> HIDE DEF Levels, f
  <2> QED BY <1>8
<1> HIDE DEF level
<1>10. \A n \in 0 .. MaxCluster : level[n] = f[n]
  <2> DEFINE T == {n \in 0 .. MaxCluster : level[n] = f[n]}
  <2>1. level[0] = inside(<<>>, Root) /\ f[0] = inside(<<>>, Root)
    BY <1>1, <1>6, <1>9
  <2>2. \A n \in 1 .. MaxCluster : level[n] = below(level[n - 1]) /\ f[n] = below(f[n - 1])
    <3>1. \A n \in 1 .. MaxCluster : n \in 0 .. MaxCluster /\ n # 0 /\ n - 1 \in 0 .. MaxCluster
      BY <1>1
    <3> QED BY <1>7, <1>9, <3>1
  <2> HIDE DEF f
  <2>3. 0 \in T
    BY <1>1, <2>1
  <2>4. ASSUME NEW k \in 0 .. MaxCluster - 1, k \in T
        PROVE  k + 1 \in T
    <3>1. k + 1 \in 1 .. MaxCluster /\ (k + 1) - 1 = k /\ k + 1 \in 0 .. MaxCluster
      BY <1>1
    <3>2. level[k + 1] = below(level[k]) /\ f[k + 1] = below(f[k])
      BY <2>2, <3>1
    <3> QED BY <2>4, <3>1, <3>2
  <2> HIDE DEF T
  <2>5. 0 .. MaxCluster \subseteq T
    BY <1>1, <2>3, <2>4, UpTo
  <2> QED BY <2>5 DEF T
<1>11. \A n \in 0 .. MaxCluster : level[n] = AtDepth(d, folders, paths, n)
  BY <1>10
<1>12. \A c \in folders : Len(paths[c]) \in 0 .. MaxCluster
  BY PathsShort
<1> QED BY <1>4, <1>11, <1>12 DEF AtDepth

(***************************************************************************)
(* A laid out volume passes validate() but for the copies of the FAT and   *)
(* lost clusters, its files are whole and its parent records true.         *)
(***************************************************************************)

\* A folder is in the directory its parent record names.
LEMMA ParentIs ==
  ASSUME NEW d, NEW folders, NEW paths, LaidOut(d, folders, paths),
         NEW dir \in folders, NEW p \in Entries(d, dir), At(d, p).dir
  PROVE  /\ At(d, p).first \in folders /\ At(d, p).first # Root
         /\ d.data[At(d, p).first].parent = dir
         /\ paths[At(d, p).first] = Append(paths[dir], At(d, p).name)
<1> DEFINE c == At(d, p).first
<1>1. EntrySound(d, folders, paths, dir, p)
  BY DEF LaidOut
<1>2. c \in folders /\ c # Root /\ paths[c] = Append(paths[dir], At(d, p).name)
  BY <1>1 DEF EntrySound
<1>3. FolderIs(d, folders, c)
  BY <1>2, LaidFolder
<1>4. PICK a \in Entries(d, d.data[c].parent) : At(d, a).dir /\ At(d, a).first = c
  BY <1>3 DEF FolderIs
<1>5. d.data[c].parent \in folders
  BY <1>3 DEF FolderIs
<1>6. a = p
  BY <1>4, <1>5, OneEntry
<1>7. p \in ToSet(Places(d, dir)) /\ p \in ToSet(Places(d, d.data[c].parent))
  <2>1. p \in ToSet(Places(d, dir))
    BY LaidPlaces
  <2>2. p \in ToSet(Places(d, d.data[c].parent))
    BY <1>4, <1>5, <1>6, LaidPlaces
  <2> QED BY <2>1, <2>2
<1>8. d.data[c].parent = dir
  BY <1>5, <1>7, OneFolder
<1> QED BY <1>2, <1>8

\* Where an object is decides what it is.
LEMMA ObjectPlace ==
  ASSUME NEW d, NEW folders, NEW paths, LaidOut(d, folders, paths),
         NEW dir \in folders, NEW other \in folders, NEW p, p \in Entries(d, dir),
         p \in Entries(d, other)
  PROVE  dir = other
<1>1. p \in ToSet(Places(d, dir))
  BY LaidPlaces
<1>2. p \in ToSet(Places(d, other))
  BY LaidPlaces
<1> QED BY <1>1, <1>2, OneFolder

\* The path of an object decides which it is: no two objects have one path.
LEMMA OnePath ==
  ASSUME NEW d, NEW folders, NEW paths, LaidOut(d, folders, paths),
         NEW dir \in folders, NEW p \in Entries(d, dir),
         NEW other \in folders, NEW q \in Entries(d, other),
         Append(paths[dir], At(d, p).name) = Append(paths[other], At(d, q).name)
  PROVE  dir = other /\ p = q
<1>1. paths[dir] \in Seq(Names) /\ paths[other] \in Seq(Names)
  BY DEF LaidOut
<1>2. At(d, p).name \in Names
  BY LaidEntry DEF EntryIs
<1>3. At(d, q).name \in Names
  BY LaidEntry DEF EntryIs
<1>4. /\ Front(Append(paths[dir], At(d, p).name)) = paths[dir]
      /\ Last(Append(paths[dir], At(d, p).name)) = At(d, p).name
  BY <1>1, <1>2, AppendLast
<1>5. /\ Front(Append(paths[other], At(d, q).name)) = paths[other]
      /\ Last(Append(paths[other], At(d, q).name)) = At(d, q).name
  BY <1>1, <1>3, AppendLast
<1>6. paths[dir] = paths[other] /\ At(d, p).name = At(d, q).name
  BY <1>4, <1>5
<1>7. dir = other
  BY <1>6, PathsDiffer
<1> QED BY <1>6, <1>7, LaidApart

\* The path of an object, and its parts.
LEMMA ObjParts ==
  ASSUME NEW d, NEW folders, NEW paths, LaidOut(d, folders, paths),
         NEW dir \in folders, NEW p \in Entries(d, dir)
  PROVE  /\ Obj(d, paths, dir, p).path = Append(paths[dir], At(d, p).name)
         /\ Obj(d, paths, dir, p).entry = At(d, p) /\ Obj(d, paths, dir, p).place = p
         /\ Append(paths[dir], At(d, p).name) \in Seq(Names)
         /\ Front(Append(paths[dir], At(d, p).name)) = paths[dir]
         /\ Last(Append(paths[dir], At(d, p).name)) = At(d, p).name
<1>1. paths[dir] \in Seq(Names) /\ At(d, p).name \in Names
  BY LaidEntry DEF LaidOut, EntryIs
<1> QED BY <1>1, AppendLast DEF Obj

\* What the walk of the volume lists is an entry of one of its folders.
LEMMA ObjectIs ==
  ASSUME NEW d, NEW folders, NEW paths, LaidOut(d, folders, paths), NEW o \in Objects(d)
  PROVE  \E dir \in folders : \E p \in Entries(d, dir) :
            /\ o = Obj(d, paths, dir, p) /\ o.path = Append(paths[dir], At(d, p).name)
            /\ o.entry = At(d, p) /\ o.place = p
<1>1. PICK dir \in folders : \E p \in Entries(d, dir) : o = Obj(d, paths, dir, p)
  BY ObjectsAre
<1>2. PICK p \in Entries(d, dir) : o = Obj(d, paths, dir, p)
  BY <1>1
<1> QED BY <1>2, ObjParts

\* Every entry of a folder is listed by the walk of the volume.
LEMMA ObjectOf ==
  ASSUME NEW d, NEW folders, NEW paths, LaidOut(d, folders, paths),
         NEW dir \in folders, NEW p \in Entries(d, dir)
  PROVE  Obj(d, paths, dir, p) \in Objects(d)
BY ObjectsAre

\* A file of a laid out volume.
LEMMA LaidFile ==
  ASSUME NEW d, NEW folders, NEW paths, LaidOut(d, folders, paths),
         NEW dir \in folders, NEW p \in Entries(d, dir), ~ At(d, p).dir
  PROVE  FileSound(d, At(d, p))
<1>1. EntrySound(d, folders, paths, dir, p)
  BY DEF LaidOut
<1> QED BY <1>1 DEF EntrySound

\* A chain that ends is sound: the check of a volume finds nothing to say of it.
LEMMA ChainSound ==
  ASSUME NEW d \in Disk, NEW first, first = 0 \/ Chained(Loaded(d), first)
  PROVE  Sound(Loaded(d), first)
<1>1. CASE first = 0
  BY <1>1 DEF Sound
<1>2. CASE first # 0
  BY <1>2, ChainFound, LoadedFat DEF Chained
<1> QED BY <1>1, <1>2

\* The folders above an object begin its path.
LEMMA AppendPrefix ==
  ASSUME NEW S, NEW s \in Seq(S), NEW a \in S
  PROVE  IsPrefix(s, Append(s, a))
<1>1. Len(s) \in Nat /\ Len(Append(s, a)) = Len(s) + 1
      /\ \A i \in 1 .. Len(s) : Append(s, a)[i] = s[i]
  OBVIOUS
<1> QED BY <1>1 DEF IsPrefix

\* validate() reports no more than copies of the FAT that differ and lost clusters.
LEMMA LaidOutProblems ==
  ASSUME NEW d, NEW folders, NEW paths, LaidOut(d, folders, paths)
  PROVE  /\ Problems(d) \subseteq {"copies", "lost"}
         /\ Tidy(d, folders) => Problems(d) = {}
<1> DEFINE fat == Loaded(d)
           objects == Objects(d)
           dirs == {o \in objects : o.entry.dir}
           claims(o) == ToSet(Chain(fat, o.entry.first))
           ancestors(o) == {f.entry.first : f \in {f \in dirs : IsPrefix(f.path, o.path)}}
           dots(o) == d.data[o.entry.first]
           copies == d.fat[1] # d.fat[2]
           damaged == \E o \in objects : ~ Sound(fat, o.entry.first)
           length == \E o \in objects \ dirs : Len(Chain(fat, o.entry.first)) # o.entry.size
           shared == \E o, other \in objects : o # other /\ claims(o) \cap claims(other) # {}
           dotted == \E o \in dirs : dots(o).kind = "dir" =>
                        \/ dots(o).self # o.entry.first
                        \/ dots(o).parent \notin ancestors(o) \cup {Root}
           lost == \E c \in Clusters : fat[c] # Free /\ \A o \in objects : c \notin claims(o)
           found == [copies |-> copies, damaged |-> damaged, length |-> length,
                     shared |-> shared, dots |-> dotted, lost |-> lost]
<1>1. d \in Disk
  BY DEF LaidOut
<1>2. Problems(d) = {problem \in DOMAIN found : found[problem]}
  BY DEF Problems, Reported
<1>3. ~ damaged
  <2> SUFFICES ASSUME NEW o \in objects PROVE Sound(fat, o.entry.first)
    OBVIOUS
  <2>1. PICK dir \in folders : \E p \in Entries(d, dir) : o.entry = At(d, p)
    BY ObjectIs
  <2>2. PICK p \in Entries(d, dir) : o.entry = At(d, p)
    BY <2>1
  <2>3. At(d, p).first = 0 \/ Chained(Loaded(d), At(d, p).first)
    BY LaidEntry DEF EntryIs
  <2> QED BY <1>1, <2>2, <2>3, ChainSound
<1>4. ~ length
  <2> SUFFICES ASSUME NEW o \in objects, ~ o.entry.dir
               PROVE  Len(Chain(fat, o.entry.first)) = o.entry.size
    OBVIOUS
  <2>1. PICK dir \in folders : \E p \in Entries(d, dir) : o.entry = At(d, p)
    BY ObjectIs
  <2>2. PICK p \in Entries(d, dir) : o.entry = At(d, p)
    BY <2>1
  <2>3. FileSound(d, At(d, p))
    BY <2>2, LaidFile
  <2> QED BY <2>2, <2>3 DEF FileSound, Holds
<1>5. ~ shared
  <2> SUFFICES ASSUME NEW o \in objects, NEW other \in objects, o # other
               PROVE  claims(o) \cap claims(other) = {}
    OBVIOUS
  <2>1. PICK dir \in folders : \E p \in Entries(d, dir) : o = Obj(d, paths, dir, p)
            /\ o.entry = At(d, p)
    BY ObjectIs
  <2>2. PICK p \in Entries(d, dir) : o = Obj(d, paths, dir, p) /\ o.entry = At(d, p)
    BY <2>1
  <2>3. PICK dir2 \in folders :
           \E q \in Entries(d, dir2) : other = Obj(d, paths, dir2, q) /\ other.entry = At(d, q)
    BY ObjectIs
  <2>4. PICK q \in Entries(d, dir2) : other = Obj(d, paths, dir2, q) /\ other.entry = At(d, q)
    BY <2>3
  <2>5. p # q
    BY <2>2, <2>4, ObjectPlace
  <2>6. Claimed(d, p) \cap Claimed(d, q) = {}
    BY <2>5, LaidApart
  <2> QED BY <2>2, <2>4, <2>6 DEF Claimed
<1>6. ~ dotted
  <2> SUFFICES ASSUME NEW o \in dirs
               PROVE  /\ dots(o).kind = "dir" /\ dots(o).self = o.entry.first
                      /\ dots(o).parent \in ancestors(o) \cup {Root}
    OBVIOUS
  <2>1. PICK dir \in folders : \E p \in Entries(d, dir) :
           o.entry = At(d, p) /\ o.path = Append(paths[dir], At(d, p).name)
    BY ObjectIs
  <2>2. PICK p \in Entries(d, dir) :
           o.entry = At(d, p) /\ o.path = Append(paths[dir], At(d, p).name)
    BY <2>1
  <2>3. At(d, p).first \in folders /\ At(d, p).first # Root
        /\ d.data[At(d, p).first].parent = dir
    BY <2>2, ParentIs
  <2>4. DirChain(d, At(d, p).first) /\ d.data[At(d, p).first].self = At(d, p).first
    BY <2>3, LaidFolder DEF FolderIs
  <2>5. d.data[At(d, p).first].kind = "dir"
    BY <2>4, ChainClusters DEF DirChain
  <2>6. CASE dir = Root
    BY <2>2, <2>3, <2>4, <2>5, <2>6
  <2>7. CASE dir # Root
    <3>1. HasParent(d, folders, paths, dir)
      BY <2>7, FolderPath
    <3>2. PICK above \in folders : \E a \in Entries(d, above) :
             /\ At(d, a).dir /\ At(d, a).first = dir
             /\ paths[dir] = Append(paths[above], At(d, a).name)
      BY <3>1 DEF HasParent
    <3>3. PICK a \in Entries(d, above) :
             /\ At(d, a).dir /\ At(d, a).first = dir
             /\ paths[dir] = Append(paths[above], At(d, a).name)
      BY <3>2
    <3> DEFINE f == Obj(d, paths, above, a)
    <3>4. f \in objects /\ f.entry = At(d, a) /\ f.path = paths[dir]
      BY <3>3, ObjectOf, ObjParts
    <3>5. paths[dir] \in Seq(Names) /\ At(d, p).name \in Names
      BY LaidEntry DEF LaidOut, EntryIs
    <3>6. IsPrefix(f.path, o.path)
      BY <2>2, <3>4, <3>5, AppendPrefix
    <3> HIDE DEF f
    <3>7. f \in {g \in dirs : IsPrefix(g.path, o.path)} /\ f.entry.first = dir
      BY <3>3, <3>4, <3>6
    <3>8. dir \in ancestors(o)
      BY <3>7
    <3> QED BY <2>2, <2>3, <2>4, <2>5, <3>8
  <2> QED BY <2>6, <2>7
<1>7. ASSUME Tidy(d, folders) PROVE ~ copies /\ ~ lost
  <2>1. ~ copies
    BY <1>7 DEF Tidy
  <2>2. ASSUME NEW c \in Clusters, fat[c] # Free
        PROVE  \E o \in objects : c \in claims(o)
    <3>1. PICK dir \in folders : \E p \in Entries(d, dir) : c \in Claimed(d, p)
      BY <1>7, <2>2 DEF Tidy
    <3>2. PICK p \in Entries(d, dir) : c \in Claimed(d, p)
      BY <3>1
    <3>3. Obj(d, paths, dir, p) \in objects /\ Obj(d, paths, dir, p).entry = At(d, p)
      BY ObjectOf, ObjParts
    <3> QED BY <3>2, <3>3 DEF Claimed
  <2> QED BY <2>1, <2>2
<1> HIDE DEF damaged, length, shared, dotted, copies, lost
<1>8. \A problem \in Problems(d) : \/ problem = "copies" /\ copies
                                   \/ problem = "lost" /\ lost
  BY <1>2, <1>3, <1>4, <1>5, <1>6
<1> QED BY <1>7, <1>8

\* Every file is whole.
LEMMA LaidOutWhole ==
  ASSUME NEW d, NEW folders, NEW paths, LaidOut(d, folders, paths)
  PROVE  FilesWhole(d)
<1> SUFFICES ASSUME NEW o \in Objects(d), ~ o.entry.dir
             PROVE  /\ Sound(Loaded(d), o.entry.first)
                    /\ Len(Data(d, o.entry)) = o.entry.size
                    /\ \E write \in 0 .. MaxCalls :
                          Data(d, o.entry) = [i \in DOMAIN Data(d, o.entry) |->
                                                FileBlock(write, i, Len(Data(d, o.entry)))]
  BY DEF FilesWhole
<1>1. PICK dir \in folders : \E p \in Entries(d, dir) : o.entry = At(d, p)
  BY ObjectIs
<1>2. PICK p \in Entries(d, dir) : o.entry = At(d, p)
  BY <1>1
<1> DEFINE entry == At(d, p)
           chain == Chain(Loaded(d), entry.first)
<1>3. FileSound(d, entry) /\ ~ entry.dir
  BY <1>2, LaidFile
<1>4. PICK write \in 0 .. MaxCalls : Holds(d, entry, write)
  BY <1>3 DEF FileSound
<1>5. Sound(Loaded(d), entry.first)
  BY <1>3, ChainSound DEF FileSound, LaidOut
<1>6. chain \in Seq(Clusters)
  BY LaidEntry DEF EntryIs
<1>7. Len(chain) = entry.size
      /\ \A i \in DOMAIN chain : d.data[chain[i]] = FileBlock(write, i, entry.size)
  BY <1>4 DEF Holds
<1>8. Data(d, entry) = [i \in DOMAIN chain |-> d.data[chain[i]]]
  BY <1>3 DEF Data
<1> HIDE DEF chain, entry
<1>9. Len(Data(d, entry)) = entry.size /\ DOMAIN Data(d, entry) = DOMAIN chain
  BY <1>6, <1>7, <1>8
<1>10. Data(d, entry) = [i \in DOMAIN Data(d, entry) |-> FileBlock(write, i, Len(Data(d, entry)))]
  BY <1>7, <1>8, <1>9
<1> QED BY <1>2, <1>4, <1>5, <1>9, <1>10 DEF entry

\* The parent record of every folder names the folder it is in.
LEMMA LaidOutParents ==
  ASSUME NEW d, NEW folders, NEW paths, LaidOut(d, folders, paths)
  PROVE  ParentsTrue(d)
<1> DEFINE root == [path |-> <<>>, entry |-> [first |-> Root]]
<1> SUFFICES ASSUME NEW o \in Objects(d), NEW f \in Objects(d) \cup {root},
                    o.entry.dir, f.path = Parent(o.path)
             PROVE  d.data[o.entry.first].parent = f.entry.first
  BY DEF ParentsTrue
<1>1. PICK dir \in folders : \E p \in Entries(d, dir) :
         o.entry = At(d, p) /\ o.path = Append(paths[dir], At(d, p).name)
  BY ObjectIs
<1>2. PICK p \in Entries(d, dir) :
         o.entry = At(d, p) /\ o.path = Append(paths[dir], At(d, p).name)
  BY <1>1
<1>3. d.data[o.entry.first].parent = dir
  BY <1>2, ParentIs
<1>4. f.path = paths[dir]
  BY <1>2, ObjParts DEF Parent
<1>5. CASE f = root
  <2>1. paths[dir] = paths[Root] /\ Root \in folders
    BY <1>4, <1>5 DEF LaidOut
  <2>2. dir = Root
    BY <2>1, PathsDiffer
  <2> QED BY <1>3, <1>5, <2>2
<1>6. CASE f \in Objects(d)
  <2>1. PICK dir2 \in folders : \E q \in Entries(d, dir2) :
           f.entry = At(d, q) /\ f.path = Append(paths[dir2], At(d, q).name)
    BY <1>6, ObjectIs
  <2>2. PICK q \in Entries(d, dir2) :
           f.entry = At(d, q) /\ f.path = Append(paths[dir2], At(d, q).name)
    BY <2>1
  <2>3. dir # Root
    <3>1. Append(paths[dir2], At(d, q).name) # <<>>
      BY LaidEntry, AppendLast DEF LaidOut, EntryIs
    <3> QED BY <1>4, <2>2, <3>1 DEF LaidOut
  <2>4. HasParent(d, folders, paths, dir)
    BY <2>3, FolderPath
  <2>5. PICK above \in folders : \E a \in Entries(d, above) :
           At(d, a).first = dir /\ paths[dir] = Append(paths[above], At(d, a).name)
    BY <2>4 DEF HasParent
  <2>6. PICK a \in Entries(d, above) :
           At(d, a).first = dir /\ paths[dir] = Append(paths[above], At(d, a).name)
    BY <2>5
  <2>7. a = q
    <3>1. Append(paths[above], At(d, a).name) = Append(paths[dir2], At(d, q).name)
      BY <1>4, <2>2, <2>6
    <3> QED BY <3>1, OnePath
  <2> QED BY <1>3, <2>2, <2>6, <2>7
<1> QED BY <1>5, <1>6

(***************************************************************************)
(* Resolving a path.                                                       *)
(***************************************************************************)

\* The first names of a path, one more at a time.
LEMMA FirstNames ==
  ASSUME NEW S, NEW s \in Seq(S)
  PROVE  /\ SubSeq(s, 1, 0) = <<>> /\ SubSeq(s, 1, Len(s)) = s
         /\ \A n \in 1 .. Len(s) : /\ SubSeq(s, 1, n - 1) \in Seq(S)
                                   /\ SubSeq(s, 1, n) = Append(SubSeq(s, 1, n - 1), s[n])
<1>1. SubSeq(s, 1, 0) = <<>>
  OBVIOUS
<1>2. SubSeq(s, 1, Len(s)) = s
  OBVIOUS
<1>3. ASSUME NEW n \in 1 .. Len(s)
      PROVE  /\ SubSeq(s, 1, n - 1) \in Seq(S)
             /\ SubSeq(s, 1, n) = Append(SubSeq(s, 1, n - 1), s[n])
  <2>1. PICK m \in Nat : n = m + 1
    <3>1. Len(s) \in Nat
      OBVIOUS
    <3>2. n - 1 \in Nat /\ n = (n - 1) + 1
      BY <3>1
    <3> QED BY <3>2
  <2>2. m + 1 <= Len(s) /\ Len(s) \in Nat
    BY <2>1
  <2>3. \A i \in 1 .. m + 1 : s[i] \in S
    BY <2>2
  <2> DEFINE t == [i \in 1 .. m |-> s[i]]
             u == [i \in 1 .. m + 1 |-> s[i]]
  <2>4. SubSeq(s, 1, m) = t /\ SubSeq(s, 1, m + 1) = u
    BY <2>2
  <2>5. t \in Seq(S) /\ Len(t) = m /\ \A i \in 1 .. m : t[i] = s[i]
    BY <2>3
  <2>6. u \in Seq(S) /\ Len(u) = m + 1 /\ \A i \in 1 .. m + 1 : u[i] = s[i]
    BY <2>3
  <2> HIDE DEF t, u
  <2>7. s[m + 1] \in S
    BY <2>3
  <2>8. /\ Append(t, s[m + 1]) \in Seq(S) /\ Len(Append(t, s[m + 1])) = m + 1
        /\ Append(t, s[m + 1])[m + 1] = s[m + 1]
        /\ \A i \in 1 .. m : Append(t, s[m + 1])[i] = t[i]
    BY <2>5, <2>7
  <2>9. ASSUME NEW i \in 1 .. m + 1
        PROVE  u[i] = Append(t, s[m + 1])[i]
    <3>1. CASE i = m + 1
      BY <2>6, <2>8, <3>1
    <3>2. CASE i # m + 1
      <4>1. i \in 1 .. m
        BY <3>2
      <4>2. Append(t, s[m + 1])[i] = t[i]
        BY <2>8, <4>1
      <4> QED BY <2>5, <2>6, <4>1, <4>2
    <3> QED BY <3>1, <3>2
  <2>10. u = Append(t, s[m + 1])
    <3>1. Len(u) = Len(Append(t, s[m + 1]))
      BY <2>6, <2>8
    <3>2. \A i \in 1 .. Len(u) : u[i] = Append(t, s[m + 1])[i]
      BY <2>6, <2>9
    <3> QED BY <2>6, <2>8, <3>1, <3>2, SameList
  <2>11. n - 1 = m
    BY <2>1
  <2> QED BY <2>1, <2>4, <2>5, <2>10, <2>11
<1> QED BY <1>1, <1>2, <1>3

\* A path of folders leads to the folder that has it, if there is one.
LEMMA FolderAt ==
  ASSUME NEW d, NEW folders, NEW paths, LaidOut(d, folders, paths), NEW path \in Seq(Names)
  PROVE  \A c : c \in Folder(d, path) <=> c \in folders /\ paths[c] = path
<1> DEFINE n == Len(path)
           within(dirs, name) ==
             {At(d, p).first :
                 p \in {p \in UNION {Found(d, dir, name) : dir \in dirs} : At(d, p).dir}}
           Reaches(g) == g = [k \in 0 .. Len(path) |->
                                IF k = 0 THEN {Root} ELSE within(g[k - 1], path[k])]
           reached == CHOOSE g : Reaches(g)
           at(k) == {c \in folders : paths[c] = SubSeq(path, 1, k)}
           f == [k \in 0 .. n |-> at(k)]
<1>1. /\ n \in Nat /\ SubSeq(path, 1, 0) = <<>> /\ SubSeq(path, 1, n) = path
      /\ \A k \in 1 .. n : /\ SubSeq(path, 1, k - 1) \in Seq(Names)
                           /\ SubSeq(path, 1, k) = Append(SubSeq(path, 1, k - 1), path[k])
      /\ \A k \in 1 .. n : path[k] \in Names
  BY FirstNames
<1>2. Root \in folders /\ paths[Root] = <<>>
  BY DEF LaidOut
<1>3. Folder(d, path) = reached[n]
  BY DEF Folder
<1> HIDE DEF n
<1>4. at(0) = {Root}
  <2>1. \A c \in folders : paths[c] = <<>> => c = Root
    BY <1>2, PathsDiffer
  <2> QED BY <1>1, <1>2, <2>1
<1>5. ASSUME NEW k \in 1 .. n
      PROVE  at(k) = within(at(k - 1), path[k])
  <2> DEFINE front == SubSeq(path, 1, k - 1)
  <2>1. front \in Seq(Names) /\ path[k] \in Names /\ SubSeq(path, 1, k) = Append(front, path[k])
    BY <1>1
  <2>2. /\ Append(front, path[k]) # <<>>
        /\ Front(Append(front, path[k])) = front /\ Last(Append(front, path[k])) = path[k]
    BY <2>1, AppendLast
  <2> HIDE DEF front
  <2>3. ASSUME NEW c \in folders, paths[c] = Append(front, path[k])
        PROVE  \E a \in folders : \E p \in Entries(d, a) :
                  /\ paths[a] = front /\ At(d, p).name = path[k]
                  /\ At(d, p).dir /\ At(d, p).first = c
    <3>1. c # Root
      BY <1>2, <2>2, <2>3
    <3>2. HasParent(d, folders, paths, c)
      BY <3>1, FolderPath
    <3>3. PICK a \in folders : \E p \in Entries(d, a) :
             /\ At(d, p).dir /\ At(d, p).first = c
             /\ paths[c] = Append(paths[a], At(d, p).name)
      BY <3>2 DEF HasParent
    <3>4. PICK p \in Entries(d, a) :
             /\ At(d, p).dir /\ At(d, p).first = c
             /\ paths[c] = Append(paths[a], At(d, p).name)
      BY <3>3
    <3>5. Front(paths[c]) = paths[a] /\ Last(paths[c]) = At(d, p).name
      BY <3>4, ObjParts
    <3> QED BY <2>2, <2>3, <3>4, <3>5
  <2>4. ASSUME NEW a \in folders, NEW p \in Entries(d, a),
               paths[a] = front, At(d, p).name = path[k], At(d, p).dir
        PROVE  At(d, p).first \in folders /\ paths[At(d, p).first] = Append(front, path[k])
    BY <2>4, ParentIs
  <2>5. \A c : c \in at(k - 1) <=> c \in folders /\ paths[c] = front
    BY DEF front
  <2>6. \A c : c \in at(k) <=> c \in folders /\ paths[c] = Append(front, path[k])
    BY <2>1
  <2>7. \A c : c \in within(at(k - 1), path[k]) <=>
            \E a \in at(k - 1) : \E p \in Entries(d, a) :
                At(d, p).name = path[k] /\ At(d, p).dir /\ At(d, p).first = c
    <3> DEFINE dirs == at(k - 1)
               all == UNION {Found(d, a, path[k]) : a \in dirs}
    <3>1. within(at(k - 1), path[k]) = {At(d, p).first : p \in {p \in all : At(d, p).dir}}
      OBVIOUS
    <3> HIDE DEF dirs, within
    <3>2. \A p : p \in all <=> \E a \in dirs : p \in Entries(d, a) /\ At(d, p).name = path[k]
      BY DEF Found
    <3> HIDE DEF all
    <3>3. \A c : c \in within(at(k - 1), path[k]) <=>
              \E p \in all : At(d, p).dir /\ At(d, p).first = c
      BY <3>1
    <3> QED BY <3>2, <3>3 DEF dirs
  <2> HIDE DEF at, within
  <2>8. ASSUME NEW c
        PROVE  c \in at(k) <=> c \in within(at(k - 1), path[k])
    BY <2>3, <2>4, <2>5, <2>6, <2>7
  <2> QED BY <2>8
<1> HIDE DEF within, at
<1>6. Reaches(f)
  <2>1. \A k \in 0 .. n : f[k] = IF k = 0 THEN {Root} ELSE within(f[k - 1], path[k])
    <3>1. \A k \in 0 .. n : k = 0 \/ (k \in 1 .. n /\ k - 1 \in 0 .. n)
      BY <1>1
    <3> QED BY <1>4, <1>5, <3>1
  <2> QED BY <2>1 DEF n
<1>7. Reaches(reached)
  <2> HIDE DEF Reaches, f
  <2> QED BY <1>6
<1> HIDE DEF reached
<1>8. reached[n] = f[n]
  <2> DEFINE T == {k \in 0 .. n : reached[k] = f[k]}
  <2>1. reached[0] = {Root} /\ f[0] = {Root}
    BY <1>1, <1>4, <1>7 DEF n
  <2>2. \A k \in 1 .. n : reached[k] = within(reached[k - 1], path[k])
                          /\ f[k] = within(f[k - 1], path[k])
    <3>1. \A k \in 1 .. n : k \in 0 .. n /\ k # 0 /\ k - 1 \in 0 .. n
      BY <1>1
    <3> QED BY <1>5, <1>7, <3>1 DEF n
  <2> HIDE DEF f
  <2>3. 0 \in T
    <3>1. 0 \in 0 .. n
      BY <1>1
    <3> QED BY <2>1, <3>1
  <2>4. ASSUME NEW k \in 0 .. n - 1, k \in T
        PROVE  k + 1 \in T
    <3>1. k + 1 \in 1 .. n /\ (k + 1) - 1 = k /\ k + 1 \in 0 .. n
      BY <1>1
    <3>2. reached[k + 1] = within(reached[k], path[k + 1]) /\ f[k + 1] = within(f[k], path[k + 1])
      BY <2>2, <3>1
    <3> QED BY <2>4, <3>1, <3>2
  <2> HIDE DEF T
  <2>5. 0 .. n \subseteq T
    BY <1>1, <2>3, <2>4, UpTo
  <2>6. n \in 0 .. n
    BY <1>1
  <2> QED BY <2>5, <2>6 DEF T
<1>9. n \in 0 .. n
  BY <1>1
<1> QED BY <1>1, <1>3, <1>8, <1>9 DEF at

\* A path of the sessions is a list of names that is not empty.
LEMMA PathIs ==
  ASSUME NEW path \in Paths
  PROVE  /\ path \in Seq(Names) /\ path # <<>>
         /\ Parent(path) \in Seq(Names) /\ Last(path) \in Names
         /\ path = Append(Parent(path), Last(path))
<1>1. PICK n \in 1 .. MaxDepth : path \in [1 .. n -> Names]
  BY DEF Paths
<1>2. n \in Nat /\ n > 0
  BY BoundAssumption
<1>3. path \in Seq(Names) /\ Len(path) = n
  BY <1>1, <1>2
<1>4. path # <<>>
  BY <1>2, <1>3
<1> QED BY <1>3, <1>4, FrontAndLast DEF Parent

\* What an operation finds at a path is the entry that has it.
LEMMA ObjectAt ==
  ASSUME NEW d, NEW folders, NEW paths, LaidOut(d, folders, paths), NEW path \in Paths
  PROVE  \A p : p \in Object(d, path) <=>
            \E dir \in folders : /\ paths[dir] = Parent(path)
                                 /\ p \in Entries(d, dir) /\ At(d, p).name = Last(path)
<1>1. Parent(path) \in Seq(Names)
  BY PathIs
<1>2. \A c : c \in Folder(d, Parent(path)) <=> c \in folders /\ paths[c] = Parent(path)
  BY <1>1, FolderAt
<1> QED BY <1>2 DEF Object, Found

(***************************************************************************)
(* An entry is renamed or moved.                                           *)
(***************************************************************************)

\* Whether a file is sound depends on its first cluster and its size only.
LEMMA SameFile ==
  ASSUME NEW d, NEW one, NEW two, one.first = two.first, one.size = two.size, FileSound(d, one)
  PROVE  FileSound(d, two)
BY DEF FileSound, Holds

\* The paths of the folders when the entry p is in dir with this name.
Repaths(d, folders, p, dir, name, paths2) ==
    /\ paths2 \in [folders -> Seq(Names)] /\ paths2[Root] = <<>>
    /\ \A c \in folders : \A a \in Entries(d, c) :
          a # p /\ At(d, a).dir => paths2[At(d, a).first] = Append(paths2[c], At(d, a).name)
    /\ At(d, p).dir => paths2[At(d, p).first] = Append(paths2[dir], name)

\* The record p of dir is now q of dir2, under another name.
Moves(d, e, folders, dir, p, dir2, q, name, paths2) ==
    /\ dir \in folders /\ dir2 \in folders
    /\ p \in Entries(d, dir) /\ q \in ToSet(Places(d, dir2))
    /\ q = p \/ At(d, q).state # "live"
    /\ Edits(d, e, folders, {p, q})
    /\ At(e, q) = [At(d, p) EXCEPT !.name = name] /\ name \in Names
    /\ p # q => At(e, p).state = "deleted"
    /\ \A a \in Entries(d, dir2) : a # p => At(d, a).name # name
    /\ \A c \in folders \ {Root} :
          e.data[c].parent = IF At(d, p).dir /\ c = At(d, p).first THEN dir2 ELSE d.data[c].parent
    /\ Repaths(d, folders, p, dir2, name, paths2)

\* A record that goes to another place, or gets another name, takes its clusters
\* along: the volume is laid out under the new paths.
LEMMA Moved ==
  ASSUME NEW d, NEW folders, NEW paths, LaidOut(d, folders, paths),
         NEW e, NEW dir, NEW p, NEW dir2, NEW q, NEW name, NEW paths2,
         Moves(d, e, folders, dir, p, dir2, q, name, paths2)
  PROVE  /\ LaidOut(e, folders, paths2)
         /\ Used(e, folders) = Used(d, folders)
         /\ Claimed(e, q) = Claimed(d, p)
         /\ \A c \in folders : \A a : a \in Entries(e, c) <=>
                (a \in Entries(d, c) /\ a # p) \/ (a = q /\ c = dir2)
<1> DEFINE kept == (UNION {Entries(d, c) : c \in folders}) \ {p}
           entry == At(d, p)
<1>1. /\ dir \in folders /\ dir2 \in folders
      /\ p \in Entries(d, dir) /\ q \in ToSet(Places(d, dir2))
      /\ q = p \/ At(d, q).state # "live"
      /\ Edits(d, e, folders, {p, q}) /\ e \in Disk
      /\ At(e, q) = [entry EXCEPT !.name = name] /\ name \in Names
      /\ p # q => At(e, p).state = "deleted"
      /\ \A a \in Entries(d, dir2) : a # p => At(d, a).name # name
  BY DEF Moves, Edits
<1>2. /\ \A c \in folders \ {Root} :
           e.data[c].parent = IF entry.dir /\ c = entry.first THEN dir2 ELSE d.data[c].parent
      /\ Repaths(d, folders, p, dir2, name, paths2)
  BY DEF Moves
<1>3. entry \in Record /\ entry.state = "live"
      /\ (entry.first = 0 \/ Chained(Loaded(d), entry.first))
      /\ Claimed(d, p) \subseteq Used(d, folders)
  BY <1>1, LaidEntry DEF EntryIs
<1>4. /\ At(e, q).state = "live" /\ At(e, q).name = name /\ At(e, q).dir = entry.dir
      /\ At(e, q).first = entry.first /\ At(e, q).size = entry.size
  BY <1>1, <1>3 DEF Record
<1>5. ASSUME q # p
      PROVE  \A c \in folders : q \notin Entries(d, c)
  BY <1>1, <1>5, LaidPlaces
<1>6. \A c \in folders : q \in ToSet(Places(d, c)) => c = dir2
  BY <1>1, OneFolder
<1>7. \A c \in folders : p \in ToSet(Places(d, c)) => c = dir
  <2>1. p \in ToSet(Places(d, dir))
    BY <1>1, LaidPlaces
  <2> QED BY <1>1, <2>1, OneFolder
<1>8. ASSUME NEW c \in folders, NEW a
      PROVE  a \in Entries(e, c) <=> (a \in Entries(d, c) /\ a # p) \/ (a = q /\ c = dir2)
  <2>1. Edited(d, e, c, {p, q})
    BY <1>1, EditedFolder
  <2>2. a \in Entries(e, c) <=>
           IF a \in {p, q} THEN a \in ToSet(Places(d, c)) /\ At(e, a).state = "live"
           ELSE a \in Entries(d, c)
    BY <2>1 DEF Edited
  <2>3. CASE a = q
    BY <1>1, <1>4, <1>5, <1>6, <2>2, <2>3
  <2>4. CASE a = p /\ p # q
    BY <1>1, <2>2, <2>4
  <2>5. CASE a # p /\ a # q
    BY <2>2, <2>5
  <2> QED BY <2>3, <2>4, <2>5
<1>9. ASSUME NEW c \in folders, NEW a \in Entries(d, c), a # p
      PROVE  /\ At(e, a) = At(d, a) /\ Claimed(e, a) = Claimed(d, a)
             /\ LikeOn(d, e, Claimed(d, a)) /\ a # q
  <2>1. a \notin {p, q}
    BY <1>5, <1>9
  <2> QED BY <1>1, <2>1, EditLeaves
<1>10. SteadyEntry(d, e, entry) /\ Claimed(e, q) = Claimed(d, p)
  <2>1. LikeOn(d, e, Claimed(d, p))
    BY <1>1, <1>3 DEF Edits, LikeOn
  <2>2. SteadyEntry(d, e, entry)
    BY <1>1, <1>3, <2>1, KeepsEntry DEF Claimed, LaidOut
  <2> QED BY <1>4, <2>2 DEF SteadyEntry, Claimed
<1>11. EntrySound(d, folders, paths, dir, p)
  BY <1>1 DEF LaidOut
<1>12. EntrySound(e, folders, paths2, dir2, q)
  <2>1. CASE entry.dir
    BY <1>1, <1>2, <1>4, <1>11, <2>1 DEF EntrySound, Repaths
  <2>2. CASE ~ entry.dir
    <3>1. FileSound(e, entry)
      BY <1>10, <1>11, <2>2 DEF EntrySound, SteadyEntry
    <3>2. FileSound(e, At(e, q))
      BY <1>4, <3>1, SameFile
    <3> QED BY <1>1, <1>4, <2>2, <3>2 DEF EntrySound
  <2> QED BY <2>1, <2>2
<1>13. ASSUME NEW c \in folders, NEW a \in Entries(e, c)
       PROVE  IF a \in kept THEN Stays(d, e, folders, folders, paths2, c, a)
              ELSE Comes(e, folders, paths2, c, a)
  <2>1. CASE a # q
    <3>1. a \in Entries(d, c) /\ a # p
      BY <1>8, <2>1
    <3>2. EntrySound(d, folders, paths, c, a)
      BY <3>1 DEF LaidOut
    <3>3. At(d, a).dir => /\ At(d, a).first \in folders
                          /\ paths2[At(d, a).first] = Append(paths2[c], At(d, a).name)
      BY <1>2, <3>1, <3>2 DEF EntrySound, Repaths
    <3> QED BY <1>9, <3>1, <3>3 DEF Stays
  <2>2. CASE a = q
    <3>1. a \notin kept
      BY <1>5, <2>2
    <3>2. c = dir2
      BY <1>5, <1>8, <2>2
    <3>3. ASSUME NEW f \in folders, NEW b \in Entries(e, f), b # q
          PROVE  /\ Claimed(e, q) \cap Claimed(e, b) = {}
                 /\ dir2 = f => At(e, q).name # At(e, b).name
      <4>1. b \in Entries(d, f) /\ b # p
        BY <1>8, <3>3
      <4>2. Claimed(d, p) \cap Claimed(d, b) = {}
        BY <1>1, <4>1, LaidApart
      <4> QED BY <1>1, <1>4, <1>9, <1>10, <4>1, <4>2
    <3>4. AwayFrom(e, folders, dir2, q)
      BY <3>3 DEF AwayFrom
    <3> QED BY <1>12, <2>2, <3>1, <3>2, <3>4 DEF Comes
  <2> QED BY <2>1, <2>2
<1>14. ASSUME NEW c \in folders, c # Root
       PROVE  FolderSound(e, folders, c)
  <2>1. FolderIs(d, folders, c)
    BY <1>14, LaidFolder
  <2>2. d.data[c].parent \in folders
    BY <2>1 DEF FolderIs
  <2>3. CASE entry.dir /\ c = entry.first
    <3>1. SteadyFolder(d, e, c)
      BY <1>1, EditedFolder DEF Edited
    <3>2. e.data[c].parent = dir2 /\ q \in Entries(e, dir2)
      BY <1>1, <1>2, <1>8, <1>14, <2>3
    <3>3. At(e, q).dir /\ At(e, q).first = c
      BY <1>4, <2>3
    <3> QED BY <1>1, <1>14, <3>1, <3>2, <3>3, KeepsSound
  <2>4. CASE ~(entry.dir /\ c = entry.first)
    <3>1. e.data[c].parent = d.data[c].parent
      BY <1>2, <1>14, <2>4
    <3>2. \A a \in {p, q} : ~(a \in Entries(d, d.data[c].parent) /\ At(d, a).first = c)
      <4>1. ASSUME p \in Entries(d, d.data[c].parent), At(d, p).first = c
            PROVE  FALSE
        <5>1. PICK b \in Entries(d, d.data[c].parent) : At(d, b).dir /\ At(d, b).first = c
          BY <2>1 DEF FolderIs
        <5>2. b = p
          BY <2>2, <4>1, <5>1, OneEntry
        <5> QED BY <2>4, <5>1, <5>2
      <4> QED BY <1>5, <2>2, <4>1
    <3>3. Edits(d, e, folders, {p, q})
      BY <1>1
    <3> QED BY <1>14, <2>2, <3>1, <3>2, <3>3, EditKeepsSound
  <2> QED BY <2>3, <2>4
<1>15. ASSUME NEW c \in folders
       PROVE  FreeTail(e, c)
  <2>1. Edited(d, e, c, {p, q})
    BY <1>1, EditedFolder
  <2> QED BY <2>1 DEF Edited
<1>16. folders \subseteq 0 .. MaxCluster /\ Root \in folders
       /\ paths2 \in [folders -> Seq(Names)] /\ paths2[Root] = <<>>
  BY <1>2 DEF LaidOut, Repaths
<1>17. Relays(d, folders, e, folders, paths2, kept)
  <2> HIDE DEF kept
  <2> QED BY <1>1, <1>13, <1>14, <1>15, <1>16 DEF Relays
<1>18. LaidOut(e, folders, paths2)
  <2> HIDE DEF kept
  <2> QED BY <1>17, Relaid
<1>19. ASSUME NEW c
       PROVE  c \in Used(e, folders) <=> c \in Used(d, folders)
  <2>1. ASSUME NEW f \in folders, NEW a \in Entries(e, f), c \in Claimed(e, a)
        PROVE  c \in Used(d, folders)
    <3>1. CASE a = q
      BY <1>3, <1>10, <2>1, <3>1
    <3>2. CASE a # q
      <4>1. a \in Entries(d, f) /\ a # p
        BY <1>8, <3>2
      <4> QED BY <1>9, <2>1, <4>1, UsedAfter
    <3> QED BY <3>1, <3>2
  <2>2. ASSUME NEW f \in folders, NEW a \in Entries(d, f), c \in Claimed(d, a)
        PROVE  c \in Used(e, folders)
    <3>1. CASE a = p
      <4>1. q \in Entries(e, dir2) /\ c \in Claimed(e, q) /\ dir2 \in folders
        BY <1>1, <1>8, <1>10, <2>2, <3>1
      <4> QED BY <4>1, UsedAfter
    <3>2. CASE a # p
      <4>1. a \in Entries(e, f) /\ c \in Claimed(e, a)
        BY <1>8, <1>9, <2>2, <3>2
      <4> QED BY <4>1, UsedAfter
    <3> QED BY <3>1, <3>2
  <2> QED BY <2>1, <2>2, UsedAfter
<1> QED BY <1>8, <1>10, <1>18, <1>19

(***************************************************************************)
(* Paths below a folder that gets another path.                            *)
(***************************************************************************)

\* What it is to begin with another path.
LEMMA PrefixIs ==
  ASSUME NEW S, NEW s \in Seq(S), NEW t \in Seq(S)
  PROVE  IsPrefix(s, t) <=> Len(s) <= Len(t) /\ \A i \in 1 .. Len(s) : s[i] = t[i]
<1>1. Len(s) \in Nat /\ Len(t) \in Nat
  OBVIOUS
<1>2. CASE Len(s) <= Len(t)
  <2> DEFINE one == SubSeq(s, 1, Len(s))
             two == SubSeq(t, 1, Len(s))
  <2>1. one = [i \in 1 .. Len(s) |-> s[i]] /\ two = [i \in 1 .. Len(s) |-> t[i]]
    BY <1>1, <1>2
  <2>2. one = two <=> \A i \in 1 .. Len(s) : s[i] = t[i]
    <3>1. \A i \in 1 .. Len(s) : one[i] = s[i] /\ two[i] = t[i]
      BY <2>1
    <3> QED BY <2>1, <3>1
  <2> QED BY <1>2, <2>2 DEF IsPrefix
<1>3. CASE ~(Len(s) <= Len(t))
  BY <1>3 DEF IsPrefix
<1> QED BY <1>2, <1>3

\* A path with its beginning replaced.
Rebased(old, new, s) ==
    IF IsPrefix(old, s) THEN new \o SubSeq(s, Len(old) + 1, Len(s)) ELSE s

RebasedParts(S, old, new, s) ==
    /\ Rebased(old, new, s) \in Seq(S)
    /\ IsPrefix(old, s) =>
         /\ Len(Rebased(old, new, s)) = Len(new) + Len(s) - Len(old)
         /\ \A i \in 1 .. Len(new) : Rebased(old, new, s)[i] = new[i]
         /\ \A i \in 1 .. Len(s) - Len(old) :
               Rebased(old, new, s)[Len(new) + i] = s[Len(old) + i]

\* What replacing the beginning of a path makes of it, name by name.
LEMMA RebasedIs ==
  ASSUME NEW S, NEW old \in Seq(S), NEW new \in Seq(S), NEW s \in Seq(S)
  PROVE  RebasedParts(S, old, new, s)
<1>1. CASE ~ IsPrefix(old, s)
  BY <1>1 DEF Rebased, RebasedParts
<1>2. CASE IsPrefix(old, s)
  <2>1. Len(old) \in Nat /\ Len(s) \in Nat /\ Len(new) \in Nat /\ Len(old) <= Len(s)
    BY <1>2 DEF IsPrefix
  <2>2. PICK k \in Nat : Len(s) = Len(old) + k
    <3>1. Len(s) - Len(old) \in Nat /\ Len(s) = Len(old) + (Len(s) - Len(old))
      BY <2>1
    <3> QED BY <3>1
  <2> DEFINE rest == SubSeq(s, Len(old) + 1, Len(s))
  <2>3. \A i \in 1 .. k : Len(old) + i \in 1 .. Len(s) /\ s[Len(old) + i] \in S
    BY <2>1, <2>2
  <2>4. rest = [i \in 1 .. k |-> s[Len(old) + i]]
    <3>1. Len(s) - (Len(old) + 1) + 1 = k /\ \A i \in 1 .. k : i + (Len(old) + 1) - 1 = Len(old) + i
      BY <2>1, <2>2
    <3>2. rest = [i \in 1 .. Len(s) - (Len(old) + 1) + 1 |-> s[i + (Len(old) + 1) - 1]]
      BY <2>1, <2>2
    <3> QED BY <3>1, <3>2
  <2>5. rest \in Seq(S) /\ Len(rest) = k /\ \A i \in 1 .. k : rest[i] = s[Len(old) + i]
    BY <2>3, <2>4
  <2> HIDE DEF rest
  <2>6. EndToEnd(S, new, rest)
    BY <2>5, TwoLists
  <2>7. Rebased(old, new, s) = new \o rest
    BY <1>2 DEF Rebased, rest
  <2>8. Len(s) - Len(old) = k /\ Len(new) + Len(s) - Len(old) = Len(new) + k
    BY <2>1, <2>2
  <2> QED BY <2>5, <2>6, <2>7, <2>8 DEF EndToEnd, RebasedParts
<1> QED BY <1>1, <1>2

\* A path one name longer: the beginning is replaced in both or it is the whole.
Lengthens(old, new, s, a) ==
    /\ IsPrefix(old, s) => Rebased(old, new, Append(s, a)) = Append(Rebased(old, new, s), a)
    /\ ~ IsPrefix(old, s) /\ Append(s, a) # old =>
          Rebased(old, new, Append(s, a)) = Append(s, a)

\* Replacing the beginning of a path does not disturb the names after it.
LEMMA RebasedMore ==
  ASSUME NEW S, NEW old \in Seq(S), NEW new \in Seq(S), NEW s \in Seq(S), NEW a \in S
  PROVE  Lengthens(old, new, s, a)
<1> DEFINE t == Append(s, a)
<1>1. /\ t \in Seq(S) /\ Len(t) = Len(s) + 1 /\ t[Len(s) + 1] = a
      /\ \A i \in 1 .. Len(s) : t[i] = s[i]
      /\ Len(s) \in Nat /\ Len(old) \in Nat /\ Len(new) \in Nat
  OBVIOUS
<1> HIDE DEF t
<1>2. /\ IsPrefix(old, s) <=> Len(old) <= Len(s) /\ \A i \in 1 .. Len(old) : old[i] = s[i]
      /\ IsPrefix(old, t) <=> Len(old) <= Len(t) /\ \A i \in 1 .. Len(old) : old[i] = t[i]
  <2>1. IsPrefix(old, s) <=> Len(old) <= Len(s) /\ \A i \in 1 .. Len(old) : old[i] = s[i]
    BY PrefixIs
  <2>2. IsPrefix(old, t) <=> Len(old) <= Len(t) /\ \A i \in 1 .. Len(old) : old[i] = t[i]
    BY <1>1, PrefixIs
  <2> QED BY <2>1, <2>2
<1>3. ASSUME IsPrefix(old, s)
      PROVE  Rebased(old, new, t) = Append(Rebased(old, new, s), a)
  <2>1. PICK k \in Nat : Len(s) = Len(old) + k
    <3>1. Len(s) - Len(old) \in Nat /\ Len(s) = Len(old) + (Len(s) - Len(old))
      BY <1>1, <1>2, <1>3
    <3> QED BY <3>1
  <2>2. IsPrefix(old, t)
    <3>1. Len(old) <= Len(t)
      BY <1>1, <2>1
    <3>2. \A i \in 1 .. Len(old) : i \in 1 .. Len(s)
      BY <1>1, <2>1
    <3> QED BY <1>1, <1>2, <1>3, <3>1, <3>2
  <2> DEFINE rs == Rebased(old, new, s)
             rt == Rebased(old, new, t)
             m == Len(new)
  <2>3. /\ rs \in Seq(S) /\ Len(rs) = m + k
        /\ \A i \in 1 .. m : rs[i] = new[i]
        /\ \A i \in 1 .. k : rs[m + i] = s[Len(old) + i]
    <3>1. m + Len(s) - Len(old) = m + k /\ Len(s) - Len(old) = k
      BY <1>1, <2>1
    <3>2. RebasedParts(S, old, new, s)
      BY RebasedIs
    <3> QED BY <1>3, <3>1, <3>2 DEF RebasedParts
  <2>4. /\ rt \in Seq(S) /\ Len(rt) = m + k + 1
        /\ \A i \in 1 .. m : rt[i] = new[i]
        /\ \A i \in 1 .. k + 1 : rt[m + i] = t[Len(old) + i]
    <3>1. m + Len(t) - Len(old) = m + k + 1 /\ Len(t) - Len(old) = k + 1
      BY <1>1, <2>1
    <3>2. RebasedParts(S, old, new, t)
      BY <1>1, RebasedIs
    <3> QED BY <2>2, <3>1, <3>2 DEF RebasedParts
  <2> HIDE DEF rs, rt
  <2>5. m \in Nat
    BY <1>1
  <2> HIDE DEF m
  <2>6. /\ Append(rs, a) \in Seq(S) /\ Len(Append(rs, a)) = m + k + 1
        /\ Append(rs, a)[m + k + 1] = a
        /\ \A i \in 1 .. m + k : Append(rs, a)[i] = rs[i]
    BY <2>3, <2>5
  <2>7. ASSUME NEW i \in 1 .. m + k + 1
        PROVE  rt[i] = Append(rs, a)[i]
    <3>1. CASE i = m + k + 1
      <4>1. m + k + 1 = m + (k + 1) /\ k + 1 \in 1 .. k + 1 /\ Len(old) + (k + 1) = Len(s) + 1
        BY <1>1, <2>1, <2>5
      <4>2. rt[m + (k + 1)] = t[Len(s) + 1]
        BY <2>4, <4>1
      <4> QED BY <1>1, <2>6, <3>1, <4>1, <4>2
    <3>2. CASE i \in 1 .. m
      <4>1. i \in 1 .. m + k
        BY <2>5, <3>2
      <4> QED BY <2>3, <2>4, <2>6, <3>2, <4>1
    <3>3. CASE i \notin 1 .. m /\ i # m + k + 1
      <4>1. PICK j \in 1 .. k : i = m + j
        <5>1. i - m \in 1 .. k /\ i = m + (i - m)
          BY <2>5, <3>3
        <5> QED BY <5>1
      <4>2. j \in 1 .. k + 1 /\ m + j \in 1 .. m + k /\ Len(old) + j \in 1 .. Len(s)
        BY <1>1, <2>1, <2>5
      <4>3. rt[m + j] = t[Len(old) + j] /\ rs[m + j] = s[Len(old) + j]
        BY <2>3, <2>4, <4>2
      <4>4. t[Len(old) + j] = s[Len(old) + j]
        BY <1>1, <4>2
      <4> QED BY <2>6, <4>1, <4>2, <4>3, <4>4
    <3> QED BY <3>1, <3>2, <3>3
  <2>8. rt = Append(rs, a)
    <3>1. Len(rt) = Len(Append(rs, a)) /\ Len(rt) = m + k + 1
      BY <2>4, <2>6
    <3>2. \A i \in 1 .. Len(rt) : rt[i] = Append(rs, a)[i]
      BY <2>7, <3>1
    <3> QED BY <2>4, <2>6, <3>1, <3>2, SameList
  <2> QED BY <2>8 DEF rs, rt
<1>4. ASSUME ~ IsPrefix(old, s), t # old
      PROVE  Rebased(old, new, t) = t
  <2> SUFFICES ASSUME IsPrefix(old, t) PROVE FALSE
    BY DEF Rebased
  <2>1. Len(old) <= Len(s) + 1 /\ \A i \in 1 .. Len(old) : old[i] = t[i]
    BY <1>1, <1>2
  <2>2. CASE Len(old) = Len(s) + 1
    <3>1. Len(old) = Len(t)
      BY <1>1, <2>2
    <3>2. old = t
      BY <1>1, <2>1, <3>1, SameList
    <3> QED BY <1>4, <3>2
  <2>3. CASE Len(old) # Len(s) + 1
    <3>1. Len(old) <= Len(s)
      BY <1>1, <2>1, <2>3
    <3>2. \A i \in 1 .. Len(old) : i \in 1 .. Len(s)
      BY <1>1, <3>1
    <3> QED BY <1>1, <1>2, <1>4, <2>1, <3>1, <3>2
  <2> QED BY <2>2, <2>3
<1> QED BY <1>3, <1>4 DEF t, Lengthens

\* A path that begins one that is a name longer begins it or is it.
LEMMA PrefixOfMore ==
  ASSUME NEW S, NEW s \in Seq(S), NEW t \in Seq(S), NEW a \in S
  PROVE  IsPrefix(s, Append(t, a)) <=> IsPrefix(s, t) \/ s = Append(t, a)
<1> DEFINE u == Append(t, a)
<1>1. /\ u \in Seq(S) /\ Len(u) = Len(t) + 1 /\ Len(t) \in Nat /\ Len(s) \in Nat
      /\ \A i \in 1 .. Len(t) : u[i] = t[i]
  OBVIOUS
<1> HIDE DEF u
<1>2. IsPrefix(s, u) <=> Len(s) <= Len(u) /\ \A i \in 1 .. Len(s) : s[i] = u[i]
  BY <1>1, PrefixIs
<1>3. IsPrefix(s, t) <=> Len(s) <= Len(t) /\ \A i \in 1 .. Len(s) : s[i] = t[i]
  BY PrefixIs
<1>4. ASSUME Len(s) <= Len(t) PROVE IsPrefix(s, u) <=> IsPrefix(s, t)
  BY <1>1, <1>2, <1>3, <1>4
<1>5. ASSUME ~ Len(s) <= Len(t) PROVE IsPrefix(s, u) <=> s = u
  <2>1. ASSUME IsPrefix(s, u) PROVE s = u
    <3>1. Len(s) = Len(u) /\ \A i \in 1 .. Len(s) : s[i] = u[i]
      BY <1>1, <1>2, <1>5, <2>1
    <3> QED BY <1>1, <3>1, SameList
  <2>2. ASSUME s = u PROVE IsPrefix(s, u)
    BY <1>1, <1>2, <2>2
  <2> QED BY <2>1, <2>2
<1>6. s = u => ~ Len(s) <= Len(t)
  BY <1>1
<1>7. ~ Len(s) <= Len(t) => ~ IsPrefix(s, t)
  BY <1>3
<1> QED BY <1>4, <1>5, <1>6, <1>7 DEF u

\* What begins the path of a folder is a folder.
LEMMA Prefixed ==
  ASSUME NEW d, NEW folders, NEW paths, LaidOut(d, folders, paths),
         NEW dir \in folders, NEW p \in Entries(d, dir), NEW old,
         old = Append(paths[dir], At(d, p).name), NEW c \in folders, IsPrefix(old, paths[c])
  PROVE  At(d, p).dir /\ At(d, p).first \in folders /\ paths[At(d, p).first] = old
<1> DEFINE T == {k \in Nat : \A b \in folders :
                     Len(paths[b]) = k /\ IsPrefix(old, paths[b]) => At(d, p).dir}
<1>1. \A b \in folders : paths[b] \in Seq(Names) /\ Len(paths[b]) \in Nat
  BY DEF LaidOut
<1>2. old \in Seq(Names) /\ Len(old) = Len(paths[dir]) + 1
  <2>1. At(d, p).name \in Names
    BY LaidEntry DEF EntryIs
  <2> QED BY <1>1, <2>1, AppendLast
<1>3. 0 \in T
  <2>1. ASSUME NEW b \in folders, Len(paths[b]) = 0, IsPrefix(old, paths[b]) PROVE FALSE
    <3>1. Len(old) <= Len(paths[b])
      BY <1>1, <1>2, <2>1, PrefixIs
    <3> QED BY <1>1, <1>2, <2>1, <3>1
  <2> QED BY <2>1
<1>4. ASSUME NEW k \in Nat, k \in T
      PROVE  k + 1 \in T
  <2>1. ASSUME NEW b \in folders, Len(paths[b]) = k + 1, IsPrefix(old, paths[b])
        PROVE  At(d, p).dir
    <3>1. b # Root
      <4>1. paths[Root] = <<>>
        BY DEF LaidOut
      <4> QED BY <2>1, <4>1
    <3>2. HasParent(d, folders, paths, b)
      BY <3>1, FolderPath
    <3>3. PICK above \in folders : \E a \in Entries(d, above) :
             /\ At(d, a).dir /\ At(d, a).name \in Names
             /\ paths[b] = Append(paths[above], At(d, a).name)
             /\ Len(paths[b]) = Len(paths[above]) + 1
      BY <3>2 DEF HasParent
    <3>4. PICK a \in Entries(d, above) :
             /\ At(d, a).dir /\ At(d, a).name \in Names
             /\ paths[b] = Append(paths[above], At(d, a).name)
             /\ Len(paths[b]) = Len(paths[above]) + 1
      BY <3>3
    <3>5. IsPrefix(old, paths[above]) \/ old = Append(paths[above], At(d, a).name)
      <4>1. paths[above] \in Seq(Names) /\ At(d, a).name \in Names
        BY <1>1, <3>4
      <4>2. IsPrefix(old, Append(paths[above], At(d, a).name))
        BY <2>1, <3>4
      <4> QED BY <1>2, <4>1, <4>2, PrefixOfMore
    <3>6. CASE IsPrefix(old, paths[above])
      <4>1. Len(paths[above]) = k
        BY <1>1, <2>1, <3>4
      <4> QED BY <1>4, <3>6, <4>1
    <3>7. CASE old = Append(paths[above], At(d, a).name)
      <4>1. Append(paths[dir], At(d, p).name) = Append(paths[above], At(d, a).name)
        BY <3>7
      <4>2. p = a
        BY <4>1, OnePath
      <4> QED BY <3>4, <4>2
    <3> QED BY <3>5, <3>6, <3>7
  <2> QED BY <2>1
<1> HIDE DEF T
<1>5. Nat \subseteq T
  BY <1>3, <1>4, Always
<1>6. At(d, p).dir
  BY <1>1, <1>5 DEF T
<1> QED BY <1>6, ParentIs

\* There are paths for the folders when an entry gets another name or place.
LEMMA Repathed ==
  ASSUME NEW d, NEW folders, NEW paths, LaidOut(d, folders, paths),
         NEW dir \in folders, NEW p \in Entries(d, dir), NEW dir2 \in folders, NEW name \in Names,
         At(d, p).dir => ~ IsPrefix(paths[At(d, p).first], paths[dir2])
  PROVE  \E paths2 : /\ Repaths(d, folders, p, dir2, name, paths2)
                     /\ \A c \in folders : paths2[c] =
                           Rebased(Append(paths[dir], At(d, p).name), Append(paths[dir2], name),
                                   paths[c])
<1>1. paths \in [folders -> Seq(Names)] /\ paths[Root] = <<>> /\ Root \in folders
  BY DEF LaidOut
<1>2. ASSUME NEW c \in folders, NEW a \in Entries(d, c), At(d, a).dir
      PROVE  /\ At(d, a).first \in folders /\ At(d, a).first # Root
             /\ paths[At(d, a).first] = Append(paths[c], At(d, a).name)
             /\ At(d, a).name \in Names /\ paths[c] \in Seq(Names)
  <2>1. EntryIs(d, folders, a)
    BY LaidEntry
  <2> QED BY <1>1, <1>2, <2>1, ParentIs DEF EntryIs
<1>3. CASE ~ At(d, p).dir
  <2>1. Repaths(d, folders, p, dir2, name, paths)
    BY <1>1, <1>2, <1>3 DEF Repaths
  <2>2. \A c \in folders : ~ IsPrefix(Append(paths[dir], At(d, p).name), paths[c])
    BY <1>3, Prefixed
  <2> QED BY <2>1, <2>2 DEF Rebased
<1>4. CASE At(d, p).dir
  <2> DEFINE f == At(d, p).first
             old == paths[f]
             new == Append(paths[dir2], name)
             paths2 == [c \in folders |-> Rebased(old, new, paths[c])]
  <2>1. f \in folders /\ f # Root /\ old \in Seq(Names) /\ ~ IsPrefix(old, paths[dir2])
    BY <1>1, <1>2, <1>4
  <2>2. new \in Seq(Names) /\ paths[dir2] \in Seq(Names)
    BY <1>1
  <2> HIDE DEF f, old, new
  <2>3. paths2 \in [folders -> Seq(Names)]
    <3> SUFFICES ASSUME NEW c \in folders PROVE Rebased(old, new, paths[c]) \in Seq(Names)
      OBVIOUS
    <3>1. RebasedParts(Names, old, new, paths[c])
      BY <1>1, <2>1, <2>2, RebasedIs
    <3> QED BY <3>1 DEF RebasedParts
  <2>4. old # <<>>
    <3>1. old = paths[f] /\ f \in folders
      BY <2>1 DEF old
    <3> QED BY <1>1, <2>1, <3>1, PathsDiffer
  <2>5. paths2[Root] = <<>>
    <3>1. <<>> \in Seq(Names) /\ Len(<<>>) = 0 /\ Len(old) \in Nat /\ Len(old) # 0
      BY <2>1, <2>4
    <3>2. ~ IsPrefix(old, <<>>)
      BY <3>1 DEF IsPrefix
    <3> QED BY <1>1, <3>2 DEF Rebased
  <2>6. paths2[f] = new
    <3>1. IsPrefix(old, old)
      BY DEF IsPrefix
    <3>2. old = paths[f] /\ Len(old) \in Nat /\ Len(new) \in Nat
      BY <2>1, <2>2 DEF old
    <3>3. /\ Rebased(old, new, old) \in Seq(Names)
          /\ Len(Rebased(old, new, old)) = Len(new) + Len(old) - Len(old)
          /\ \A i \in 1 .. Len(new) : Rebased(old, new, old)[i] = new[i]
      <4>1. RebasedParts(Names, old, new, old)
        BY <2>1, <2>2, RebasedIs
      <4> QED BY <3>1, <4>1 DEF RebasedParts
    <3>4. Len(Rebased(old, new, old)) = Len(new)
      BY <3>2, <3>3
    <3>5. \A i \in 1 .. Len(new) : new[i] = Rebased(old, new, old)[i]
      BY <3>3
    <3>6. Rebased(old, new, old) = new
      BY <2>2, <3>3, <3>4, <3>5, SameList
    <3> QED BY <2>1, <3>2, <3>6
  <2>7. ASSUME NEW c \in folders, NEW a \in Entries(d, c), a # p, At(d, a).dir
        PROVE  paths2[At(d, a).first] = Append(paths2[c], At(d, a).name)
    <3> DEFINE g == At(d, a).first
               n == At(d, a).name
    <3>1. g \in folders /\ paths[g] = Append(paths[c], n) /\ n \in Names /\ paths[c] \in Seq(Names)
      BY <1>2, <2>7
    <3>2. g # f
      BY <1>4, <2>7, OneEntry DEF f
    <3> HIDE DEF g, n
    <3>3. Append(paths[c], n) # old
      <4>1. paths[g] # paths[f]
        BY <2>1, <3>1, <3>2, PathsDiffer
      <4> QED BY <3>1, <4>1 DEF old
    <3>4. paths2[g] = Rebased(old, new, Append(paths[c], n))
              /\ paths2[c] = Rebased(old, new, paths[c])
      BY <3>1
    <3>5. Lengthens(old, new, paths[c], n)
      BY <2>1, <2>2, <3>1, RebasedMore
    <3>6. ~ IsPrefix(old, paths[c]) => Rebased(old, new, paths[c]) = paths[c]
      BY DEF Rebased
    <3>7. paths2[g] = Append(paths2[c], n)
      BY <3>3, <3>4, <3>5, <3>6 DEF Lengthens
    <3> QED BY <3>7 DEF g, n
  <2>8. paths2[At(d, p).first] = Append(paths2[dir2], name)
    <3>1. paths2[dir2] = paths[dir2]
      BY <2>1 DEF Rebased
    <3> QED BY <2>6, <3>1 DEF f, new
  <2>9. \A c \in folders : paths2[c] =
            Rebased(Append(paths[dir], At(d, p).name), Append(paths[dir2], name), paths[c])
    <3>1. old = Append(paths[dir], At(d, p).name)
      BY <1>2, <1>4 DEF old, f
    <3> QED BY <3>1 DEF new
  <2> HIDE DEF paths2
  <2>10. Repaths(d, folders, p, dir2, name, paths2)
    BY <2>3, <2>5, <2>7, <2>8 DEF Repaths
  <2> QED BY <2>9, <2>10
<1> QED BY <1>3, <1>4

(***************************************************************************)
(* A folder grows by a cluster.                                            *)
(***************************************************************************)

\* The chain of dir goes on to a cleared cluster that was free.
Grows1(d, e, folders, dir, new) ==
    /\ dir \in folders /\ dir # Root
    /\ new \in Clusters /\ Loaded(d)[new] = Free /\ d.data[new] = ZeroBlock
    /\ e \in Disk /\ e.root = d.root /\ e.data = d.data
    /\ Loaded(e) = [Loaded(d) EXCEPT ![Last(Chain(Loaded(d), dir))] = new, ![new] = Eoc]

\* A chain that goes on to a cluster that was free.
LEMMA ChainGrows ==
  ASSUME NEW fat \in Fat, NEW fat2 \in Fat, NEW first, Chained(fat, first),
         NEW new \in Clusters, fat[new] = Free,
         fat2 = [fat EXCEPT ![Last(Chain(fat, first))] = new, ![new] = Eoc]
  PROVE  Chain(fat2, first) = Append(Chain(fat, first), new) /\ Chained(fat2, first)
<1> DEFINE s == Chain(fat, first)
           t == Append(s, new)
           n == Len(s)
<1>1. s \in Seq(Clusters) /\ s # <<>> /\ s[1] = first /\ first \in Clusters /\ IsChain(fat, s)
      /\ (\A i, j \in DOMAIN s : s[i] = s[j] => i = j)
      /\ \A i \in DOMAIN s : fat[s[i]] = IF i = Len(s) THEN Eoc ELSE s[i + 1]
  BY DEF Chained, IsChain
<1>2. new \notin ToSet(s)
  BY ChainClusters
<1>3. fat2 = [fat EXCEPT ![Last(s)] = new, ![new] = Eoc]
  OBVIOUS
<1> HIDE DEF s
<1>4. n \in Nat /\ n > 0 /\ DOMAIN s = 1 .. n /\ (\A i \in 1 .. n : s[i] \in Clusters)
          /\ Last(s) = s[n]
  BY <1>1 DEF Last
<1>5. \A i \in 1 .. n : s[i] # new
  BY <1>2, <1>4 DEF ToSet
<1>6. t \in Seq(Clusters) /\ Len(t) = n + 1 /\ t[n + 1] = new /\ \A i \in 1 .. n : t[i] = s[i]
  BY <1>1
<1> HIDE DEF t, n
<1>7. n \in 1 .. n /\ 1 \in 1 .. n /\ DOMAIN t = 1 .. n + 1
  BY <1>4, <1>6
<1>8. /\ fat2[s[n]] = new /\ fat2[new] = Eoc
      /\ \A c \in Clusters : c # s[n] /\ c # new => fat2[c] = fat[c]
  BY <1>3, <1>4, <1>5, <1>7 DEF Fat
<1>9. ASSUME NEW i \in 1 .. n + 1, NEW j \in 1 .. n + 1, t[i] = t[j]
      PROVE  i = j
  <2>1. (i = n + 1 \/ i \in 1 .. n) /\ (j = n + 1 \/ j \in 1 .. n)
    BY <1>4
  <2> QED BY <1>1, <1>4, <1>5, <1>6, <1>9, <2>1
<1>10. ASSUME NEW i \in 1 .. n + 1
       PROVE  fat2[t[i]] = IF i = n + 1 THEN Eoc ELSE t[i + 1]
  <2>1. CASE i = n + 1
    BY <1>6, <1>8, <2>1
  <2>2. CASE i # n + 1
    <3>1. i \in 1 .. n /\ t[i] = s[i] /\ s[i] \in Clusters
      BY <1>4, <1>6, <2>2
    <3>2. CASE i = n
      BY <1>6, <1>8, <2>2, <3>1, <3>2
    <3>3. CASE i # n
      <4>1. i + 1 \in 1 .. n
        BY <1>4, <3>1, <3>3
      <4>2. s[i] # s[n] /\ s[i] # new
        BY <1>1, <1>4, <1>5, <1>7, <3>1, <3>3
      <4>3. fat[s[i]] = s[i + 1]
        BY <1>1, <1>4, <3>1, <3>3 DEF n
      <4> QED BY <1>6, <1>8, <2>2, <3>1, <4>1, <4>2, <4>3
    <3> QED BY <3>2, <3>3
  <2> QED BY <2>1, <2>2
<1>11. IsChain(fat2, t)
  <2>1. t # <<>>
    BY <1>4, <1>6
  <2> QED BY <1>6, <1>7, <1>9, <1>10, <2>1 DEF IsChain
<1>12. t[1] = first
  BY <1>1, <1>6, <1>7
<1>13. Chain(fat2, first) = t
  BY <1>11, <1>12, ChainFound
<1> QED BY <1>1, <1>11, <1>12, <1>13 DEF Chained, s, t

\* A cleared cluster has records that were never used.
LEMMA ZeroIs ==
  /\ ZeroBlock \in Block /\ ZeroBlock.kind = "dir"
  /\ Records(ZeroBlock) = 1 .. ClusterEntries
  /\ \A i \in 1 .. ClusterEntries : ZeroBlock.records[i] = FreeRecord
<1>1. ClusterEntries \in Nat /\ MaxCluster \in Nat /\ MaxSize \in Nat
  BY SizeAssumption, BoundAssumption
<1>2. FreeRecord \in Record
  BY <1>1 DEF FreeRecord, Record
<1>3. [i \in 1 .. ClusterEntries |-> FreeRecord] \in Seq(Record)
  BY <1>1, <1>2
<1> QED BY <1>1, <1>3 DEF ZeroBlock, DirBlock, Block, Records

\* The places of the folder are what they were and those of the new cluster.
LEMMA GrownPlaces ==
  ASSUME NEW d, NEW folders, NEW paths, LaidOut(d, folders, paths),
         NEW e, NEW dir, NEW new, Grows1(d, e, folders, dir, new)
  PROVE  /\ Chain(Loaded(e), dir) = Append(Chain(Loaded(d), dir), new)
         /\ DirChain(e, dir) /\ new \notin Used(d, folders)
         /\ PlacesOf(new, ZeroBlock) \in Seq(Place)
         /\ Places(e, dir) = Places(d, dir) \o PlacesOf(new, ZeroBlock)
<1> DEFINE chain == Chain(Loaded(d), dir)
<1>1. /\ dir \in folders /\ dir # Root /\ new \in Clusters /\ Loaded(d)[new] = Free
      /\ d.data[new] = ZeroBlock /\ d \in Disk /\ e \in Disk /\ e.data = d.data
      /\ Loaded(e) = [Loaded(d) EXCEPT ![Last(chain)] = new, ![new] = Eoc]
  BY DEF Grows1, LaidOut
<1>2. DirChain(d, dir)
  BY <1>1, LaidFolder DEF FolderIs
<1>3. Chain(Loaded(e), dir) = Append(chain, new) /\ Chained(Loaded(e), dir)
  BY <1>1, <1>2, ChainGrows, LoadedFat DEF DirChain
<1>4. chain \in Seq(Clusters)
  BY <1>2, ChainClusters DEF DirChain
<1>5. new \notin Used(d, folders)
  BY <1>1, UsedIsTaken
<1> DEFINE more == Append(chain, new)
           n == Len(chain)
<1>6. more \in Seq(Clusters) /\ Len(more) = n + 1 /\ more[n + 1] = new
      /\ (\A i \in 1 .. n : more[i] = chain[i]) /\ n \in Nat /\ DOMAIN chain = 1 .. n
      /\ DOMAIN more = 1 .. n + 1
  BY <1>1, <1>4
<1>7. \A c \in ToSet(more) : e.data[c].kind = "dir"
  <2>1. \A c \in ToSet(more) : c \in ToSet(chain) \/ c = new
    <3>1. \A i \in 1 .. n + 1 : i = n + 1 \/ i \in 1 .. n
      BY <1>6
    <3> HIDE DEF more, chain, n
    <3> QED BY <1>6, <3>1 DEF ToSet
  <2> QED BY <1>1, <1>2, <2>1, ZeroIs DEF DirChain
<1>8. DirChain(e, dir)
  BY <1>3, <1>7 DEF DirChain
<1>9. PlacesIn(d, chain) \in Seq(Seq(Place)) /\ Places(d, dir) = FlattenSeq(PlacesIn(d, chain))
  BY <1>1, <1>4, FolderPlaces
<1>10. Places(e, dir) = FlattenSeq(PlacesIn(e, more))
  BY <1>1, <1>3, <1>6, FolderPlaces
<1>11. PlacesOf(new, ZeroBlock) \in Seq(Place)
  BY <1>1, ZeroIs, ClusterPlaces DEF ListsPlaces
<1>12. PlacesIn(e, more) = Append(PlacesIn(d, chain), PlacesOf(new, ZeroBlock))
  <2> HIDE DEF more, chain
  <2> DEFINE one == PlacesIn(d, chain)
             two == PlacesIn(e, more)
  <2>1. DOMAIN one = 1 .. n /\ DOMAIN two = 1 .. n + 1
    BY <1>6 DEF PlacesIn
  <2>2. ASSUME NEW k \in 1 .. n
        PROVE  two[k] = one[k]
    <3>1. k \in 1 .. n + 1 /\ more[k] = chain[k] /\ k \in DOMAIN chain /\ k \in DOMAIN more
      BY <1>6
    <3> QED BY <1>1, <3>1 DEF PlacesIn
  <2>3. two[n + 1] = PlacesOf(new, ZeroBlock)
    <3>1. n + 1 \in DOMAIN more /\ more[n + 1] = new
      BY <1>6
    <3> QED BY <1>1, <3>1 DEF PlacesIn, PlacesOf
  <2>4. two = [k \in 1 .. n + 1 |-> two[k]]
    BY <2>1 DEF PlacesIn
  <2>5. one \in Seq(Seq(Place)) /\ Len(one) = n
    BY <1>6, <1>9, <2>1 DEF chain
  <2> HIDE DEF one, two, n
  <2>6. /\ Append(one, PlacesOf(new, ZeroBlock)) \in Seq(Seq(Place))
        /\ Len(Append(one, PlacesOf(new, ZeroBlock))) = n + 1
        /\ Append(one, PlacesOf(new, ZeroBlock))[n + 1] = PlacesOf(new, ZeroBlock)
        /\ \A k \in 1 .. n : Append(one, PlacesOf(new, ZeroBlock))[k] = one[k]
    BY <1>11, <2>5
  <2>7. \A k \in 1 .. n + 1 : two[k] = Append(one, PlacesOf(new, ZeroBlock))[k]
    <3>1. \A k \in 1 .. n + 1 : k = n + 1 \/ k \in 1 .. n
      BY <1>6
    <3> QED BY <2>2, <2>3, <2>6, <3>1
  <2>8. two \in Seq(Seq(Place)) /\ Len(two) = n + 1
    <3>1. \A k \in 1 .. n + 1 : two[k] \in Seq(Place)
      <4>1. \A k \in 1 .. n + 1 : Append(one, PlacesOf(new, ZeroBlock))[k] \in Seq(Place)
        BY <2>6
      <4> QED BY <2>7, <4>1
    <3> QED BY <1>6, <2>4, <3>1
  <2>9. \A k \in 1 .. Len(two) : two[k] = Append(one, PlacesOf(new, ZeroBlock))[k]
    BY <2>7, <2>8
  <2>10. Len(two) = Len(Append(one, PlacesOf(new, ZeroBlock)))
    BY <2>6, <2>8
  <2>11. two = Append(one, PlacesOf(new, ZeroBlock))
    BY <2>6, <2>8, <2>9, <2>10, SameList
  <2> QED BY <2>11 DEF one, two
<1>13. FlattenSeq(PlacesIn(e, more)) = Places(d, dir) \o PlacesOf(new, ZeroBlock)
  <2> HIDE DEF more, chain
  <2> QED BY <1>9, <1>11, <1>12, FlattenedMore
<1> QED BY <1>3, <1>5, <1>8, <1>10, <1>11, <1>13

\* The entries and the records of every directory are what they were.
LEMMA GrownEntries ==
  ASSUME NEW d, NEW folders, NEW paths, LaidOut(d, folders, paths),
         NEW e, NEW dir, NEW new, Grows1(d, e, folders, dir, new), NEW c \in folders
  PROVE  /\ FreeTail(e, c) /\ Entries(e, c) = Entries(d, c)
         /\ \A p \in ToSet(Places(d, c)) : At(e, p) = At(d, p)
         /\ c # dir => SteadyFolder(d, e, c)
         /\ c # Root => DirChain(e, c) /\ e.data[c].self = c
<1>1. /\ dir \in folders /\ dir # Root /\ new \in Clusters /\ Loaded(d)[new] = Free
      /\ d.data[new] = ZeroBlock /\ d \in Disk /\ e \in Disk
      /\ e.root = d.root /\ e.data = d.data
      /\ Loaded(e) = [Loaded(d) EXCEPT ![Last(Chain(Loaded(d), dir))] = new, ![new] = Eoc]
  BY DEF Grows1, LaidOut
<1>2. \A p : At(e, p) = At(d, p)
  BY <1>1 DEF At
<1>3. /\ PlacesKnown(d, c) /\ FreeTail(d, c)
      /\ \A p : p \in Entries(d, c) <=> p \in ToSet(Places(d, c)) /\ At(d, p).state = "live"
  BY LaidPlaces
<1>4. c # Root => FolderIs(d, folders, c)
  BY LaidFolder
<1>5. CASE c # dir
  <2>1. ASSUME c # Root
        PROVE  LikeOn(d, e, ToSet(Chain(Loaded(d), c)))
    <3>1. FolderIs(d, folders, c) /\ FolderIs(d, folders, dir)
      BY <1>1, <2>1, LaidFolder
    <3>2. PICK a \in Entries(d, d.data[c].parent) :
             At(d, a).dir /\ At(d, a).first = c /\ Claimed(d, a) = ToSet(Chain(Loaded(d), c))
      BY <3>1 DEF FolderIs
    <3>3. PICK b \in Entries(d, d.data[dir].parent) :
             At(d, b).dir /\ At(d, b).first = dir /\ Claimed(d, b) = ToSet(Chain(Loaded(d), dir))
      BY <3>1 DEF FolderIs
    <3>4. d.data[c].parent \in folders /\ d.data[dir].parent \in folders
      BY <3>1 DEF FolderIs
    <3>5. Claimed(d, a) \cap Claimed(d, b) = {}
      BY <1>5, <3>2, <3>3, <3>4, LaidApart
    <3>6. Last(Chain(Loaded(d), dir)) \in ToSet(Chain(Loaded(d), dir))
      <4>1. Chained(Loaded(d), dir)
        BY <3>1 DEF FolderIs, DirChain
      <4>2. Chain(Loaded(d), dir) \in Seq(Clusters) /\ Chain(Loaded(d), dir) # <<>>
        BY <4>1 DEF Chained, IsChain
      <4> QED BY <4>2 DEF Last, ToSet
    <3>7. \A x \in ToSet(Chain(Loaded(d), c)) :
             x \in Clusters /\ Loaded(d)[x] # Free /\ x # Last(Chain(Loaded(d), dir))
      BY <3>1, <3>2, <3>3, <3>5, <3>6, ChainClusters DEF FolderIs, DirChain
    <3>8. \A x \in ToSet(Chain(Loaded(d), c)) : Loaded(e)[x] = Loaded(d)[x]
      <4>1. Loaded(d) \in Fat
        BY <1>1, LoadedFat
      <4> QED BY <1>1, <3>7, <4>1 DEF Fat
    <3> QED BY <1>1, <3>8 DEF LikeOn
  <2>2. SteadyFolder(d, e, c)
    BY <1>1, <2>1, KeepsFolder
  <2>3. Places(e, c) = Places(d, c) /\ PlacesKnown(e, c)
    BY <2>2 DEF SteadyFolder
  <2>4. FreeTail(e, c)
    BY <1>2, <1>3, <2>3 DEF FreeTail
  <2>5. \A p : p \in Entries(e, c) <=> p \in ToSet(Places(d, c)) /\ At(d, p).state = "live"
    <3>1. Places(e, c) \in Seq(Place)
      BY <2>3 DEF PlacesKnown
    <3> QED BY <1>2, <2>3, <2>4, <3>1, LiveEntries
  <2>6. Entries(e, c) = Entries(d, c)
    BY <1>3, <2>5
  <2> QED BY <1>2, <2>2, <2>4, <2>6 DEF SteadyFolder
<1>6. CASE c = dir
  <2> DEFINE old == Places(d, dir)
             more == PlacesOf(new, ZeroBlock)
             all == Places(e, dir)
  <2>1. DirChain(e, dir) /\ all = old \o more /\ more \in Seq(Place)
    BY GrownPlaces
  <2>2. e.data[c].self = c
    BY <1>1, <1>4, <1>6 DEF FolderIs
  <2>3. old \in Seq(Place)
    BY <1>3, <1>6 DEF PlacesKnown
  <2>4. ASSUME NEW i \in DOMAIN more
        PROVE  At(e, more[i]).state = "free"
    <3>1. i \in 1 .. ClusterEntries /\ more[i] = <<new, i>>
      BY <2>4, ZeroIs DEF PlacesOf
    <3>2. new # Root
      BY <1>1, SizeAssumption DEF Clusters, Root
    <3>3. At(e, more[i]) = FreeRecord
      BY <1>1, <3>1, <3>2, ZeroIs DEF At
    <3>4. FreeRecord.state = "free"
      BY DEF FreeRecord
    <3> QED BY <3>3, <3>4
  <2>5. EndToEnd(Place, old, more)
    BY <2>1, <2>3, TwoLists
  <2>6. \A i, j \in DOMAIN old :
            i < j /\ At(d, old[i]).state = "free" => At(d, old[j]).state = "free"
    BY <1>3, <1>6 DEF FreeTail
  <2> HIDE DEF old, more, all
  <2>7. /\ all \in Seq(Place) /\ Len(all) = Len(old) + Len(more)
        /\ \A i \in 1 .. Len(old) : all[i] = old[i]
        /\ \A i \in 1 .. Len(more) : all[Len(old) + i] = more[i]
        /\ Len(old) \in Nat /\ Len(more) \in Nat
        /\ DOMAIN old = 1 .. Len(old) /\ DOMAIN more = 1 .. Len(more) /\ DOMAIN all = 1 .. Len(all)
    BY <2>1, <2>3, <2>5 DEF EndToEnd
  <2>8. ASSUME NEW j \in DOMAIN all, j \notin DOMAIN old
        PROVE  At(e, all[j]).state = "free"
    <3>1. j - Len(old) \in 1 .. Len(more) /\ j = Len(old) + (j - Len(old))
      BY <2>7, <2>8
    <3> QED BY <2>4, <2>7, <3>1
  <2>9. FreeTail(e, dir)
    <3>1. ASSUME NEW i \in DOMAIN all, NEW j \in DOMAIN all, i < j, At(e, all[i]).state = "free"
          PROVE  At(e, all[j]).state = "free"
      <4>1. CASE j \in DOMAIN old
        <5>1. i \in DOMAIN old
          BY <2>7, <3>1, <4>1
        <5> QED BY <1>2, <2>6, <2>7, <3>1, <4>1, <5>1
      <4>2. CASE j \notin DOMAIN old
        BY <2>8, <4>2
      <4> QED BY <4>1, <4>2
    <3> QED BY <3>1 DEF FreeTail, all
  <2>10. \A p : p \in Entries(e, dir) <=> p \in ToSet(all) /\ At(e, p).state = "live"
    BY <2>7, <2>9, LiveEntries DEF all
  <2>11. \A p : p \in ToSet(old) => p \in ToSet(all)
    <3>1. \A i \in DOMAIN old : i \in DOMAIN all /\ all[i] = old[i]
      BY <2>7
    <3> QED BY <3>1 DEF ToSet
  <2>12. \A p : p \in ToSet(all) /\ At(e, p).state = "live" => p \in ToSet(old)
    <3>1. ASSUME NEW j \in DOMAIN all, At(e, all[j]).state = "live"
          PROVE  all[j] \in ToSet(old)
      <4>1. j \in DOMAIN old
        BY <2>8, <3>1
      <4> QED BY <2>7, <4>1 DEF ToSet
    <3> QED BY <3>1 DEF ToSet
  <2>13. Entries(e, dir) = Entries(d, dir)
    BY <1>2, <1>3, <1>6, <2>10, <2>11, <2>12 DEF old
  <2> QED BY <1>2, <1>6, <2>1, <2>2, <2>9, <2>13
<1> QED BY <1>5, <1>6

\* A volume is laid out when one of its folders has grown.
LEMMA Grown ==
  ASSUME NEW d, NEW folders, NEW paths, LaidOut(d, folders, paths),
         NEW e, NEW dir, NEW new, Grows1(d, e, folders, dir, new)
  PROVE  /\ LaidOut(e, folders, paths)
         /\ Used(e, folders) = Used(d, folders) \cup {new}
         /\ \A c \in folders : Entries(e, c) = Entries(d, c)
<1>1. /\ dir \in folders /\ dir # Root /\ new \in Clusters /\ Loaded(d)[new] = Free
      /\ d.data[new] = ZeroBlock /\ d \in Disk /\ e \in Disk
      /\ e.root = d.root /\ e.data = d.data
      /\ Loaded(e) = [Loaded(d) EXCEPT ![Last(Chain(Loaded(d), dir))] = new, ![new] = Eoc]
  BY DEF Grows1, LaidOut
<1>2. FolderIs(d, folders, dir)
  BY <1>1, LaidFolder
<1>3. d.data[dir].parent \in folders
  BY <1>2 DEF FolderIs
<1>4. PICK own \in Entries(d, d.data[dir].parent) :
         At(d, own).dir /\ At(d, own).first = dir
         /\ Claimed(d, own) = ToSet(Chain(Loaded(d), dir))
  BY <1>2 DEF FolderIs
<1> DEFINE kept == (UNION {Entries(d, c) : c \in folders}) \ {own}
<1>5. ASSUME NEW c \in folders
      PROVE  FreeTail(e, c) /\ Entries(e, c) = Entries(d, c)
             /\ (c # dir => SteadyFolder(d, e, c))
             /\ (c # Root => DirChain(e, c) /\ e.data[c].self = c)
  BY GrownEntries
<1>6. \A p : At(e, p) = At(d, p)
  BY <1>1 DEF At
<1>7. new \notin Used(d, folders)
  BY GrownPlaces
<1>8. Claimed(e, own) = Claimed(d, own) \cup {new}
  <2>1. Chain(Loaded(e), dir) = Append(Chain(Loaded(d), dir), new)
    BY GrownPlaces
  <2>2. Chain(Loaded(d), dir) \in Seq(Clusters)
    BY <1>2 DEF FolderIs
  <2>3. ToSet(Append(Chain(Loaded(d), dir), new)) = ToSet(Chain(Loaded(d), dir)) \cup {new}
    <3> DEFINE s == Chain(Loaded(d), dir)
               t == Append(s, new)
               n == Len(s)
    <3>1. /\ n \in Nat /\ DOMAIN s = 1 .. n /\ DOMAIN t = 1 .. n + 1 /\ t[n + 1] = new
          /\ \A i \in 1 .. n : t[i] = s[i]
      BY <1>1, <2>2
    <3> HIDE DEF s, t, n
    <3>2. \A i \in 1 .. n + 1 : i = n + 1 \/ i \in 1 .. n
      BY <3>1
    <3>3. n + 1 \in 1 .. n + 1 /\ \A i \in 1 .. n : i \in 1 .. n + 1
      BY <3>1
    <3>4. ToSet(t) = ToSet(s) \cup {new}
      BY <3>1, <3>2, <3>3 DEF ToSet
    <3> QED BY <3>4 DEF s, t
  <2> QED BY <1>4, <1>6, <2>1, <2>3 DEF Claimed
<1>9. ASSUME NEW c \in folders, NEW p \in Entries(d, c), p # own
      PROVE  LikeOn(d, e, Claimed(d, p)) /\ Claimed(e, p) = Claimed(d, p)
             /\ Claimed(d, p) \subseteq Used(d, folders)
             /\ Claimed(d, p) \cap Claimed(d, own) = {}
  <2>1. Claimed(d, p) \cap Claimed(d, own) = {}
    BY <1>3, <1>4, <1>9, LaidApart
  <2>2. Last(Chain(Loaded(d), dir)) \in Claimed(d, own)
    <3>1. Chain(Loaded(d), dir) \in Seq(Clusters) /\ Chain(Loaded(d), dir) # <<>>
      BY <1>2 DEF FolderIs, DirChain, Chained, IsChain
    <3> QED BY <1>4, <3>1 DEF Last, ToSet
  <2>3. EntryIs(d, folders, p)
    BY LaidEntry
  <2>4. \A x \in Claimed(d, p) : x \in Clusters /\ x # Last(Chain(Loaded(d), dir)) /\ x # new
    BY <1>1, <2>1, <2>2, <2>3 DEF EntryIs
  <2>5. \A x \in Claimed(d, p) : Loaded(e)[x] = Loaded(d)[x]
    <3>1. Loaded(d) \in Fat
      BY <1>1, LoadedFat
    <3> QED BY <1>1, <2>4, <3>1 DEF Fat
  <2>6. LikeOn(d, e, Claimed(d, p))
    BY <1>1, <2>5 DEF LikeOn
  <2>7. SteadyEntry(d, e, At(d, p))
    BY <1>1, <2>3, <2>6, KeepsEntry DEF EntryIs, Claimed
  <2>8. Claimed(e, p) = Claimed(d, p)
    BY <1>6, <2>7 DEF SteadyEntry, Claimed
  <2> QED BY <2>1, <2>3, <2>6, <2>8 DEF EntryIs
<1>10. ASSUME NEW c \in folders, NEW p \in Entries(e, c)
       PROVE  IF p \in kept THEN Stays(d, e, folders, folders, paths, c, p)
              ELSE Comes(e, folders, paths, c, p)
  <2>1. p \in Entries(d, c) /\ EntrySound(d, folders, paths, c, p)
    BY <1>5 DEF LaidOut
  <2>2. CASE p # own
    <3>1. At(d, p).dir => /\ At(d, p).first \in folders
                          /\ paths[At(d, p).first] = Append(paths[c], At(d, p).name)
      BY <2>1 DEF EntrySound
    <3> QED BY <1>6, <1>9, <2>1, <2>2, <3>1 DEF Stays
  <2>3. CASE p = own
    <3>1. EntrySound(e, folders, paths, c, p)
      BY <1>4, <1>6, <2>1, <2>3 DEF EntrySound
    <3>2. ASSUME NEW other \in folders, NEW q \in Entries(e, other), q # p
          PROVE  /\ Claimed(e, p) \cap Claimed(e, q) = {}
                 /\ c = other => At(e, p).name # At(e, q).name
      <4>1. q \in Entries(d, other)
        BY <1>5
      <4>2. Claimed(e, p) \cap Claimed(e, q) = {}
        BY <1>7, <1>8, <1>9, <2>3, <3>2, <4>1
      <4>3. c = other => At(d, p).name # At(d, q).name
        BY <2>1, <3>2, <4>1, LaidApart
      <4> QED BY <1>6, <4>2, <4>3
    <3>3. AwayFrom(e, folders, c, p)
      BY <3>2 DEF AwayFrom
    <3> QED BY <2>3, <3>1, <3>3 DEF Comes
  <2> QED BY <2>2, <2>3
<1>11. ASSUME NEW c \in folders, c # Root
       PROVE  FolderSound(e, folders, c)
  <2>1. FolderIs(d, folders, c)
    BY <1>11, LaidFolder
  <2>2. DirChain(e, c) /\ e.data[c].self = c
    BY <1>5, <1>11
  <2>3. e.data[c].parent \in folders
        /\ \E p \in Entries(d, e.data[c].parent) : At(d, p).dir /\ At(d, p).first = c
    BY <1>1, <2>1 DEF FolderIs
  <2>4. \E p \in Entries(e, e.data[c].parent) : At(e, p).dir /\ At(e, p).first = c
    BY <1>5, <1>6, <2>3
  <2> QED BY <2>2, <2>3, <2>4 DEF FolderSound, DirChain
<1>12. /\ folders \subseteq 0 .. MaxCluster /\ Root \in folders
       /\ paths \in [folders -> Seq(Names)] /\ paths[Root] = <<>>
  BY DEF LaidOut
<1>13. Relays(d, folders, e, folders, paths, kept)
  <2> HIDE DEF kept
  <2> QED BY <1>1, <1>5, <1>10, <1>11, <1>12 DEF Relays
<1>14. LaidOut(e, folders, paths)
  <2> HIDE DEF kept
  <2> QED BY <1>13, Relaid
<1>15. ASSUME NEW c
       PROVE  c \in Used(e, folders) <=> c \in Used(d, folders) \/ c = new
  <2>1. c \in Used(e, folders) <=> \E f \in folders : \E p \in Entries(d, f) : c \in Claimed(e, p)
    BY <1>5, UsedAfter
  <2>2. c \in Used(d, folders) <=> \E f \in folders : \E p \in Entries(d, f) : c \in Claimed(d, p)
    BY UsedAfter
  <2> QED BY <1>3, <1>4, <1>8, <1>9, <2>1, <2>2
<1> QED BY <1>5, <1>14, <1>15
(***************************************************************************)
(* The tree as a user sees it, and what a change makes of it.              *)
(***************************************************************************)

\* An entry as a user sees it.
Item(d, paths, dir, p) ==
    [path |-> Append(paths[dir], At(d, p).name), dir |-> At(d, p).dir,
     data |-> Data(d, At(d, p))]
ItemOf(d, folders, paths, t) ==
    \E dir \in folders : \E p \in Entries(d, dir) : t = Item(d, paths, dir, p)

\* The tree of a volume has an item for every entry of its folders.
LEMMA TreeIs ==
  ASSUME NEW d, NEW folders, NEW paths, LaidOut(d, folders, paths)
  PROVE  \A t : t \in Tree(d) <=> ItemOf(d, folders, paths, t)
<1>1. ASSUME NEW t \in Tree(d)
      PROVE  ItemOf(d, folders, paths, t)
  <2>1. PICK o \in Objects(d) :
           t = [path |-> o.path, dir |-> o.entry.dir, data |-> Data(d, o.entry)]
    BY DEF Tree
  <2>2. PICK dir \in folders : \E p \in Entries(d, dir) :
           o.path = Append(paths[dir], At(d, p).name) /\ o.entry = At(d, p)
    BY ObjectIs
  <2>3. PICK p \in Entries(d, dir) :
           o.path = Append(paths[dir], At(d, p).name) /\ o.entry = At(d, p)
    BY <2>2
  <2>4. t = Item(d, paths, dir, p)
    BY <2>1, <2>3 DEF Item
  <2> QED BY <2>4 DEF ItemOf
<1>2. ASSUME NEW dir \in folders, NEW p \in Entries(d, dir)
      PROVE  Item(d, paths, dir, p) \in Tree(d)
  <2>1. Obj(d, paths, dir, p) \in Objects(d)
    BY ObjectOf
  <2>2. /\ Obj(d, paths, dir, p).path = Append(paths[dir], At(d, p).name)
        /\ Obj(d, paths, dir, p).entry = At(d, p)
    BY DEF Obj
  <2> QED BY <2>1, <2>2 DEF Tree, Item
<1> QED BY <1>1, <1>2 DEF ItemOf

\* The data of an entry is the content of its chain, whatever else changes.
LEMMA SameData ==
  ASSUME NEW d, NEW e, NEW entry, NEW other, other.dir = entry.dir,
         ~ entry.dir => /\ Chain(Loaded(e), other.first) = Chain(Loaded(d), entry.first)
                        /\ \A c \in ToSet(Chain(Loaded(d), entry.first)) : e.data[c] = d.data[c]
  PROVE  Data(e, other) = Data(d, entry)
<1> DEFINE chain == Chain(Loaded(d), entry.first)
<1>1. CASE entry.dir
  BY <1>1 DEF Data
<1>2. CASE ~ entry.dir
  <2>1. Chain(Loaded(e), other.first) = chain
    BY <1>2
  <2>2. \A i \in DOMAIN chain : e.data[chain[i]] = d.data[chain[i]]
    BY <1>2 DEF ToSet
  <2> HIDE DEF chain
  <2>3. Data(d, entry) = [i \in DOMAIN chain |-> d.data[chain[i]]]
    BY <1>2 DEF Data, chain
  <2>4. Data(e, other) = [i \in DOMAIN chain |-> e.data[chain[i]]]
    BY <1>2, <2>1 DEF Data
  <2> QED BY <2>2, <2>3, <2>4
<1> QED BY <1>1, <1>2

\* An entry whose clusters are left alone has the data it had.
LEMMA KeptData ==
  ASSUME NEW d, NEW folders, NEW paths, LaidOut(d, folders, paths), NEW e \in Disk,
         NEW dir \in folders, NEW p \in Entries(d, dir), LikeOn(d, e, Claimed(d, p)),
         NEW other, other.dir = At(d, p).dir, other.first = At(d, p).first
  PROVE  Data(e, other) = Data(d, At(d, p))
<1>1. ASSUME ~ At(d, p).dir
      PROVE  /\ Chain(Loaded(e), other.first) = Chain(Loaded(d), At(d, p).first)
             /\ \A c \in ToSet(Chain(Loaded(d), At(d, p).first)) : e.data[c] = d.data[c]
  <2> DEFINE chain == Chain(Loaded(d), At(d, p).first)
  <2>1. d \in Disk
    BY DEF LaidOut
  <2>2. EntryIs(d, folders, p)
    BY LaidEntry
  <2>3. SteadyEntry(d, e, At(d, p))
    BY <2>1, <2>2, KeepsEntry DEF EntryIs, Claimed
  <2>4. PICK write : \A i \in DOMAIN chain : d.data[chain[i]] = FileBlock(write, i, At(d, p).size)
    BY <1>1, LaidFile DEF FileSound, Holds
  <2>5. ASSUME NEW c \in ToSet(chain) PROVE e.data[c] = d.data[c]
    <3>1. PICK i \in DOMAIN chain : c = chain[i]
      BY DEF ToSet
    <3>2. d.data[c].kind = "file"
      <4>1. d.data[chain[i]] = FileBlock(write, i, At(d, p).size)
        BY <2>4
      <4>2. FileBlock(write, i, At(d, p).size).kind = "file"
        BY DEF FileBlock
      <4> QED BY <3>1, <4>1, <4>2
    <3>3. c \in Claimed(d, p)
      BY DEF Claimed
    <3> QED BY <3>2, <3>3 DEF LikeOn
  <2> QED BY <2>3, <2>5 DEF SteadyEntry
<1> QED BY <1>1, SameData

\* Entries are in their folders, under their names and with their data, as they were.
SameItems(d, e, folders) ==
    \A c \in folders :
        /\ Entries(e, c) = Entries(d, c)
        /\ \A p \in Entries(d, c) : /\ At(e, p).name = At(d, p).name
                                    /\ At(e, p).dir = At(d, p).dir
                                    /\ Data(e, At(e, p)) = Data(d, At(d, p))

\* Then the tree is the same.
LEMMA SameTree ==
  ASSUME NEW d, NEW e, NEW folders, NEW paths, LaidOut(d, folders, paths),
         LaidOut(e, folders, paths), SameItems(d, e, folders)
  PROVE  Tree(e) = Tree(d)
<1>1. \A c \in folders : \A p \in Entries(d, c) : Item(e, paths, c, p) = Item(d, paths, c, p)
  BY DEF Item, SameItems
<1>2. \A c \in folders : Entries(e, c) = Entries(d, c)
  BY DEF SameItems
<1>3. \A t : ItemOf(e, folders, paths, t) <=> ItemOf(d, folders, paths, t)
  BY <1>1, <1>2 DEF ItemOf
<1>4. \A t : t \in Tree(e) <=> ItemOf(e, folders, paths, t)
  BY TreeIs
<1>5. \A t : t \in Tree(d) <=> ItemOf(d, folders, paths, t)
  BY TreeIs
<1>6. \A t : t \in Tree(e) <=> t \in Tree(d)
  BY <1>3, <1>4, <1>5
<1> QED BY <1>6

\* A change that leaves what is used leaves the tree.
LEMMA LeftTree ==
  ASSUME NEW d, NEW folders, NEW paths, LaidOut(d, folders, paths),
         NEW e, Leaves(d, e, folders)
  PROVE  Tree(e) = Tree(d)
<1>1. LaidOut(e, folders, paths) /\ e \in Disk
  BY Untouched DEF LaidOut
<1>2. Edits(d, e, folders, {})
  BY DEF Leaves
<1>3. ASSUME NEW c \in folders
      PROVE  /\ Entries(e, c) = Entries(d, c)
             /\ \A p \in Entries(d, c) : At(e, p) = At(d, p) /\ LikeOn(d, e, Claimed(d, p))
  <2>1. Edited(d, e, c, {})
    BY <1>2, EditedFolder
  <2>2. \A p \in Entries(d, c) : At(e, p) = At(d, p) /\ LikeOn(d, e, Claimed(d, p))
    BY <1>2, EditLeaves
  <2> QED BY <2>1, <2>2 DEF Edited
<1>4. ASSUME NEW c \in folders, NEW p \in Entries(d, c)
      PROVE  Data(e, At(e, p)) = Data(d, At(d, p))
  BY <1>1, <1>3, KeptData
<1>5. SameItems(d, e, folders)
  BY <1>3, <1>4 DEF SameItems
<1> QED BY <1>1, <1>5, SameTree

\* A folder that grows shows nothing new.
LEMMA GrownTree ==
  ASSUME NEW d, NEW folders, NEW paths, LaidOut(d, folders, paths),
         NEW e, NEW dir, NEW new, Grows1(d, e, folders, dir, new)
  PROVE  Tree(e) = Tree(d)
<1>1. LaidOut(e, folders, paths) /\ \A c \in folders : Entries(e, c) = Entries(d, c)
  BY Grown
<1>2. /\ dir \in folders /\ dir # Root /\ e.data = d.data /\ e \in Disk /\ d \in Disk
      /\ Loaded(d)[new] = Free
      /\ Loaded(e) = [Loaded(d) EXCEPT ![Last(Chain(Loaded(d), dir))] = new, ![new] = Eoc]
  BY DEF Grows1, LaidOut
<1>3. Loaded(d) \in Fat /\ Loaded(e) \in Fat
  BY <1>2, LoadedFat
<1>4. FolderIs(d, folders, dir)
  BY <1>2, LaidFolder
<1>5. d.data[dir].parent \in folders
  BY <1>4 DEF FolderIs
<1>6. PICK own \in Entries(d, d.data[dir].parent) :
         At(d, own).dir /\ Claimed(d, own) = ToSet(Chain(Loaded(d), dir))
  BY <1>4 DEF FolderIs
<1>7. Last(Chain(Loaded(d), dir)) \in ToSet(Chain(Loaded(d), dir))
  <2>1. /\ Chain(Loaded(d), dir) \in Seq(Clusters)
        /\ dir \in ToSet(Chain(Loaded(d), dir))
    BY <1>4, ChainClusters DEF FolderIs, DirChain
  <2>2. Chain(Loaded(d), dir) # <<>>
    BY <2>1, EmptyList
  <2>3. Len(Chain(Loaded(d), dir)) \in DOMAIN Chain(Loaded(d), dir)
    BY <2>1, <2>2
  <2> QED BY <2>3 DEF Last, ToSet
<1>8. ASSUME NEW c \in folders, NEW p \in Entries(d, c)
      PROVE  At(e, p) = At(d, p) /\ Data(e, At(e, p)) = Data(d, At(d, p))
  <2>1. \A q \in ToSet(Places(d, c)) : At(e, q) = At(d, q)
    BY GrownEntries
  <2>2. At(e, p) = At(d, p)
    BY <2>1, LaidPlaces
  <2>3. ASSUME ~ At(d, p).dir
        PROVE  Chain(Loaded(e), At(d, p).first) = Chain(Loaded(d), At(d, p).first)
    <3>1. EntryIs(d, folders, p)
      BY LaidEntry
    <3>2. Claimed(d, p) \cap Claimed(d, own) = {}
      BY <1>5, <1>6, <2>3, LaidApart
    <3>3. \A b \in Claimed(d, p) : Loaded(e)[b] = Loaded(d)[b]
      <4>1. \A b \in Claimed(d, p) : b \in Clusters /\ Loaded(d)[b] # Free
        BY <3>1 DEF EntryIs
      <4>2. Last(Chain(Loaded(d), dir)) \notin Claimed(d, p)
        BY <1>6, <1>7, <3>2
      <4>3. DOMAIN Loaded(d) = Clusters
        BY <1>3 DEF Fat
      <4> QED BY <1>2, <4>1, <4>2, <4>3
    <3>4. CASE At(d, p).first = 0
      BY <1>3, <3>4, NoChain
    <3>5. CASE Chained(Loaded(d), At(d, p).first)
      BY <1>3, <3>3, <3>5, ChainKept DEF Claimed
    <3> QED BY <3>1, <3>4, <3>5 DEF EntryIs
  <2>4. \A b \in ToSet(Chain(Loaded(d), At(d, p).first)) : e.data[b] = d.data[b]
    BY <1>2
  <2> QED BY <2>2, <2>3, <2>4, SameData
<1>9. SameItems(d, e, folders)
  BY <1>1, <1>8 DEF SameItems
<1> QED BY <1>1, <1>9, SameTree
\* An entry that a change of other records leaves is the item it was.
LEMMA EditedItem ==
  ASSUME NEW d, NEW folders, NEW paths, LaidOut(d, folders, paths),
         NEW e, NEW X, Edits(d, e, folders, X),
         NEW dir \in folders, NEW p \in Entries(d, dir), p \notin X
  PROVE  At(e, p) = At(d, p) /\ Data(e, At(e, p)) = Data(d, At(d, p))
<1>1. e \in Disk
  BY DEF Edits
<1>2. At(e, p) = At(d, p) /\ LikeOn(d, e, Claimed(d, p))
  BY EditLeaves
<1> QED BY <1>1, <1>2, KeptData

\* An item that was deleted is the one that is gone from the tree.
LEMMA DeletedTree ==
  ASSUME NEW d, NEW folders, NEW paths, LaidOut(d, folders, paths),
         NEW e, NEW dir, NEW p, Deletes(d, e, folders, dir, p)
  PROVE  Tree(e) = Tree(d) \ {Item(d, paths, dir, p)}
<1> DEFINE now == Without(d, folders, p)
           nowPaths == [c \in now |-> paths[c]]
<1>1. /\ dir \in folders /\ p \in Entries(d, dir) /\ Edits(d, e, folders, {p})
      /\ At(d, p).dir => Entries(d, At(d, p).first) = {}
  BY DEF Deletes
<1>2. LaidOut(e, now, nowPaths) /\ \A c \in now : Entries(e, c) = Entries(d, c) \ {p}
  BY Deleted
<1>3. now \subseteq folders /\ \A c \in folders : c \notin now => Entries(d, c) = {}
  BY <1>1 DEF Without
<1>4. \A c \in now : nowPaths[c] = paths[c]
  OBVIOUS
<1> HIDE DEF now, nowPaths
<1>5. ASSUME NEW c \in now, NEW a \in Entries(d, c), a # p
      PROVE  Item(e, nowPaths, c, a) = Item(d, paths, c, a)
  <2>1. At(e, a) = At(d, a) /\ Data(e, At(e, a)) = Data(d, At(d, a))
    BY <1>1, <1>3, <1>5, EditedItem
  <2> QED BY <1>4, <2>1 DEF Item
<1>6. ASSUME NEW c \in folders, NEW a \in Entries(d, c), a # p
      PROVE  Item(d, paths, c, a) # Item(d, paths, dir, p)
  <2>1. Append(paths[c], At(d, a).name) # Append(paths[dir], At(d, p).name)
    BY <1>1, <1>6, OnePath
  <2> QED BY <2>1 DEF Item
<1>7. \A t : t \in Tree(e) <=> ItemOf(e, now, nowPaths, t)
  BY <1>2, TreeIs
<1>8. \A t : t \in Tree(d) <=> ItemOf(d, folders, paths, t)
  BY TreeIs
<1>9. ASSUME NEW t \in Tree(e)
      PROVE  t \in Tree(d) /\ t # Item(d, paths, dir, p)
  <2>1. PICK c \in now : \E a \in Entries(e, c) : t = Item(e, nowPaths, c, a)
    BY <1>7 DEF ItemOf
  <2>2. PICK a \in Entries(e, c) : t = Item(e, nowPaths, c, a)
    BY <2>1
  <2>3. a \in Entries(d, c) /\ a # p /\ c \in folders
    BY <1>2, <1>3
  <2>4. t = Item(d, paths, c, a)
    BY <1>5, <2>2, <2>3
  <2> QED BY <1>6, <1>8, <2>3, <2>4 DEF ItemOf
<1>10. ASSUME NEW t \in Tree(d), t # Item(d, paths, dir, p)
       PROVE  t \in Tree(e)
  <2>1. PICK c \in folders : \E a \in Entries(d, c) : t = Item(d, paths, c, a)
    BY <1>8 DEF ItemOf
  <2>2. PICK a \in Entries(d, c) : t = Item(d, paths, c, a)
    BY <2>1
  <2>3. c \in now
    BY <1>3, <2>2
  <2>4. a # p
    <3>1. ASSUME a = p PROVE c = dir
      BY <1>1, <3>1, ObjectPlace
    <3> QED BY <1>10, <2>2, <3>1
  <2>5. t = Item(e, nowPaths, c, a) /\ a \in Entries(e, c)
    BY <1>2, <1>5, <2>2, <2>3, <2>4
  <2> QED BY <1>7, <2>3, <2>5 DEF ItemOf
<1> QED BY <1>9, <1>10

\* An entry that comes is one item more.
LEMMA InsertedTree ==
  ASSUME NEW d, NEW folders, NEW paths, LaidOut(d, folders, paths),
         NEW e, NEW dir, NEW q, NEW folders2, NEW paths2,
         Inserts(d, e, folders, paths, dir, q, folders2, paths2)
  PROVE  Tree(e) = Tree(d) \cup {Item(e, paths2, dir, q)}
<1>1. /\ dir \in folders /\ Edits(d, e, folders, {q}) /\ At(d, q).state # "live"
      /\ folders \subseteq folders2 /\ \A c \in folders : paths2[c] = paths[c]
      /\ \A c \in folders2 \ folders : Entries(e, c) = {}
  BY DEF Inserts
<1>2. LaidOut(e, folders2, paths2)
  BY Inserted
<1>3. \A c \in folders : Entries(e, c) = IF c = dir THEN Entries(d, c) \cup {q} ELSE Entries(d, c)
  BY Inserted
<1>4. ASSUME NEW c \in folders, NEW a \in Entries(d, c)
      PROVE  Item(e, paths2, c, a) = Item(d, paths, c, a)
  <2>1. At(d, a).state = "live"
    BY LaidEntry DEF EntryIs
  <2>2. a \notin {q}
    BY <1>1, <2>1
  <2>3. At(e, a) = At(d, a) /\ Data(e, At(e, a)) = Data(d, At(d, a))
    BY <1>1, <2>2, EditedItem
  <2> QED BY <1>1, <2>3 DEF Item
<1>5. \A t : t \in Tree(e) <=> ItemOf(e, folders2, paths2, t)
  BY <1>2, TreeIs
<1>6. \A t : t \in Tree(d) <=> ItemOf(d, folders, paths, t)
  BY TreeIs
<1>7. ASSUME NEW t \in Tree(e)
      PROVE  t \in Tree(d) \/ t = Item(e, paths2, dir, q)
  <2>1. PICK c \in folders2 : \E a \in Entries(e, c) : t = Item(e, paths2, c, a)
    BY <1>5 DEF ItemOf
  <2>2. PICK a \in Entries(e, c) : t = Item(e, paths2, c, a)
    BY <2>1
  <2>3. c \in folders
    BY <1>1, <2>2
  <2>4. a \in Entries(d, c) \/ (a = q /\ c = dir)
    BY <1>3, <2>2, <2>3
  <2> QED BY <1>4, <1>6, <2>2, <2>3, <2>4 DEF ItemOf
<1>8. ASSUME NEW t \in Tree(d)
      PROVE  t \in Tree(e)
  <2>1. PICK c \in folders : \E a \in Entries(d, c) : t = Item(d, paths, c, a)
    BY <1>6 DEF ItemOf
  <2>2. PICK a \in Entries(d, c) : t = Item(d, paths, c, a)
    BY <2>1
  <2>3. c \in folders2 /\ a \in Entries(e, c) /\ t = Item(e, paths2, c, a)
    BY <1>1, <1>3, <1>4, <2>2
  <2> QED BY <1>5, <2>3 DEF ItemOf
<1>9. Item(e, paths2, dir, q) \in Tree(e)
  <2>1. dir \in folders2 /\ q \in Entries(e, dir)
    BY <1>1, <1>3
  <2> QED BY <1>5, <2>1 DEF ItemOf
<1> QED BY <1>7, <1>8, <1>9
\* An item under a path with its beginning replaced.
Shifted(old, new, t) == [t EXCEPT !.path = Rebased(old, new, t.path)]
ShiftedTree(old, new, tree) == {Shifted(old, new, t) : t \in tree}

\* Where an item is when the beginning of its path is replaced.
RebasesItem(d, paths, p, old, new, c, a) ==
    /\ a = p => Rebased(old, new, Append(paths[c], At(d, a).name)) = new
    /\ a # p => Rebased(old, new, Append(paths[c], At(d, a).name)) =
                   Append(Rebased(old, new, paths[c]), At(d, a).name)

\* What begins with the path of the entry that goes is what is in it.
LEMMA RebasedItem ==
  ASSUME NEW d, NEW folders, NEW paths, LaidOut(d, folders, paths),
         NEW dir \in folders, NEW p \in Entries(d, dir), NEW new \in Seq(Names),
         NEW old, old = Append(paths[dir], At(d, p).name),
         NEW c \in folders, NEW a \in Entries(d, c)
  PROVE  RebasesItem(d, paths, p, old, new, c, a)
<1> DEFINE s == paths[c]
           n == At(d, a).name
<1>1. s \in Seq(Names) /\ paths[dir] \in Seq(Names)
  BY DEF LaidOut
<1>2. n \in Names /\ At(d, p).name \in Names
  <2>1. n \in Names
    BY LaidEntry DEF EntryIs
  <2>2. At(d, p).name \in Names
    BY LaidEntry DEF EntryIs
  <2> QED BY <2>1, <2>2
<1>3. old \in Seq(Names)
  BY <1>1, <1>2
<1>4. CASE a = p
  <2>1. c = dir
    BY <1>4, ObjectPlace
  <2>2. IsPrefix(old, old) /\ Len(old) \in Nat /\ Len(new) \in Nat
    BY <1>3 DEF IsPrefix
  <2>3. /\ Rebased(old, new, old) \in Seq(Names)
        /\ Len(Rebased(old, new, old)) = Len(new) + Len(old) - Len(old)
        /\ \A i \in 1 .. Len(new) : Rebased(old, new, old)[i] = new[i]
    <3>1. RebasedParts(Names, old, new, old)
      BY <1>3, RebasedIs
    <3> QED BY <2>2, <3>1 DEF RebasedParts
  <2>4. Len(Rebased(old, new, old)) = Len(new)
        /\ \A i \in 1 .. Len(new) : new[i] = Rebased(old, new, old)[i]
    BY <2>2, <2>3
  <2>5. Rebased(old, new, old) = new
    BY <2>3, <2>4, SameList
  <2> QED BY <1>4, <2>1, <2>5 DEF RebasesItem
<1>5. CASE a # p
  <2>1. Append(s, n) # old
    <3>1. Append(paths[c], At(d, a).name) # Append(paths[dir], At(d, p).name)
      BY <1>5, OnePath
    <3> QED BY <3>1
  <2> HIDE DEF s, n
  <2>2. Lengthens(old, new, s, n)
    BY <1>1, <1>2, <1>3, RebasedMore
  <2>3. ~ IsPrefix(old, s) => Rebased(old, new, s) = s
    BY DEF Rebased
  <2>4. Rebased(old, new, Append(s, n)) = Append(Rebased(old, new, s), n)
    BY <2>1, <2>2, <2>3 DEF Lengthens
  <2> QED BY <1>5, <2>4 DEF s, n, RebasesItem
<1> QED BY <1>4, <1>5

\* The record p of dir is now q of dir2, and what is in it is below the new path.
Relocates(d, e, folders, paths, dir, p, dir2, q, name, paths2, old, new) ==
    /\ Moves(d, e, folders, dir, p, dir2, q, name, paths2)
    /\ old = Append(paths[dir], At(d, p).name) /\ new = Append(paths[dir2], name)
    /\ ~ IsPrefix(old, paths[dir2])
    /\ \A c \in folders : paths2[c] = Rebased(old, new, paths[c])

\* What was at the old path, and in it, is at the new one.
LEMMA MovedTree ==
  ASSUME NEW d, NEW folders, NEW paths, LaidOut(d, folders, paths),
         NEW e, NEW dir, NEW p, NEW dir2, NEW q, NEW name, NEW paths2, NEW old, NEW new,
         Relocates(d, e, folders, paths, dir, p, dir2, q, name, paths2, old, new)
  PROVE  Tree(e) = ShiftedTree(old, new, Tree(d))
<1>1. /\ Moves(d, e, folders, dir, p, dir2, q, name, paths2)
      /\ old = Append(paths[dir], At(d, p).name) /\ new = Append(paths[dir2], name)
      /\ ~ IsPrefix(old, paths[dir2])
      /\ \A c \in folders : paths2[c] = Rebased(old, new, paths[c])
  BY DEF Relocates
<1> USE <1>1
<1>2. /\ dir \in folders /\ dir2 \in folders /\ p \in Entries(d, dir)
      /\ q = p \/ At(d, q).state # "live"
      /\ Edits(d, e, folders, {p, q})
      /\ At(e, q) = [At(d, p) EXCEPT !.name = name] /\ name \in Names
  BY <1>1 DEF Moves
<1>3. LaidOut(e, folders, paths2)
  BY <1>1, Moved
<1>4. \A c \in folders : \A a : a \in Entries(e, c) <=>
         (a \in Entries(d, c) /\ a # p) \/ (a = q /\ c = dir2)
  BY <1>1, Moved
<1>5. new \in Seq(Names)
  <2>1. paths[dir2] \in Seq(Names)
    BY <1>2 DEF LaidOut
  <2> QED BY <1>2, <2>1
<1>6. ASSUME NEW c \in folders, NEW a \in Entries(d, c)
      PROVE  At(d, a) \in Record /\ At(d, a).state = "live"
  BY LaidEntry DEF EntryIs
<1>7. ASSUME NEW c \in folders, NEW a \in Entries(d, c)
      PROVE  Item(d, paths, c, a).path = Append(paths[c], At(d, a).name)
             /\ Shifted(old, new, Item(d, paths, c, a)) =
                    [path |-> Rebased(old, new, Append(paths[c], At(d, a).name)),
                     dir |-> At(d, a).dir, data |-> Data(d, At(d, a))]
  BY DEF Item, Shifted
<1>8. ASSUME NEW c \in folders, NEW a \in Entries(d, c), a # p
      PROVE  Item(e, paths2, c, a) = Shifted(old, new, Item(d, paths, c, a))
  <2>1. a # q
    BY <1>2, <1>6, <1>8
  <2>2. At(e, a) = At(d, a) /\ Data(e, At(e, a)) = Data(d, At(d, a))
    <3>1. a \notin {p, q}
      BY <1>8, <2>1
    <3> QED BY <1>2, <3>1, EditedItem
  <2>3. Rebased(old, new, Append(paths[c], At(d, a).name)) = Append(paths2[c], At(d, a).name)
    <3>1. Rebased(old, new, Append(paths[c], At(d, a).name)) =
              Append(Rebased(old, new, paths[c]), At(d, a).name)
      <4>1. RebasesItem(d, paths, p, old, new, c, a)
        BY <1>2, <1>5, RebasedItem
      <4> QED BY <1>8, <4>1 DEF RebasesItem
    <3> QED BY <3>1
  <2> QED BY <1>7, <2>2, <2>3 DEF Item
<1>9. Item(e, paths2, dir2, q) = Shifted(old, new, Item(d, paths, dir, p))
  <2>1. paths2[dir2] = paths[dir2]
    BY <1>2 DEF Rebased
  <2>2. At(d, p) \in Record
    BY <1>2, <1>6
  <2>3. /\ At(e, q).name = name /\ At(e, q).dir = At(d, p).dir
        /\ At(e, q).first = At(d, p).first
    BY <1>2, <2>2, RecordIs
  <2>4. Data(e, At(e, q)) = Data(d, At(d, p))
    <3>1. LikeOn(d, e, Claimed(d, p)) /\ e \in Disk
      <4>1. LikeOn(d, e, Used(d, folders)) /\ e \in Disk
        BY <1>2 DEF Edits
      <4>2. Claimed(d, p) \subseteq Used(d, folders)
        BY <1>2, ClaimedUsed
      <4> QED BY <4>1, <4>2 DEF LikeOn
    <3>2. dir \in folders /\ p \in Entries(d, dir)
      BY <1>2
    <3> QED BY <2>3, <3>1, <3>2, KeptData
  <2>5. Rebased(old, new, Append(paths[dir], At(d, p).name)) = new
    <3>1. RebasesItem(d, paths, p, old, new, dir, p)
      BY <1>2, <1>5, RebasedItem
    <3> QED BY <3>1 DEF RebasesItem
  <2>6. Shifted(old, new, Item(d, paths, dir, p)) =
            [path |-> new, dir |-> At(d, p).dir, data |-> Data(d, At(d, p))]
    BY <1>2, <1>7, <2>5
  <2>7. Item(e, paths2, dir2, q) =
            [path |-> Append(paths[dir2], name), dir |-> At(d, p).dir, data |-> Data(d, At(d, p))]
    BY <2>1, <2>3, <2>4 DEF Item
  <2> QED BY <2>6, <2>7
<1>10. \A t : t \in Tree(e) <=> ItemOf(e, folders, paths2, t)
  BY <1>3, TreeIs
<1>11. \A t : t \in Tree(d) <=> ItemOf(d, folders, paths, t)
  BY TreeIs
<1>12. ASSUME NEW t \in Tree(e)
       PROVE  \E o \in Tree(d) : t = Shifted(old, new, o)
  <2>1. PICK c \in folders : \E a \in Entries(e, c) : t = Item(e, paths2, c, a)
    BY <1>10 DEF ItemOf
  <2>2. PICK a \in Entries(e, c) : t = Item(e, paths2, c, a)
    BY <2>1
  <2>3. CASE a \in Entries(d, c) /\ a # p
    <3>1. Item(d, paths, c, a) \in Tree(d)
      BY <1>11, <2>3 DEF ItemOf
    <3> QED BY <1>8, <2>2, <2>3, <3>1
  <2>4. CASE a = q /\ c = dir2
    <3>1. Item(d, paths, dir, p) \in Tree(d)
      BY <1>2, <1>11 DEF ItemOf
    <3> QED BY <1>9, <2>2, <2>4, <3>1
  <2> QED BY <1>4, <2>3, <2>4
<1>13. ASSUME NEW o \in Tree(d)
       PROVE  Shifted(old, new, o) \in Tree(e)
  <2>1. PICK c \in folders : \E a \in Entries(d, c) : o = Item(d, paths, c, a)
    BY <1>11 DEF ItemOf
  <2>2. PICK a \in Entries(d, c) : o = Item(d, paths, c, a)
    BY <2>1
  <2>3. CASE a # p
    <3>1. a \in Entries(e, c)
      BY <1>4, <2>3
    <3>2. Item(e, paths2, c, a) \in Tree(e)
      BY <1>10, <3>1 DEF ItemOf
    <3> QED BY <1>8, <2>2, <2>3, <3>2
  <2>4. CASE a = p
    <3>1. c = dir
      BY <1>2, <2>4, ObjectPlace
    <3>2. q \in Entries(e, dir2)
      BY <1>2, <1>4
    <3>3. Item(e, paths2, dir2, q) \in Tree(e)
      BY <1>2, <1>10, <3>2 DEF ItemOf
    <3> QED BY <1>9, <2>2, <2>4, <3>1, <3>3
  <2> QED BY <2>3, <2>4
<1> QED BY <1>12, <1>13 DEF ShiftedTree

(***************************************************************************)
(* The walk of a disk that need not be laid out: what is found in the      *)
(* middle of a move, when a folder can be reached in two ways.             *)
(***************************************************************************)

\* What a directory lists under a path, and what the folders among objects list.
ListedAt(d, path, dir) ==
    {[path |-> Append(path, At(d, p).name), place |-> p, entry |-> At(d, p)] :
        p \in Entries(d, dir)}
BelowThem(d, objects) ==
    UNION {ListedAt(d, o.path, o.entry.first) : o \in {o \in objects : o.entry.dir}}
HasLevels(d, level) ==
    /\ level[0] = ListedAt(d, <<>>, Root)
    /\ \A n \in 1 .. MaxCluster : level[n] = BelowThem(d, level[n - 1])
    /\ Objects(d) = UNION {level[n] : n \in 0 .. MaxCluster}

\* The walk of any disk goes down from level to level.
LEMMA LevelsOf ==
  ASSUME NEW d
  PROVE  \E level : HasLevels(d, level)
<1> DEFINE top == ListedAt(d, <<>>, Root)
           Levels(g) == g = [n \in 0 .. MaxCluster |->
                               IF n = 0 THEN top ELSE BelowThem(d, g[n - 1])]
           Descends(g, m) == g[0] = top /\ \A n \in 1 .. m : g[n] = BelowThem(d, g[n - 1])
           level == CHOOSE g : Levels(g)
           T == {m \in 0 .. MaxCluster : \E g : Descends(g, m)}
<1>1. MaxCluster \in Nat
  BY SizeAssumption
<1>2. Objects(d) = UNION {level[n] : n \in 0 .. MaxCluster}
  BY DEF Objects, ListedAt, BelowThem
<1> HIDE DEF top
<1>3. 0 \in T
  <2> DEFINE g == [n \in 0 .. 0 |-> top]
  <2>1. g[0] = top /\ \A n \in 1 .. 0 : g[n] = BelowThem(d, g[n - 1])
    OBVIOUS
  <2> HIDE DEF g
  <2>2. Descends(g, 0)
    BY <2>1
  <2>3. 0 \in 0 .. MaxCluster
    BY <1>1
  <2> QED BY <2>2, <2>3
<1>4. ASSUME NEW k \in 0 .. MaxCluster - 1, k \in T
      PROVE  k + 1 \in T
  <2>1. PICK g : Descends(g, k)
    BY <1>4
  <2> DEFINE h == [n \in 0 .. MaxCluster |-> IF n = k + 1 THEN BelowThem(d, g[k]) ELSE g[n]]
  <2>2. h[0] = top
    BY <1>1, <2>1
  <2>3. ASSUME NEW n \in 1 .. k + 1 PROVE h[n] = BelowThem(d, h[n - 1])
    <3>1. h[n - 1] = g[n - 1]
      BY <1>1
    <3>2. CASE n = k + 1
      <4>1. h[n] = BelowThem(d, g[k]) /\ n - 1 = k
        BY <1>1, <3>2
      <4> QED BY <3>1, <4>1
    <3>3. CASE n # k + 1
      <4>1. n \in 1 .. k /\ h[n] = g[n]
        BY <1>1, <3>3
      <4> QED BY <2>1, <3>1, <4>1
    <3> QED BY <3>2, <3>3
  <2> HIDE DEF h
  <2>4. Descends(h, k + 1)
    BY <2>2, <2>3
  <2> QED BY <1>1, <2>4
<1> HIDE DEF T
<1>5. 0 .. MaxCluster \subseteq T
  BY <1>1, <1>3, <1>4, UpTo
<1>6. PICK g : Descends(g, MaxCluster)
  BY <1>1, <1>5 DEF T
<1> DEFINE f == [n \in 0 .. MaxCluster |-> g[n]]
<1>7. Levels(f)
  <2>1. ASSUME NEW n \in 0 .. MaxCluster
        PROVE  f[n] = IF n = 0 THEN top ELSE BelowThem(d, f[n - 1])
    <3>1. CASE n = 0
      BY <1>6, <3>1
    <3>2. CASE n # 0
      <4>1. n \in 1 .. MaxCluster /\ n - 1 \in 0 .. MaxCluster
        BY <1>1, <3>2
      <4> QED BY <1>6, <3>2, <4>1
    <3> QED BY <3>1, <3>2
  <2> HIDE DEF top
  <2> QED BY <2>1
<1>8. Levels(level)
  <2> HIDE DEF Levels, f
  <2> QED BY <1>7
<1> HIDE DEF level, f
<1>9. level[0] = top /\ \A n \in 1 .. MaxCluster : level[n] = BelowThem(d, level[n - 1])
  <2>1. \A n \in 1 .. MaxCluster : n \in 0 .. MaxCluster /\ n # 0
    BY <1>1
  <2> QED BY <1>1, <1>8, <2>1
<1> QED BY <1>2, <1>9 DEF HasLevels, top

\* What has what the root directory lists, and with a folder what that lists, has
\* every object.
LEMMA ObjectsWithin ==
  ASSUME NEW d, NEW S, ListedAt(d, <<>>, Root) \subseteq S,
         \A o \in S : o.entry.dir => ListedAt(d, o.path, o.entry.first) \subseteq S
  PROVE  Objects(d) \subseteq S
<1>1. PICK level : HasLevels(d, level)
  BY LevelsOf
<1> DEFINE T == {n \in 0 .. MaxCluster : level[n] \subseteq S}
<1>2. MaxCluster \in Nat
  BY SizeAssumption
<1>3. 0 \in T
  BY <1>1, <1>2 DEF HasLevels
<1>4. ASSUME NEW k \in 0 .. MaxCluster - 1, k \in T PROVE k + 1 \in T
  <2>1. k + 1 \in 1 .. MaxCluster /\ (k + 1) - 1 = k /\ k + 1 \in 0 .. MaxCluster
    BY <1>2
  <2>2. level[k + 1] = BelowThem(d, level[k])
    BY <1>1, <2>1 DEF HasLevels
  <2>3. BelowThem(d, level[k]) \subseteq S
    BY <1>4 DEF BelowThem
  <2> QED BY <2>1, <2>2, <2>3
<1> HIDE DEF T
<1>5. 0 .. MaxCluster \subseteq T
  BY <1>2, <1>3, <1>4, UpTo
<1>6. \A n \in 0 .. MaxCluster : level[n] \subseteq S
  BY <1>5 DEF T
<1> QED BY <1>1, <1>6 DEF HasLevels

\* The entries of a laid out volume are where they were.
KeepsEntries(d, e, folders) ==
    \A dir \in folders : \A p \in Entries(d, dir) : p \in Entries(e, dir) /\ At(e, p) = At(d, p)

\* Then its objects are found still, whatever else there is.
LEMMA ObjectsReached ==
  ASSUME NEW d, NEW folders, NEW paths, LaidOut(d, folders, paths),
         NEW e, KeepsEntries(d, e, folders)
  PROVE  Objects(d) \subseteq Objects(e)
<1>1. PICK level : HasLevels(e, level)
  BY LevelsOf
<1>2. \A c \in folders : paths[c] \in Seq(Names) /\ Len(paths[c]) \in Nat
  BY DEF LaidOut
<1>3. MaxCluster \in Nat /\ Root \in folders /\ paths[Root] = <<>>
  BY SizeAssumption DEF LaidOut
<1>4. \A c \in folders : \A p \in Entries(d, c) :
         Obj(d, paths, c, p) \in ListedAt(e, paths[c], c)
  BY DEF KeepsEntries, ListedAt, Obj
<1> DEFINE T == {n \in 0 .. MaxCluster : \A c \in folders : Len(paths[c]) = n =>
                    \A p \in Entries(d, c) : Obj(d, paths, c, p) \in level[n]}
<1>5. ASSUME NEW c \in folders, c # Root
      PROVE  \E a \in folders : \E p \in Entries(d, a) :
                /\ At(d, p).dir /\ At(d, p).first = c
                /\ paths[c] = Append(paths[a], At(d, p).name)
                /\ Len(paths[c]) = Len(paths[a]) + 1
  <2>1. HasParent(d, folders, paths, c)
    BY <1>5, FolderPath
  <2> QED BY <2>1 DEF HasParent
<1>6. 0 \in T
  <2>1. ASSUME NEW c \in folders, Len(paths[c]) = 0 PROVE c = Root
    BY <1>2, <1>5, <2>1
  <2>2. level[0] = ListedAt(e, paths[Root], Root)
    BY <1>1, <1>3 DEF HasLevels
  <2> QED BY <1>3, <1>4, <2>1, <2>2
<1>7. ASSUME NEW k \in 0 .. MaxCluster - 1, k \in T PROVE k + 1 \in T
  <2>1. k + 1 \in 1 .. MaxCluster /\ (k + 1) - 1 = k /\ k + 1 \in 0 .. MaxCluster /\ k \in Nat
    BY <1>3
  <2>2. level[k + 1] = BelowThem(e, level[k])
    BY <1>1, <2>1 DEF HasLevels
  <2>3. ASSUME NEW c \in folders, Len(paths[c]) = k + 1, NEW p \in Entries(d, c)
        PROVE  Obj(d, paths, c, p) \in level[k + 1]
    <3>1. c # Root
      BY <1>3, <2>1, <2>3
    <3>2. PICK a \in folders : \E x \in Entries(d, a) :
             /\ At(d, x).dir /\ At(d, x).first = c
             /\ paths[c] = Append(paths[a], At(d, x).name)
             /\ Len(paths[c]) = Len(paths[a]) + 1
      BY <1>5, <3>1
    <3>3. PICK x \in Entries(d, a) :
             /\ At(d, x).dir /\ At(d, x).first = c
             /\ paths[c] = Append(paths[a], At(d, x).name)
             /\ Len(paths[c]) = Len(paths[a]) + 1
      BY <3>2
    <3>4. Len(paths[a]) = k
      BY <1>2, <2>1, <2>3, <3>3
    <3>5. Obj(d, paths, a, x) \in level[k]
      BY <1>7, <3>4
    <3>6. Obj(d, paths, a, x).entry = At(d, x) /\ Obj(d, paths, a, x).path = paths[c]
      BY <3>3 DEF Obj
    <3>7. ListedAt(e, paths[c], c) \subseteq level[k + 1]
      BY <2>2, <3>3, <3>5, <3>6 DEF BelowThem
    <3> QED BY <1>4, <3>7
  <2> QED BY <2>1, <2>3
<1> HIDE DEF T
<1>8. 0 .. MaxCluster \subseteq T
  BY <1>3, <1>6, <1>7, UpTo
<1>9. ASSUME NEW o \in Objects(d) PROVE o \in Objects(e)
  <2>1. PICK c \in folders : \E p \in Entries(d, c) : o = Obj(d, paths, c, p)
    BY ObjectsAre
  <2>2. PICK p \in Entries(d, c) : o = Obj(d, paths, c, p)
    BY <2>1
  <2>3. Len(paths[c]) \in 0 .. MaxCluster
    BY PathsShort
  <2>4. o \in level[Len(paths[c])]
    BY <1>8, <2>2, <2>3 DEF T
  <2> QED BY <1>1, <2>3, <2>4 DEF HasLevels
<1> QED BY <1>9

\* Then a user sees everything that was there.
LEMMA KeptTree ==
  ASSUME NEW d, NEW folders, NEW paths, LaidOut(d, folders, paths),
         NEW e \in Disk, KeepsEntries(d, e, folders), LikeOn(d, e, Used(d, folders))
  PROVE  Tree(d) \subseteq Tree(e)
<1>1. ASSUME NEW t \in Tree(d) PROVE t \in Tree(e)
  <2>1. PICK o \in Objects(d) :
           t = [path |-> o.path, dir |-> o.entry.dir, data |-> Data(d, o.entry)]
    BY DEF Tree
  <2>2. o \in Objects(e)
    BY ObjectsReached
  <2>3. PICK c \in folders : \E p \in Entries(d, c) :
           /\ o = Obj(d, paths, c, p) /\ o.path = Append(paths[c], At(d, p).name)
           /\ o.entry = At(d, p) /\ o.place = p
    BY ObjectIs
  <2>4. PICK p \in Entries(d, c) : o.entry = At(d, p)
    BY <2>3
  <2>5. LikeOn(d, e, Claimed(d, p))
    <3>1. Claimed(d, p) \subseteq Used(d, folders)
      BY ClaimedUsed
    <3> QED BY <3>1 DEF LikeOn
  <2>6. Data(e, o.entry) = Data(d, o.entry)
    BY <2>4, <2>5, KeptData
  <2> QED BY <2>1, <2>2, <2>6 DEF Tree
<1> QED BY <1>1

\* What a directory of a laid out volume lists are its objects.
LEMMA ListedIs ==
  ASSUME NEW d, NEW folders, NEW paths, LaidOut(d, folders, paths), NEW dir \in folders,
         NEW e, \A p \in Entries(e, dir) : p \in Entries(d, dir) /\ At(e, p) = At(d, p)
  PROVE  ListedAt(e, paths[dir], dir) \subseteq Objects(d)
<1>1. ASSUME NEW o \in ListedAt(e, paths[dir], dir) PROVE o \in Objects(d)
  <2>1. PICK p \in Entries(e, dir) :
           o = [path |-> Append(paths[dir], At(e, p).name), place |-> p, entry |-> At(e, p)]
    BY DEF ListedAt
  <2>2. p \in Entries(d, dir) /\ At(e, p) = At(d, p)
    OBVIOUS
  <2>3. o = Obj(d, paths, dir, p)
    BY <2>1, <2>2 DEF Obj
  <2> QED BY <2>2, <2>3, ObjectOf
<1> QED BY <1>1

\* The entries of every folder are those of a laid out volume, and nothing else.
SameListings(d, e, folders) ==
    \A dir \in folders : /\ Entries(e, dir) = Entries(d, dir)
                         /\ \A p \in Entries(d, dir) : At(e, p) = At(d, p)

\* Where the folders list the same, the same is seen.
LEMMA SeenAlike ==
  ASSUME NEW d, NEW folders, NEW paths, LaidOut(d, folders, paths),
         NEW e \in Disk, SameListings(d, e, folders), LikeOn(d, e, Used(d, folders))
  PROVE  Tree(e) = Tree(d)
<1>1. KeepsEntries(d, e, folders)
  BY DEF KeepsEntries, SameListings
<1>2. \A dir \in folders : \A p \in Entries(e, dir) : p \in Entries(d, dir) /\ At(e, p) = At(d, p)
  BY DEF SameListings
<1>3. Objects(e) \subseteq Objects(d)
  <2>1. Root \in folders /\ paths[Root] = <<>>
    BY DEF LaidOut
  <2>2. ListedAt(e, <<>>, Root) \subseteq Objects(d)
    <3>1. ListedAt(e, paths[Root], Root) \subseteq Objects(d)
      BY <1>2, <2>1, ListedIs
    <3> QED BY <2>1, <3>1
  <2>3. ASSUME NEW o \in Objects(d), o.entry.dir
        PROVE  ListedAt(e, o.path, o.entry.first) \subseteq Objects(d)
    <3>1. PICK c \in folders : \E p \in Entries(d, c) :
             /\ o = Obj(d, paths, c, p) /\ o.path = Append(paths[c], At(d, p).name)
             /\ o.entry = At(d, p) /\ o.place = p
      BY ObjectIs
    <3>2. PICK p \in Entries(d, c) :
             o.path = Append(paths[c], At(d, p).name) /\ o.entry = At(d, p)
      BY <3>1
    <3>3. At(d, p).first \in folders /\ paths[At(d, p).first] = o.path
      BY <2>3, <3>2, ParentIs
    <3>4. ListedAt(e, paths[At(d, p).first], At(d, p).first) \subseteq Objects(d)
      BY <1>2, <3>3, ListedIs
    <3> QED BY <3>2, <3>3, <3>4
  <2> QED BY <2>2, <2>3, ObjectsWithin
<1>4. Tree(d) \subseteq Tree(e)
  BY <1>1, KeptTree
<1>5. ASSUME NEW t \in Tree(e) PROVE t \in Tree(d)
  <2>1. PICK o \in Objects(e) :
           t = [path |-> o.path, dir |-> o.entry.dir, data |-> Data(e, o.entry)]
    BY DEF Tree
  <2>2. o \in Objects(d)
    BY <1>3
  <2>3. PICK c \in folders : \E p \in Entries(d, c) :
           /\ o = Obj(d, paths, c, p) /\ o.path = Append(paths[c], At(d, p).name)
           /\ o.entry = At(d, p) /\ o.place = p
    BY <2>2, ObjectIs
  <2>4. PICK p \in Entries(d, c) : o.entry = At(d, p)
    BY <2>3
  <2>5. LikeOn(d, e, Claimed(d, p))
    <3>1. Claimed(d, p) \subseteq Used(d, folders)
      BY ClaimedUsed
    <3> QED BY <3>1 DEF LikeOn
  <2>6. Data(e, o.entry) = Data(d, o.entry)
    BY <2>4, <2>5, KeptData
  <2> QED BY <2>1, <2>2, <2>6 DEF Tree
<1> QED BY <1>4, <1>5

\* No path goes through a file.
LEMMA NotInFile ==
  ASSUME NEW d, NEW folders, NEW paths, LaidOut(d, folders, paths),
         NEW dir \in folders, NEW p \in Entries(d, dir), ~ At(d, p).dir, NEW c \in folders
  PROVE  ~ IsPrefix(Append(paths[dir], At(d, p).name), paths[c])
BY Prefixed

\* What is like another in some clusters is so the other way round.
LEMMA LikeBack ==
  ASSUME NEW d \in Disk, NEW e \in Disk, NEW X, X \subseteq Clusters, LikeOn(d, e, X)
  PROVE  LikeOn(e, d, X)
<1>1. SUFFICES ASSUME NEW c \in X
               PROVE  /\ Loaded(d)[c] = Loaded(e)[c]
                      /\ d.data[c].kind = e.data[c].kind
                      /\ e.data[c].kind = "file" => d.data[c] = e.data[c]
                      /\ e.data[c].kind = "dir" => d.data[c].self = e.data[c].self
                      /\ Records(d.data[c]) = Records(e.data[c])
  BY DEF LikeOn
<1> QED BY DEF LikeOn

\* In the middle of a move: b has the new record, and the old one still.
Doubled(a, b, e, folders, q) ==
    /\ b \in Disk /\ Edits(a, b, folders, {q}) /\ At(b, q) = At(e, q)
    /\ LikeOn(a, b, Clusters) /\ LikeOn(e, b, Clusters)

\* What the entries of its folders are.
DoubledEntries(a, b, e, folders, paths, paths2, place, home, q, dir2) ==
    /\ \A c \in folders : \A p \in Entries(b, c) :
          \/ p \in Entries(a, c) /\ At(b, p) = At(a, p)
          \/ p = q /\ c = dir2
    /\ \A c \in folders : \A p \in Entries(b, c) :
          \/ p \in Entries(e, c) /\ At(b, p) = At(e, p)
          \/ p = place /\ c = home
    /\ KeepsEntries(a, b, folders)
    /\ place \in Entries(a, home) /\ At(b, place) = At(a, place)
    /\ q \in Entries(e, dir2) /\ At(b, q) = At(e, q) /\ At(e, q).first = At(a, place).first
    /\ At(e, q).dir = At(a, place).dir
    /\ home \in folders /\ dir2 \in folders
    /\ paths2[home] = paths[home] /\ paths2[dir2] = paths[dir2]

\* Both records are seen, and everything else as before and after.
LEMMA DoubledIs ==
  ASSUME NEW a, NEW folders, NEW paths, LaidOut(a, folders, paths),
         NEW e, NEW home, NEW place, NEW dir2, NEW q, NEW name, NEW paths2, NEW old, NEW new,
         Relocates(a, e, folders, paths, home, place, dir2, q, name, paths2, old, new),
         q # place, NEW b, Doubled(a, b, e, folders, q)
  PROVE  DoubledEntries(a, b, e, folders, paths, paths2, place, home, q, dir2)
<1>1. /\ Moves(a, e, folders, home, place, dir2, q, name, paths2)
      /\ old = Append(paths[home], At(a, place).name)
      /\ ~ IsPrefix(old, paths[dir2])
      /\ \A c \in folders : paths2[c] = Rebased(old, new, paths[c])
  BY DEF Relocates
<1>2. /\ home \in folders /\ dir2 \in folders
      /\ place \in Entries(a, home) /\ q \in ToSet(Places(a, dir2))
      /\ At(a, q).state # "live"
      /\ Edits(a, e, folders, {place, q})
      /\ At(e, q) = [At(a, place) EXCEPT !.name = name] /\ name \in Names
  BY <1>1 DEF Moves
<1>3. \A c \in folders : \A p \in Entries(a, c) : p # q
  <2>1. SUFFICES ASSUME NEW c \in folders, NEW p \in Entries(a, c) PROVE p # q
    OBVIOUS
  <2>2. At(a, p).state = "live"
    BY LaidEntry DEF EntryIs
  <2> QED BY <1>2, <2>2
<1>4. KeepsEntries(a, b, folders)
  <2>1. SUFFICES ASSUME NEW c \in folders, NEW p \in Entries(a, c)
                 PROVE  p \in Entries(b, c) /\ At(b, p) = At(a, p)
    BY DEF KeepsEntries
  <2>2. Edits(a, b, folders, {q}) /\ p \notin {q}
    BY <1>3 DEF Doubled
  <2> QED BY <2>2, EditLeaves
<1>5. ASSUME NEW c \in folders, NEW p \in Entries(b, c)
      PROVE  p \in Entries(a, c) \/ (p = q /\ c = dir2)
  <2>1. Edited(a, b, c, {q})
    BY EditedFolder DEF Doubled
  <2>2. CASE p = q
    <3>1. q \in ToSet(Places(a, c))
      BY <2>1, <2>2 DEF Edited
    <3>2. c = dir2
      BY <1>2, <3>1, OneFolder
    <3> QED BY <2>2, <3>2
  <2>3. CASE p # q
    BY <2>1, <2>3 DEF Edited
  <2> QED BY <2>2, <2>3
<1>6. At(e, q).first = At(a, place).first /\ At(e, q).dir = At(a, place).dir
      /\ At(e, q).state = "live"
  <2>1. At(a, place) \in Record /\ At(a, place).state = "live"
    BY <1>2, LaidEntry DEF EntryIs
  <2> QED BY <1>2, <2>1, RecordIs
<1>7. Edited(a, e, dir2, {place, q})
  BY <1>2, EditedFolder
<1>8. q \in Entries(e, dir2)
  BY <1>2, <1>6, <1>7 DEF Edited
<1>9. At(b, q) = At(e, q)
  BY DEF Doubled
<1>10. ASSUME NEW c \in folders, NEW p \in Entries(b, c), ~(p = place /\ c = home)
       PROVE  p \in Entries(e, c) /\ At(b, p) = At(e, p)
  <2>1. CASE p = q /\ c = dir2
    BY <1>8, <1>9, <2>1
  <2>2. CASE p \in Entries(a, c)
    <3>1. p # place
      BY <1>2, <1>10, <2>2, ObjectPlace
    <3>2. p \notin {place, q}
      BY <1>3, <2>2, <3>1
    <3>3. p \in Entries(e, c) /\ At(e, p) = At(a, p)
      BY <1>2, <2>2, <3>2, EditLeaves
    <3>4. At(b, p) = At(a, p)
      BY <1>4, <2>2 DEF KeepsEntries
    <3> QED BY <3>3, <3>4
  <2> QED BY <1>5, <2>1, <2>2
<1>11. paths2[home] = paths[home] /\ paths2[dir2] = paths[dir2]
  <2>1. paths[home] \in Seq(Names) /\ At(a, place).name \in Names
    <3>1. paths \in [folders -> Seq(Names)]
      BY DEF LaidOut
    <3>2. At(a, place).name \in Names
      BY <1>2, LaidEntry DEF EntryIs
    <3> QED BY <1>2, <3>1, <3>2
  <2>2. ~ IsPrefix(old, paths[home])
    <3>1. old \in Seq(Names) /\ Len(old) = Len(paths[home]) + 1
      BY <1>1, <2>1, AppendLast
    <3>2. ~(Len(paths[home]) + 1 <= Len(paths[home]))
      BY <2>1
    <3> QED BY <2>1, <3>1, <3>2, PrefixIs
  <2> QED BY <1>1, <1>2, <2>2 DEF Rebased
<1>12. ASSUME NEW c \in folders, NEW p \in Entries(b, c)
       PROVE  (p \in Entries(a, c) /\ At(b, p) = At(a, p)) \/ (p = q /\ c = dir2)
  BY <1>4, <1>5 DEF KeepsEntries
<1>13. At(b, place) = At(a, place)
  BY <1>2, <1>4 DEF KeepsEntries
<1> QED BY <1>2, <1>4, <1>6, <1>8, <1>9, <1>10, <1>11, <1>12, <1>13 DEF DoubledEntries

\* The objects that are seen are those of before and those of after.
LEMMA DoubledObjects ==
  ASSUME NEW a, NEW folders, NEW paths, LaidOut(a, folders, paths),
         NEW e, NEW paths2, LaidOut(e, folders, paths2), NEW place, NEW home, NEW q, NEW dir2,
         NEW b, DoubledEntries(a, b, e, folders, paths, paths2, place, home, q, dir2)
  PROVE  Objects(b) \subseteq Objects(a) \cup Objects(e)
<1> DEFINE S == Objects(a) \cup Objects(e)
<1>1. /\ \A c \in folders : \A p \in Entries(b, c) :
            (p \in Entries(a, c) /\ At(b, p) = At(a, p)) \/ (p = q /\ c = dir2)
      /\ \A c \in folders : \A p \in Entries(b, c) :
            (p \in Entries(e, c) /\ At(b, p) = At(e, p)) \/ (p = place /\ c = home)
      /\ place \in Entries(a, home) /\ At(b, place) = At(a, place)
      /\ q \in Entries(e, dir2) /\ At(b, q) = At(e, q)
      /\ paths2[home] = paths[home] /\ paths2[dir2] = paths[dir2]
      /\ home \in folders /\ dir2 \in folders
  BY DEF DoubledEntries
<1>2. ASSUME NEW c \in folders PROVE ListedAt(b, paths[c], c) \subseteq S
  <2>1. SUFFICES ASSUME NEW o \in ListedAt(b, paths[c], c) PROVE o \in S
    OBVIOUS
  <2>2. PICK p \in Entries(b, c) :
           o = [path |-> Append(paths[c], At(b, p).name), place |-> p, entry |-> At(b, p)]
    BY DEF ListedAt
  <2>3. CASE p \in Entries(a, c) /\ At(b, p) = At(a, p)
    <3>1. o = Obj(a, paths, c, p)
      BY <2>2, <2>3 DEF Obj
    <3> QED BY <2>3, <3>1, ObjectOf
  <2>4. CASE p = q /\ c = dir2
    <3>1. o = Obj(e, paths2, dir2, q)
      BY <1>1, <2>2, <2>4 DEF Obj
    <3> QED BY <1>1, <3>1, ObjectOf
  <2> QED BY <1>1, <2>3, <2>4
<1>3. ASSUME NEW c \in folders PROVE ListedAt(b, paths2[c], c) \subseteq S
  <2>1. SUFFICES ASSUME NEW o \in ListedAt(b, paths2[c], c) PROVE o \in S
    OBVIOUS
  <2>2. PICK p \in Entries(b, c) :
           o = [path |-> Append(paths2[c], At(b, p).name), place |-> p, entry |-> At(b, p)]
    BY DEF ListedAt
  <2>3. CASE p \in Entries(e, c) /\ At(b, p) = At(e, p)
    <3>1. o = Obj(e, paths2, c, p)
      BY <2>2, <2>3 DEF Obj
    <3> QED BY <2>3, <3>1, ObjectOf
  <2>4. CASE p = place /\ c = home
    <3>1. o = Obj(a, paths, home, place)
      BY <1>1, <2>2, <2>4 DEF Obj
    <3> QED BY <1>1, <3>1, ObjectOf
  <2> QED BY <1>1, <2>3, <2>4
<1> HIDE DEF S
<1>4. ASSUME NEW o \in Objects(a), o.entry.dir
      PROVE  ListedAt(b, o.path, o.entry.first) \subseteq S
  <2>1. PICK c \in folders : \E p \in Entries(a, c) :
           /\ o = Obj(a, paths, c, p) /\ o.path = Append(paths[c], At(a, p).name)
           /\ o.entry = At(a, p) /\ o.place = p
    BY ObjectIs
  <2>2. PICK p \in Entries(a, c) : o.path = Append(paths[c], At(a, p).name) /\ o.entry = At(a, p)
    BY <2>1
  <2>3. At(a, p).first \in folders /\ paths[At(a, p).first] = o.path
    BY <1>4, <2>2, ParentIs
  <2>4. ListedAt(b, paths[At(a, p).first], At(a, p).first) \subseteq S
    BY <1>2, <2>3
  <2> QED BY <2>2, <2>3, <2>4
<1>5. ASSUME NEW o \in Objects(e), o.entry.dir
      PROVE  ListedAt(b, o.path, o.entry.first) \subseteq S
  <2>1. PICK c \in folders : \E p \in Entries(e, c) :
           /\ o = Obj(e, paths2, c, p) /\ o.path = Append(paths2[c], At(e, p).name)
           /\ o.entry = At(e, p) /\ o.place = p
    BY ObjectIs
  <2>2. PICK p \in Entries(e, c) : o.path = Append(paths2[c], At(e, p).name) /\ o.entry = At(e, p)
    BY <2>1
  <2>3. At(e, p).first \in folders /\ paths2[At(e, p).first] = o.path
    BY <1>5, <2>2, ParentIs
  <2>4. ListedAt(b, paths2[At(e, p).first], At(e, p).first) \subseteq S
    BY <1>3, <2>3
  <2> QED BY <2>2, <2>3, <2>4
<1>6. ListedAt(b, <<>>, Root) \subseteq S
  <2>1. Root \in folders /\ paths[Root] = <<>>
    BY DEF LaidOut
  <2>2. ListedAt(b, paths[Root], Root) \subseteq S
    BY <1>2, <2>1
  <2> QED BY <2>1, <2>2
<1>7. \A o \in S : o.entry.dir => ListedAt(b, o.path, o.entry.first) \subseteq S
  BY <1>4, <1>5 DEF S
<1>8. Objects(b) \subseteq S
  BY <1>6, <1>7, ObjectsWithin
<1> QED BY <1>8 DEF S

\* An object of a laid out volume has the data it has where its clusters are alike.
LEMMA LikeData ==
  ASSUME NEW d, NEW folders, NEW paths, LaidOut(d, folders, paths), NEW e \in Disk,
         LikeOn(d, e, Clusters), NEW o \in Objects(d)
  PROVE  Data(e, o.entry) = Data(d, o.entry)
<1>1. PICK c \in folders : \E p \in Entries(d, c) :
         /\ o = Obj(d, paths, c, p) /\ o.path = Append(paths[c], At(d, p).name)
         /\ o.entry = At(d, p) /\ o.place = p
  BY ObjectIs
<1>2. PICK p \in Entries(d, c) : o.entry = At(d, p)
  BY <1>1
<1>3. LikeOn(d, e, Claimed(d, p))
  <2>1. Claimed(d, p) \subseteq Clusters
    BY LaidEntry DEF EntryIs
  <2> QED BY <2>1 DEF LikeOn
<1> QED BY <1>2, <1>3, KeptData

\* In the middle of a move a user sees what was there and what will be there.
LEMMA SeenTwice ==
  ASSUME NEW a, NEW folders, NEW paths, LaidOut(a, folders, paths),
         NEW e, NEW home, NEW place, NEW dir2, NEW q, NEW name, NEW paths2, NEW old, NEW new,
         Relocates(a, e, folders, paths, home, place, dir2, q, name, paths2, old, new),
         q # place, NEW b, Doubled(a, b, e, folders, q)
  PROVE  Tree(a) \subseteq Tree(b) /\ Tree(b) \subseteq Tree(a) \cup Tree(e)
<1>1. DoubledEntries(a, b, e, folders, paths, paths2, place, home, q, dir2)
  BY DoubledIs
<1>2. LaidOut(e, folders, paths2)
  <2>1. Moves(a, e, folders, home, place, dir2, q, name, paths2)
    BY DEF Relocates
  <2> QED BY <2>1, Moved
<1>3. b \in Disk /\ LikeOn(a, b, Clusters) /\ LikeOn(e, b, Clusters)
      /\ LikeOn(a, b, Used(a, folders))
  BY DEF Doubled, Edits
<1>4. Tree(a) \subseteq Tree(b)
  <2>1. KeepsEntries(a, b, folders)
    BY <1>1 DEF DoubledEntries
  <2> QED BY <1>3, <2>1, KeptTree
<1>5. ASSUME NEW t \in Tree(b) PROVE t \in Tree(a) \cup Tree(e)
  <2>1. PICK o \in Objects(b) :
           t = [path |-> o.path, dir |-> o.entry.dir, data |-> Data(b, o.entry)]
    BY DEF Tree
  <2>2. o \in Objects(a) \cup Objects(e)
    BY <1>1, <1>2, DoubledObjects
  <2>3. CASE o \in Objects(a)
    <3>1. Data(b, o.entry) = Data(a, o.entry)
      BY <1>3, <2>3, LikeData
    <3> QED BY <2>1, <2>3, <3>1 DEF Tree
  <2>4. CASE o \in Objects(e)
    <3>1. Data(b, o.entry) = Data(e, o.entry)
      BY <1>2, <1>3, <2>4, LikeData
    <3> QED BY <2>1, <2>4, <3>1 DEF Tree
  <2> QED BY <2>2, <2>3, <2>4
<1> QED BY <1>4, <1>5

\* A path, but for that of the root, that begins the one of a folder is that of an
\* entry.
EntryWith(d, folders, paths, path) ==
    \E c \in folders : \E p \in Entries(d, c) : path = Append(paths[c], At(d, p).name)

LEMMA PathThrough ==
  ASSUME NEW d, NEW folders, NEW paths, LaidOut(d, folders, paths),
         NEW path \in Seq(Names), path # <<>>, NEW f \in folders, IsPrefix(path, paths[f])
  PROVE  EntryWith(d, folders, paths, path)
<1> DEFINE T == {k \in Nat : \A b \in folders :
                     Len(paths[b]) = k /\ IsPrefix(path, paths[b]) =>
                         EntryWith(d, folders, paths, path)}
<1>1. \A b \in folders : paths[b] \in Seq(Names) /\ Len(paths[b]) \in Nat
  BY DEF LaidOut
<1>2. Len(path) \in Nat /\ Len(path) # 0
  OBVIOUS
<1>3. ASSUME NEW b \in folders, IsPrefix(path, paths[b])
      PROVE  Len(paths[b]) # 0
  <2>1. Len(path) <= Len(paths[b])
    BY <1>1, <1>3, PrefixIs
  <2> QED BY <1>1, <1>2, <2>1
<1>4. 0 \in T
  BY <1>3
<1>5. ASSUME NEW k \in Nat, k \in T
      PROVE  k + 1 \in T
  <2>1. ASSUME NEW b \in folders, Len(paths[b]) = k + 1, IsPrefix(path, paths[b])
        PROVE  EntryWith(d, folders, paths, path)
    <3>1. b # Root
      <4>1. paths[Root] = <<>>
        BY DEF LaidOut
      <4> QED BY <2>1, <4>1
    <3>2. HasParent(d, folders, paths, b)
      BY <3>1, FolderPath
    <3>3. PICK above \in folders : \E a \in Entries(d, above) :
             /\ At(d, a).name \in Names
             /\ paths[b] = Append(paths[above], At(d, a).name)
             /\ Len(paths[b]) = Len(paths[above]) + 1
      BY <3>2 DEF HasParent
    <3>4. PICK a \in Entries(d, above) :
             /\ At(d, a).name \in Names
             /\ paths[b] = Append(paths[above], At(d, a).name)
             /\ Len(paths[b]) = Len(paths[above]) + 1
      BY <3>3
    <3>5. IsPrefix(path, paths[above]) \/ path = Append(paths[above], At(d, a).name)
      <4>1. paths[above] \in Seq(Names) /\ At(d, a).name \in Names
        BY <1>1, <3>4
      <4>2. IsPrefix(path, Append(paths[above], At(d, a).name))
        BY <2>1, <3>4
      <4> QED BY <4>1, <4>2, PrefixOfMore
    <3>6. CASE IsPrefix(path, paths[above])
      <4>1. Len(paths[above]) = k
        BY <1>1, <2>1, <3>4
      <4> QED BY <1>5, <3>6, <4>1
    <3>7. CASE path = Append(paths[above], At(d, a).name)
      BY <3>7 DEF EntryWith
    <3> QED BY <3>5, <3>6, <3>7
  <2> QED BY <2>1
<1> HIDE DEF T
<1>6. Nat \subseteq T
  BY <1>4, <1>5, Always
<1>7. Len(paths[f]) \in T
  BY <1>1, <1>6
<1> QED BY <1>7 DEF T

\* What is seen of a volume but for an object and what is in it.
Leaving(d, path) == {t \in Tree(d) : ~ IsPrefix(path, t.path)}

\* When the entry at a path is gone and nothing is new, nothing under it is left.
LEMMA NothingUnder ==
  ASSUME NEW d, NEW folders, NEW paths, LaidOut(d, folders, paths),
         NEW path \in Seq(Names), path # <<>>, ~ EntryWith(d, folders, paths, path)
  PROVE  \A t \in Tree(d) : ~ IsPrefix(path, t.path)
<1> SUFFICES ASSUME NEW t \in Tree(d), IsPrefix(path, t.path) PROVE FALSE
  OBVIOUS
<1>1. ItemOf(d, folders, paths, t)
  BY TreeIs
<1>2. PICK c \in folders : \E p \in Entries(d, c) : t = Item(d, paths, c, p)
  BY <1>1 DEF ItemOf
<1>3. PICK p \in Entries(d, c) : t = Item(d, paths, c, p)
  BY <1>2
<1>4. t.path = Append(paths[c], At(d, p).name)
  BY <1>3 DEF Item
<1>5. IsPrefix(path, paths[c]) \/ path = Append(paths[c], At(d, p).name)
  <2>1. paths[c] \in Seq(Names)
    BY DEF LaidOut
  <2>2. At(d, p).name \in Names
    BY LaidEntry DEF EntryIs
  <2>3. IsPrefix(path, Append(paths[c], At(d, p).name))
    BY <1>4
  <2> QED BY <2>1, <2>2, <2>3, PrefixOfMore
<1>6. CASE IsPrefix(path, paths[c])
  BY <1>6, PathThrough
<1>7. CASE path = Append(paths[c], At(d, p).name)
  BY <1>7 DEF EntryWith
<1> QED BY <1>5, <1>6, <1>7
=============================================================================
