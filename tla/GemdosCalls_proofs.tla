------------------------- MODULE GemdosCalls_proofs -------------------------
(***************************************************************************)
(* Each call of FatVolume, block by block: its writes lead from one laid   *)
(* out volume to another, through volumes a crash may leave when the call  *)
(* is safe.  The session's inductive invariant and its theorems end the    *)
(* module.                                                                 *)
(***************************************************************************)
EXTENDS GemdosVolume_proofs

\* Clusters that were free, each once.
AreFree(fat, chain, count) ==
    /\ chain \in Seq(Clusters) /\ Len(chain) = count
    /\ \A i, j \in DOMAIN chain : chain[i] = chain[j] => i = j
    /\ \A c \in ToSet(chain) : c \in Clusters /\ fat[c] = Free

\* Free clusters are counted.
LEMMA FreeIsCounted ==
  ASSUME NEW fat \in Fat
  PROVE  FreeCount(fat) \in Nat /\ FreeClusters(fat) \in SUBSET (1 .. MaxCluster)
<1>1. FreeClusters(fat) \in SUBSET (1 .. MaxCluster)
  BY DEF FreeClusters, Clusters
<1>2. MaxCluster \in Nat
  BY SizeAssumption
<1>3. Cardinality(FreeClusters(fat)) \in Nat
  BY <1>1, <1>2, PlacesNumbered
<1> QED BY <1>1, <1>3 DEF FreeCount

\* _allocate_chain() takes as many free clusters as are wanted, each once.
LEMMA LowestFree ==
  ASSUME NEW fat \in Fat, NEW count \in Nat, count <= FreeCount(fat)
  PROVE  AreFree(fat, Lowest(fat, count), count)
<1> DEFINE free == FreeClusters(fat)
           rank(c) == Cardinality({b \in free : b < c})
           list == Lowest(fat, count)
<1>1. free \in SUBSET (1 .. MaxCluster) /\ MaxCluster \in Nat
  BY FreeIsCounted, SizeAssumption
<1>2. /\ Cardinality(free) \in Nat
      /\ \A n \in 1 .. Cardinality(free) : \E k \in free : rank(k) = n - 1
  BY <1>1, PlacesNumbered
<1>3. list = [i \in 1 .. count |-> CHOOSE c \in free : rank(c) = i - 1]
  BY DEF Lowest
<1> HIDE DEF rank, list
<1>4. ASSUME NEW i \in 1 .. count
      PROVE  list[i] \in free /\ rank(list[i]) = i - 1
  <2>1. i \in 1 .. Cardinality(free)
    BY <1>2 DEF FreeCount
  <2> HIDE DEF free
  <2>2. \E c \in free : rank(c) = i - 1
    BY <1>2, <2>1
  <2>3. list[i] = CHOOSE c \in free : rank(c) = i - 1
    BY <1>3
  <2> QED BY <2>2, <2>3
<1>5. \A c \in free : c \in Clusters /\ fat[c] = Free
  BY DEF FreeClusters
<1> HIDE DEF free
<1>6. DOMAIN list = 1 .. count /\ list \in [1 .. count -> Clusters]
  BY <1>3, <1>4, <1>5
<1>7. list \in Seq(Clusters) /\ Len(list) = count
  BY <1>6
<1>8. \A i, j \in DOMAIN list : list[i] = list[j] => i = j
  BY <1>4, <1>6
<1>9. \A c \in ToSet(list) : c \in Clusters /\ fat[c] = Free
  BY <1>4, <1>5, <1>6 DEF ToSet
<1> QED BY <1>7, <1>8, <1>9 DEF AreFree, list

\* Clusters, each once, that are linked: a chain; no other cluster changes.
IsLinked(fat, chain, fat2) ==
    /\ fat2 \in Fat
    /\ \A c \in Clusters : c \notin ToSet(chain) => fat2[c] = fat[c]
    /\ \A c \in ToSet(chain) : fat2[c] # Free
    /\ chain # <<>> => Chained(fat2, chain[1]) /\ Chain(fat2, chain[1]) = chain

\* _allocate() and the loop that links: the FAT has the clusters as a chain, in
\* their order.
LEMMA LinkedIs ==
  ASSUME NEW fat \in Fat, NEW chain \in Seq(Clusters),
         \A i, j \in DOMAIN chain : chain[i] = chain[j] => i = j
  PROVE  IsLinked(fat, chain, Linked(fat, chain))
<1> DEFINE fat2 == Linked(fat, chain)
<1>1. MaxCluster \in Nat \ {0} /\ DOMAIN chain = 1 .. Len(chain) /\ Len(chain) \in Nat
  BY SizeAssumption
<1>2. \A i \in 1 .. Len(chain) : chain[i] \in Clusters
  BY <1>1
<1>3. \A c \in Clusters : c \notin ToSet(chain) => fat2[c] = fat[c]
  BY DEF Linked
<1>4. ASSUME NEW i \in 1 .. Len(chain)
      PROVE  fat2[chain[i]] = IF i = Len(chain) THEN Eoc ELSE chain[i + 1]
  <2>1. chain[i] \in Clusters /\ chain[i] \in ToSet(chain)
    BY <1>1, <1>2 DEF ToSet
  <2>2. (CHOOSE k \in DOMAIN chain : chain[k] = chain[i]) = i
    BY <1>1
  <2>3. Last(chain) = chain[Len(chain)] /\ Len(chain) \in DOMAIN chain
    BY <1>1 DEF Last
  <2>4. chain[i] = Last(chain) <=> i = Len(chain)
    BY <1>1, <2>3
  <2> QED BY <2>1, <2>2, <2>4 DEF Linked
<1>5. \A c \in ToSet(chain) : \E i \in 1 .. Len(chain) : chain[i] = c
  BY <1>1 DEF ToSet
<1>6. \A i \in 1 .. Len(chain) : fat2[chain[i]] \in 0 .. Eoc /\ fat2[chain[i]] # Free
  <2> SUFFICES ASSUME NEW i \in 1 .. Len(chain)
               PROVE  fat2[chain[i]] \in 0 .. Eoc /\ fat2[chain[i]] # Free
    OBVIOUS
  <2>1. Eoc \in 0 .. Eoc /\ Eoc # 0
    BY <1>1 DEF Eoc
  <2>2. i # Len(chain) => chain[i + 1] \in Clusters
    <3>1. i \in 1 .. Len(chain) /\ Len(chain) \in Nat
      BY <1>1
    <3>2. i # Len(chain) => i + 1 \in 1 .. Len(chain)
      BY <3>1
    <3> QED BY <1>2, <3>2
  <2>3. \A c \in Clusters : c \in 0 .. Eoc /\ c # 0
    BY <1>1 DEF Clusters, Eoc
  <2> QED BY <1>4, <2>1, <2>2, <2>3 DEF Free
<1>7. DOMAIN fat2 = Clusters /\ fat2 = [c \in Clusters |-> fat2[c]]
  BY DEF Linked
<1> HIDE DEF fat2
<1>8. \A c \in Clusters : fat2[c] \in 0 .. Eoc
  BY <1>3, <1>5, <1>6 DEF Fat
<1>9. fat2 \in Fat
  BY <1>7, <1>8 DEF Fat
<1>10. ASSUME chain # <<>> PROVE Chained(fat2, chain[1]) /\ Chain(fat2, chain[1]) = chain
  <2>1. IsChain(fat2, chain)
    BY <1>1, <1>4, <1>10 DEF IsChain
  <2>2. Chain(fat2, chain[1]) = chain /\ chain[1] \in Clusters
    BY <1>9, <2>1, ChainFound
  <2> QED BY <2>1, <2>2 DEF Chained
<1>11. \A c \in ToSet(chain) : fat2[c] # Free
  BY <1>5, <1>6
<1> QED BY <1>3, <1>9, <1>10, <1>11 DEF IsLinked, fat2

\* Released clusters are free; no other changes.
LEMMA ReleasedIs ==
  ASSUME NEW fat \in Fat, NEW chain
  PROVE  /\ Released(fat, chain) \in Fat
         /\ \A c \in Clusters : Released(fat, chain)[c] =
                IF c \in ToSet(chain) THEN Free ELSE fat[c]
<1>1. 0 \in 0 .. Eoc
  BY SizeAssumption DEF Eoc
<1> QED BY <1>1 DEF Released, Fat, Free

(***************************************************************************)
(* Blocks that are written one after the other, through disks of a set.    *)
(***************************************************************************)
Steps(S, ws, ds) ==
    /\ ds \in [0 .. Len(ws) -> S]
    /\ \A k \in 1 .. Len(ws) : ds[k] = Written(ds[k - 1], ws[k])
Leads(S, d, ws, e) ==
    /\ ws \in Seq(Write)
    /\ \E ds : Steps(S, ws, ds) /\ ds[0] = d /\ ds[Len(ws)] = e

\* Nothing is written: the disk stays.
LEMMA LeadsNowhere ==
  ASSUME NEW S, NEW d \in S
  PROVE  Leads(S, d, <<>>, d)
<1> DEFINE ds == [k \in 0 .. 0 |-> d]
<1>1. <<>> \in Seq(Write) /\ Len(<<>>) = 0
  OBVIOUS
<1>2. ds \in [0 .. 0 -> S] /\ ds[0] = d
  OBVIOUS
<1>3. Steps(S, <<>>, ds)
  BY <1>1, <1>2 DEF Steps
<1> QED BY <1>1, <1>2, <1>3 DEF Leads

\* One block is written.
LEMMA LeadsOne ==
  ASSUME NEW S, NEW d \in S, NEW w \in Write, Written(d, w) \in S
  PROVE  Leads(S, d, <<w>>, Written(d, w))
<1> DEFINE e == Written(d, w)
           ds == [k \in 0 .. 1 |-> IF k = 0 THEN d ELSE e]
           ws == <<w>>
<1>1. ws \in Seq(Write) /\ Len(ws) = 1 /\ ws[1] = w
  OBVIOUS
<1> HIDE DEF e
<1>2. ds \in [0 .. 1 -> S] /\ ds[0] = d /\ ds[1] = e
  BY DEF e
<1> HIDE DEF ds, ws
<1>3. \A k \in 1 .. 1 : ds[k] = Written(ds[k - 1], ws[k])
  BY <1>1, <1>2 DEF e
<1>4. Steps(S, ws, ds)
  BY <1>1, <1>2, <1>3 DEF Steps
<1>5. Leads(S, d, ws, e)
  BY <1>1, <1>2, <1>4 DEF Leads
<1> QED BY <1>5 DEF ws, e

\* Some blocks, and then others.
LEMMA LeadsOn ==
  ASSUME NEW S, NEW d, NEW ws, NEW e, NEW vs, NEW f,
         Leads(S, d, ws, e), Leads(S, e, vs, f)
  PROVE  Leads(S, d, ws \o vs, f)
<1>1. ws \in Seq(Write) /\ vs \in Seq(Write)
  BY DEF Leads
<1>2. PICK ds : Steps(S, ws, ds) /\ ds[0] = d /\ ds[Len(ws)] = e
  BY DEF Leads
<1>3. PICK es : Steps(S, vs, es) /\ es[0] = e /\ es[Len(vs)] = f
  BY DEF Leads
<1> DEFINE n == Len(ws)
           m == Len(vs)
           all == ws \o vs
           fs == [k \in 0 .. n + m |-> IF k <= n THEN ds[k] ELSE es[k - n]]
<1>4. /\ n \in Nat /\ m \in Nat /\ all \in Seq(Write) /\ Len(all) = n + m
      /\ \A i \in 1 .. n : all[i] = ws[i]
      /\ \A i \in 1 .. m : all[n + i] = vs[i]
  <2>1. EndToEnd(Write, ws, vs)
    BY <1>1, TwoLists
  <2>2. n \in Nat /\ m \in Nat
    BY <1>1
  <2> QED BY <2>1, <2>2 DEF EndToEnd
<1>5. /\ ds \in [0 .. n -> S] /\ \A k \in 1 .. n : ds[k] = Written(ds[k - 1], ws[k])
      /\ es \in [0 .. m -> S] /\ \A k \in 1 .. m : es[k] = Written(es[k - 1], vs[k])
      /\ ds[0] = d /\ ds[n] = e /\ es[0] = e /\ es[m] = f
  BY <1>2, <1>3 DEF Steps
<1> HIDE DEF n, m, all
<1>6. ASSUME NEW k \in 0 .. n + m PROVE fs[k] \in S
  <2>1. k <= n => k \in 0 .. n
    BY <1>4
  <2>2. ~(k <= n) => k - n \in 0 .. m
    BY <1>4
  <2> QED BY <1>5, <2>1, <2>2
<1>7. fs \in [0 .. n + m -> S]
  BY <1>6
<1>8. fs[0] = d
  <2>1. 0 \in 0 .. n + m /\ 0 <= n
    BY <1>4
  <2> QED BY <1>5, <2>1
<1>9. fs[n + m] = f
  <2>1. n + m \in 0 .. n + m /\ (n + m <= n => m = 0) /\ (n + m) - n = m
    BY <1>4
  <2>2. m = 0 => n + m = n
    BY <1>4
  <2> QED BY <1>5, <2>1, <2>2
<1>10. ASSUME NEW k \in 1 .. n + m
       PROVE  fs[k] = Written(fs[k - 1], all[k])
  <2>1. k \in 0 .. n + m /\ k - 1 \in 0 .. n + m
    BY <1>4
  <2>2. CASE k <= n
    <3>1. k \in 1 .. n /\ k - 1 <= n
      BY <1>4, <2>2
    <3> QED BY <1>4, <1>5, <2>1, <2>2, <3>1
  <2>3. CASE k = n + 1
    <3>1. k - n = 1 /\ 1 \in 1 .. m /\ k - 1 = n /\ ~(k <= n) /\ n <= n
      BY <1>4, <2>3
    <3>2. fs[k - 1] = e /\ fs[k] = es[1]
      BY <1>5, <2>1, <3>1
    <3>3. es[1] = Written(es[1 - 1], vs[1]) /\ 1 - 1 = 0
      BY <1>5, <3>1
    <3>4. all[k] = vs[1]
      BY <1>4, <2>3, <3>1
    <3> QED BY <1>5, <3>2, <3>3, <3>4
  <2>4. CASE k > n + 1
    <3>1. /\ k - n \in 1 .. m /\ n + (k - n) = k /\ ~(k <= n) /\ ~(k - 1 <= n)
          /\ (k - 1) - n = (k - n) - 1
      BY <1>4, <2>4
    <3>2. fs[k - 1] = es[(k - n) - 1] /\ fs[k] = es[k - n]
      BY <2>1, <3>1
    <3>3. all[k] = vs[k - n]
      BY <1>4, <3>1
    <3> QED BY <1>5, <3>1, <3>2, <3>3
  <2> QED BY <1>4, <2>2, <2>3, <2>4
<1> HIDE DEF fs
<1>11. Steps(S, all, fs)
  BY <1>4, <1>7, <1>10 DEF Steps
<1>12. Leads(S, d, all, f)
  BY <1>4, <1>8, <1>9, <1>11 DEF Leads
<1> QED BY <1>12 DEF all

\* Where the first of them leads, the others go on.
LEMMA LeadsNext ==
  ASSUME NEW S, NEW d, NEW ws, NEW e, Leads(S, d, ws, e), ws # <<>>
  PROVE  Leads(S, Written(d, Head(ws)), Tail(ws), e)
<1>1. ws \in Seq(Write)
  BY DEF Leads
<1>2. PICK ds : Steps(S, ws, ds) /\ ds[0] = d /\ ds[Len(ws)] = e
  BY DEF Leads
<1> DEFINE n == Len(ws)
           rest == Tail(ws)
           es == [k \in 0 .. n - 1 |-> ds[k + 1]]
<1>3. /\ n \in Nat \ {0} /\ rest \in Seq(Write) /\ Len(rest) = n - 1
      /\ Head(ws) = ws[1] /\ \A i \in 1 .. n - 1 : rest[i] = ws[i + 1]
  BY <1>1
<1>4. /\ ds \in [0 .. n -> S] /\ \A k \in 1 .. n : ds[k] = Written(ds[k - 1], ws[k])
      /\ ds[0] = d /\ ds[n] = e
  BY <1>2 DEF Steps
<1> HIDE DEF n, rest
<1>5. es \in [0 .. n - 1 -> S]
  BY <1>3, <1>4
<1>6. es[0] = Written(d, Head(ws)) /\ es[n - 1] = e
  <2>1. 0 \in 0 .. n - 1 /\ n - 1 \in 0 .. n - 1 /\ 0 + 1 = 1 /\ (n - 1) + 1 = n /\ 1 \in 1 .. n
            /\ 1 - 1 = 0
    BY <1>3
  <2>2. es[0] = ds[1] /\ es[n - 1] = ds[n]
    BY <2>1
  <2>3. ds[1] = Written(ds[0], ws[1])
    BY <1>4, <2>1
  <2> QED BY <1>3, <1>4, <2>2, <2>3
<1>7. ASSUME NEW k \in 1 .. n - 1 PROVE es[k] = Written(es[k - 1], rest[k])
  <2>1. /\ k \in 0 .. n - 1 /\ k - 1 \in 0 .. n - 1 /\ (k - 1) + 1 = k /\ (k + 1) - 1 = k
        /\ k + 1 \in 1 .. n
    BY <1>3
  <2>2. es[k] = ds[k + 1] /\ es[k - 1] = ds[k]
    BY <2>1
  <2>3. ds[k + 1] = Written(ds[(k + 1) - 1], ws[k + 1])
    BY <1>4, <2>1
  <2> QED BY <1>3, <2>1, <2>2, <2>3
<1> HIDE DEF es
<1>8. Steps(S, rest, es)
  BY <1>3, <1>5, <1>7 DEF Steps
<1>9. Leads(S, Written(d, Head(ws)), rest, e)
  BY <1>3, <1>6, <1>8 DEF Leads
<1> QED BY <1>9 DEF rest

\* Where they begin and end.
LEMMA LeadsEnds ==
  ASSUME NEW S, NEW d, NEW ws, NEW e, Leads(S, d, ws, e)
  PROVE  d \in S /\ e \in S /\ ws \in Seq(Write) /\ (ws = <<>> => d = e)
<1>1. ws \in Seq(Write)
  BY DEF Leads
<1>2. PICK ds : Steps(S, ws, ds) /\ ds[0] = d /\ ds[Len(ws)] = e
  BY DEF Leads
<1>3. Len(ws) \in Nat /\ (ws = <<>> => Len(ws) = 0)
  BY <1>1
<1>4. 0 \in 0 .. Len(ws) /\ Len(ws) \in 0 .. Len(ws)
  BY <1>3
<1>5. ds[0] \in S /\ ds[Len(ws)] \in S
  BY <1>2, <1>4 DEF Steps
<1> QED BY <1>1, <1>2, <1>3, <1>5

\* What goes through disks of a set goes through disks of a larger one.
LEMMA LeadsWider ==
  ASSUME NEW S, NEW T, S \subseteq T, NEW d, NEW ws, NEW e, Leads(S, d, ws, e)
  PROVE  Leads(T, d, ws, e)
<1>1. ws \in Seq(Write)
  BY DEF Leads
<1>2. PICK ds : Steps(S, ws, ds) /\ ds[0] = d /\ ds[Len(ws)] = e
  BY DEF Leads
<1>3. Steps(T, ws, ds)
  BY <1>2 DEF Steps
<1> QED BY <1>1, <1>2, <1>3 DEF Leads

(***************************************************************************)
(* What one block changes.                                                 *)
(***************************************************************************)

\* A copy of the FAT is written: everything else stays.
FatIsSet(d, e, copy, fat) ==
    /\ e \in Disk /\ e.root = d.root /\ e.data = d.data
    /\ e.fat = [d.fat EXCEPT ![copy] = fat]
    /\ e.fat[copy] = fat /\ \A i \in 1 .. 2 : i # copy => e.fat[i] = d.fat[i]

\* A write of one copy of the FAT is a write of that copy.
LEMMA FatWritten ==
  ASSUME NEW d \in Disk, NEW copy \in 1 .. 2, NEW fat \in Fat
  PROVE  /\ WriteFat(copy, fat) \in Write
         /\ FatIsSet(d, Written(d, WriteFat(copy, fat)), copy, fat)
<1> DEFINE w == WriteFat(copy, fat)
           e == Written(d, w)
<1>1. w.at = "fat" /\ w.copy = copy /\ w.value = fat /\ w \in Write
  BY DEF WriteFat, Write
<1>2. e = [d EXCEPT !.fat[copy] = fat]
  BY <1>1 DEF Written
<1>3. d.fat \in [1 .. 2 -> Fat] /\ d.root \in [1 .. RootEntries -> Record]
          /\ d.data \in [Clusters -> Block]
  BY DEF Disk
<1> HIDE DEF w, e
<1>4. e.root = d.root /\ e.data = d.data /\ e.fat = [d.fat EXCEPT ![copy] = fat]
  BY <1>2 DEF Disk
<1>5. e \in Disk
  BY <1>2, <1>3, <1>4 DEF Disk
<1>6. e.fat[copy] = fat /\ \A i \in 1 .. 2 : i # copy => e.fat[i] = d.fat[i]
  BY <1>3, <1>4
<1> QED BY <1>1, <1>4, <1>5, <1>6 DEF FatIsSet, e, w

\* A cluster is written: everything else stays.
ClusterIsSet(d, e, c, block) ==
    /\ e \in Disk /\ e.root = d.root /\ e.fat = d.fat
    /\ e.data = [d.data EXCEPT ![c] = block]
    /\ e.data[c] = block /\ \A b \in Clusters : b # c => e.data[b] = d.data[b]

\* A write of a cluster changes that cluster.
LEMMA ClusterWritten ==
  ASSUME NEW d \in Disk, NEW c \in Clusters, NEW block \in Block
  PROVE  /\ WriteCluster(c, block) \in Write
         /\ ClusterIsSet(d, Written(d, WriteCluster(c, block)), c, block)
<1> DEFINE w == WriteCluster(c, block)
           e == Written(d, w)
<1>1. w.at = "cluster" /\ w.cluster = c /\ w.value = block /\ w \in Write
  BY DEF WriteCluster, Write
<1>2. e = [d EXCEPT !.data[c] = block]
  BY <1>1 DEF Written
<1>3. d.fat \in [1 .. 2 -> Fat] /\ d.root \in [1 .. RootEntries -> Record]
          /\ d.data \in [Clusters -> Block]
  BY DEF Disk
<1> HIDE DEF w, e
<1>4. e.root = d.root /\ e.fat = d.fat /\ e.data = [d.data EXCEPT ![c] = block]
  BY <1>2 DEF Disk
<1>5. e \in Disk
  BY <1>2, <1>3, <1>4 DEF Disk
<1>6. e.data[c] = block /\ \A b \in Clusters : b # c => e.data[b] = d.data[b]
  BY <1>3, <1>4
<1> QED BY <1>1, <1>4, <1>5, <1>6 DEF ClusterIsSet, e, w

\* The parent record of a folder is written: everything else stays.
ParentIsSet(d, e, c, parent) ==
    /\ e \in Disk /\ e.root = d.root /\ e.fat = d.fat
    /\ e.data[c] = [d.data[c] EXCEPT !.parent = parent]
    /\ \A b \in Clusters : b # c => e.data[b] = d.data[b]

\* A write of the ".." record of a folder changes its parent.
LEMMA ParentWritten ==
  ASSUME NEW d \in Disk, NEW c \in Clusters, d.data[c].kind = "dir", NEW parent \in 0 .. MaxCluster
  PROVE  /\ WriteParent(c, parent) \in Write
         /\ ParentIsSet(d, Written(d, WriteParent(c, parent)), c, parent)
<1> DEFINE w == WriteParent(c, parent)
           e == Written(d, w)
           block == [d.data[c] EXCEPT !.parent = parent]
<1>1. w.at = "parent" /\ w.cluster = c /\ w.value = parent /\ w \in Write
  BY DEF WriteParent, Write
<1>2. e = [d EXCEPT !.data[c].parent = parent]
  BY <1>1 DEF Written
<1>3. d.fat \in [1 .. 2 -> Fat] /\ d.root \in [1 .. RootEntries -> Record]
          /\ d.data \in [Clusters -> Block]
  BY DEF Disk
<1>4. block \in Block
  <2>1. d.data[c] \in [kind : {"dir"}, self : 0 .. MaxCluster, parent : 0 .. MaxCluster,
                       records : Seq(Record)]
    BY <1>3 DEF Block
  <2> QED BY <2>1 DEF Block
<1> HIDE DEF w, e
<1>5. e.root = d.root /\ e.fat = d.fat /\ e.data = [d.data EXCEPT ![c] = block]
  BY <1>2, <1>3 DEF Disk
<1> HIDE DEF block
<1>6. e \in Disk
  <2>1. e.data \in [Clusters -> Block]
    BY <1>3, <1>4, <1>5
  <2>2. e = [fat |-> e.fat, root |-> e.root, data |-> e.data]
    BY <1>2 DEF Disk
  <2> QED BY <1>3, <1>5, <2>1, <2>2 DEF Disk
<1>7. e.data[c] = block /\ \A b \in Clusters : b # c => e.data[b] = d.data[b]
  BY <1>3, <1>5
<1> QED BY <1>1, <1>5, <1>6, <1>7 DEF ParentIsSet, e, w, block

\* A place where there is a record.
Spot(d, p) ==
    \/ \E i \in 1 .. RootEntries : p = <<Root, i>>
    \/ \E c \in Clusters : \E i \in Records(d.data[c]) : p = <<c, i>>

\* A record is written: everything else stays.
RecordIsSet(d, e, p, record) ==
    /\ e \in Disk /\ e.fat = d.fat
    /\ At(e, p) = record
    /\ \A q : Spot(d, q) /\ q # p => At(e, q) = At(d, q)
    /\ LikeOn(d, e, Clusters)
    /\ \A c \in Clusters : e.data[c].parent = d.data[c].parent

\* A write of a directory record changes that record.
LEMMA RecordWritten ==
  ASSUME NEW d \in Disk, NEW p, Spot(d, p), NEW record \in Record
  PROVE  /\ WriteRecord(p, record) \in Write
         /\ RecordIsSet(d, Written(d, WriteRecord(p, record)), p, record)
<1> DEFINE w == WriteRecord(p, record)
           e == Written(d, w)
<1>1. w.at = "record" /\ w.place = p /\ w.value = record
  BY DEF WriteRecord
<1>2. d.fat \in [1 .. 2 -> Fat] /\ d.root \in [1 .. RootEntries -> Record]
          /\ d.data \in [Clusters -> Block]
  BY DEF Disk
<1>3. \A c \in Clusters : c # Root /\ c \in 0 .. MaxCluster /\ Root \in 0 .. MaxCluster
  BY SizeAssumption DEF Clusters, Root
<1>4. \A c \in Clusters :
        /\ d.data[c].kind = "dir" => /\ d.data[c].records \in Seq(Record)
                                    /\ Records(d.data[c]) = 1 .. Len(d.data[c].records)
        /\ d.data[c].kind # "dir" => Records(d.data[c]) = {}
        /\ d.data[c].kind \in {"dir", "file"}
  BY <1>2, RecordsCounted
<1>5. w \in Write
  <2>1. p \in Place
    <3>1. \A i \in 1 .. RootEntries : <<Root, i>> \in Place
      <4>1. \A i \in 1 .. RootEntries : i \in Nat
        BY SizeAssumption
      <4>2. Root \in 0 .. MaxCluster
        BY SizeAssumption DEF Root
      <4> QED BY <4>1, <4>2 DEF Place
    <3>2. ASSUME NEW c \in Clusters, NEW i \in Records(d.data[c]) PROVE <<c, i>> \in Place
      <4>1. i \in 1 .. Len(d.data[c].records) /\ d.data[c].records \in Seq(Record)
        BY <1>4
      <4>2. i \in Nat
        BY <4>1
      <4> QED BY <1>3, <4>2 DEF Place
    <3> QED BY <3>1, <3>2 DEF Spot
  <2> QED BY <2>1 DEF WriteRecord, Write
<1>6. e = IF p[1] = Root THEN [d EXCEPT !.root[p[2]] = record]
          ELSE [d EXCEPT !.data[p[1]].records[p[2]] = record]
  BY <1>1 DEF Written
<1> HIDE DEF w, e
<1>7. CASE \E i \in 1 .. RootEntries : p = <<Root, i>>
  <2>1. PICK i \in 1 .. RootEntries : p = <<Root, i>>
    BY <1>7
  <2>2. p[1] = Root /\ p[2] = i
    BY <2>1
  <2>3. e = [d EXCEPT !.root[i] = record]
    BY <1>6, <2>2
  <2>4. e.data = d.data /\ e.fat = d.fat /\ e.root = [d.root EXCEPT ![i] = record]
    BY <2>3 DEF Disk
  <2>5. e \in Disk
    BY <1>2, <2>3, <2>4 DEF Disk
  <2>6. At(e, p) = record
    BY <1>2, <2>2, <2>4 DEF At
  <2>7. ASSUME NEW q, Spot(d, q), q # p PROVE At(e, q) = At(d, q)
    <3>1. CASE \E j \in 1 .. RootEntries : q = <<Root, j>>
      <4>1. PICK j \in 1 .. RootEntries : q = <<Root, j>>
        BY <3>1
      <4>2. j # i /\ q[1] = Root /\ q[2] = j
        BY <2>1, <2>7, <4>1
      <4> QED BY <1>2, <2>4, <4>2 DEF At
    <3>2. CASE \E c \in Clusters : \E j \in Records(d.data[c]) : q = <<c, j>>
      <4>1. q[1] # Root
        BY <1>3, <3>2
      <4> QED BY <2>4, <4>1 DEF At
    <3> QED BY <2>7, <3>1, <3>2 DEF Spot
  <2>8. LikeOn(d, e, Clusters) /\ \A c \in Clusters : e.data[c].parent = d.data[c].parent
    BY <2>4 DEF LikeOn, Loaded
  <2> QED BY <1>5, <2>4, <2>5, <2>6, <2>7, <2>8 DEF RecordIsSet, e, w
<1>8. CASE \E c \in Clusters : \E i \in Records(d.data[c]) : p = <<c, i>>
  <2>1. PICK c \in Clusters : \E i \in Records(d.data[c]) : p = <<c, i>>
    BY <1>8
  <2>2. PICK i \in Records(d.data[c]) : p = <<c, i>>
    BY <2>1
  <2>3. p[1] = c /\ p[2] = i /\ c # Root
    BY <1>3, <2>2
  <2> DEFINE old == d.data[c]
             new == [old EXCEPT !.records[i] = record]
  <2>4. e = [d EXCEPT !.data[c].records[i] = record]
    BY <1>6, <2>3
  <2>5. e.root = d.root /\ e.fat = d.fat /\ e.data = [d.data EXCEPT ![c] = new]
    BY <1>2, <2>4 DEF Disk
  <2>6. /\ old \in [kind : {"dir"}, self : 0 .. MaxCluster, parent : 0 .. MaxCluster,
                    records : Seq(Record)]
        /\ old.kind = "dir" /\ i \in 1 .. Len(old.records)
    <3>1. old.kind = "dir"
      BY <1>4, <2>2
    <3>2. old \in Block
      BY <1>2
    <3> QED BY <1>4, <2>2, <3>1, <3>2 DEF Block
  <2> HIDE DEF old
  <2>7. /\ new.kind = "dir" /\ new.self = old.self /\ new.parent = old.parent
        /\ new.records = [old.records EXCEPT ![i] = record]
    BY <2>6
  <2>8. /\ new.records \in Seq(Record) /\ Len(new.records) = Len(old.records)
        /\ new.records[i] = record
        /\ \A j \in 1 .. Len(old.records) : j # i => new.records[j] = old.records[j]
    <3>1. old.records \in Seq(Record)
      BY <2>6
    <3> QED BY <2>6, <2>7, <3>1
  <2>9. new \in Block
    <3>1. new = [kind |-> new.kind, self |-> new.self, parent |-> new.parent,
              records |-> new.records]
      BY <2>6
    <3> HIDE DEF new
    <3> QED BY <2>6, <2>7, <2>8, <3>1 DEF Block
  <2>10. Records(new) = Records(old)
    <3>1. new.records \in Seq(Record) /\ old.records \in Seq(Record) /\ old.kind = "dir"
              /\ new.kind = "dir"
      BY <2>6, <2>7, <2>8
    <3>2. DOMAIN new.records = DOMAIN old.records
      BY <2>8, <3>1
    <3> QED BY <3>1, <3>2 DEF Records
  <2> HIDE DEF new
  <2>11. e \in Disk
    <3>1. e.data \in [Clusters -> Block]
      BY <1>2, <2>5, <2>9
    <3>2. e = [fat |-> e.fat, root |-> e.root, data |-> e.data]
      BY <2>4 DEF Disk
    <3> QED BY <1>2, <2>5, <3>1, <3>2 DEF Disk
  <2>12. e.data[c] = new /\ \A b \in Clusters : b # c => e.data[b] = d.data[b]
    BY <1>2, <2>5
  <2>13. At(e, p) = record
    BY <2>3, <2>8, <2>12 DEF At
  <2>14. ASSUME NEW q, Spot(d, q), q # p PROVE At(e, q) = At(d, q)
    <3>1. CASE \E j \in 1 .. RootEntries : q = <<Root, j>>
      <4>1. q[1] = Root
        BY <3>1
      <4> QED BY <2>5, <4>1 DEF At
    <3>2. CASE \E b \in Clusters : \E j \in Records(d.data[b]) : q = <<b, j>>
      <4>1. PICK b \in Clusters : \E j \in Records(d.data[b]) : q = <<b, j>>
        BY <3>2
      <4>2. PICK j \in Records(d.data[b]) : q = <<b, j>>
        BY <4>1
      <4>3. q[1] = b /\ q[2] = j /\ b # Root
        BY <1>3, <4>2
      <4>4. CASE b = c
        <5>1. j # i
          BY <2>2, <2>14, <4>2, <4>4
        <5>2. j \in 1 .. Len(old.records)
          BY <1>4, <2>6, <4>4 DEF old
        <5>3. e.data[b].records[j] = d.data[b].records[j]
          BY <2>8, <2>12, <4>4, <5>1, <5>2 DEF old
        <5> QED BY <4>3, <5>3 DEF At
      <4>5. CASE b # c
        BY <2>12, <4>3, <4>5 DEF At
      <4> QED BY <4>4, <4>5
    <3> QED BY <2>14, <3>1, <3>2 DEF Spot
  <2>15. \A b \in Clusters : /\ e.data[b].kind = d.data[b].kind
                             /\ d.data[b].kind = "file" => e.data[b] = d.data[b]
                             /\ e.data[b].self = d.data[b].self
                             /\ e.data[b].parent = d.data[b].parent
                             /\ Records(e.data[b]) = Records(d.data[b])
    <3>1. SUFFICES ASSUME NEW b \in Clusters
                   PROVE  /\ e.data[b].kind = d.data[b].kind
                          /\ d.data[b].kind = "file" => e.data[b] = d.data[b]
                          /\ e.data[b].self = d.data[b].self
                          /\ e.data[b].parent = d.data[b].parent
                          /\ Records(e.data[b]) = Records(d.data[b])
      OBVIOUS
    <3>2. CASE b = c
      BY <2>6, <2>7, <2>10, <2>12, <3>2 DEF old
    <3>3. CASE b # c
      BY <2>12, <3>3
    <3> QED BY <3>2, <3>3
  <2>16. LikeOn(d, e, Clusters)
    BY <2>5, <2>15 DEF LikeOn, Loaded
  <2> QED BY <1>5, <2>5, <2>11, <2>13, <2>14, <2>15, <2>16 DEF RecordIsSet, e, w
<1> QED BY <1>7, <1>8 DEF Spot

(***************************************************************************)
(* Sequences of blocks.                                                    *)
(***************************************************************************)

\* Volumes that are laid out in some way.
Safe == {d \in Disk : \E folders, paths : LaidOut(d, folders, paths)}

\* A laid out volume is one a crash may leave.
LEMMA IsSafe ==
  ASSUME NEW d, NEW folders, NEW paths, LaidOut(d, folders, paths)
  PROVE  d \in Safe /\ d \in Disk
<1>1. d \in Disk
  BY DEF LaidOut
<1> QED BY <1>1 DEF Safe

\* Those that show a user one of some trees.
Within(T) == {d \in Safe : Tree(d) \in T}

\* A laid out volume with one of these trees is one of them.
LEMMA IsWithin ==
  ASSUME NEW d, NEW folders, NEW paths, LaidOut(d, folders, paths), NEW T, Tree(d) \in T
  PROVE  d \in Within(T) /\ d \in Disk
BY IsSafe DEF Within

\* The trees that a call may leave when it dies: nothing is gone but what it takes
\* away, and nothing is new but what it brings.
Possible(before, after) ==
    {tree \in SUBSET (before \cup after) : before \subseteq tree \/ after \subseteq tree}

\* The tree it found is one of them, and the tree it promises.
LEMMA PossibleEnds ==
  ASSUME NEW before, NEW after
  PROVE  before \in Possible(before, after) /\ after \in Possible(before, after)
BY DEF Possible

\* Disks that differ from d in some clusters, or in the FAT.
ClustersDiffer(S, d, chain) ==
    \A e \in Disk :
        /\ e.fat = d.fat /\ e.root = d.root
        /\ \A c \in Clusters : c \notin ToSet(chain) => e.data[c] = d.data[c]
        => e \in S
FatDiffers(S, d, fat) ==
    \A e \in Disk : e.root = d.root /\ e.data = d.data /\ Loaded(e) = fat => e \in S

\* Clusters are filled, the first n of them so far.
Fills(d, e, chain, blocks, n) ==
    /\ e \in Disk /\ e.fat = d.fat /\ e.root = d.root
    /\ \A i \in 1 .. n : e.data[chain[i]] = blocks[i]
    /\ \A c \in Clusters : c \notin ToSet(chain) => e.data[c] = d.data[c]

FillWrites(chain, blocks) ==
    [i \in 1 .. Len(chain) |-> WriteCluster(chain[i], blocks[i])]

\* Clusters are written one after the other.
LEMMA Filled ==
  ASSUME NEW S, NEW d \in Disk, NEW chain \in Seq(Clusters),
         \A i, j \in DOMAIN chain : chain[i] = chain[j] => i = j,
         NEW blocks, \A i \in 1 .. Len(chain) : blocks[i] \in Block,
         ClustersDiffer(S, d, chain)
  PROVE  \E e : /\ Fills(d, e, chain, blocks, Len(chain))
                /\ Leads(S, d, FillWrites(chain, blocks), e)
<1> DEFINE n == Len(chain)
           ws == FillWrites(chain, blocks)
           step == [x \in (1 .. n) \X Disk |-> Written(x[2], ws[x[1]])]
<1>1. n \in Nat /\ DOMAIN chain = 1 .. n /\ \A i \in 1 .. n : chain[i] \in Clusters
  OBVIOUS
<1>2. \A i \in 1 .. n : ws[i] = WriteCluster(chain[i], blocks[i])
  BY DEF FillWrites
<1>3. ASSUME NEW i \in 1 .. n, NEW x \in Disk
      PROVE  ws[i] \in Write /\ ClusterIsSet(x, Written(x, ws[i]), chain[i], blocks[i])
  <2>1. chain[i] \in Clusters /\ blocks[i] \in Block
    BY <1>1
  <2> QED BY <1>2, <2>1, ClusterWritten
<1>4. ws \in Seq(Write) /\ Len(ws) = n
  <2>1. ws = [i \in 1 .. n |-> ws[i]]
    BY DEF FillWrites
  <2>2. \A i \in 1 .. n : ws[i] \in Write
    BY <1>3
  <2> HIDE DEF ws
  <2> QED BY <1>1, <2>1, <2>2
<1> HIDE DEF ws, n
<1>5. step \in [(1 .. n) \X Disk -> Disk]
  <2>1. ASSUME NEW x \in (1 .. n) \X Disk PROVE Written(x[2], ws[x[1]]) \in Disk
    <3>1. x[1] \in 1 .. n /\ x[2] \in Disk
      OBVIOUS
    <3>2. ClusterIsSet(x[2], Written(x[2], ws[x[1]]), chain[x[1]], blocks[x[1]])
      BY <1>3, <3>1
    <3> QED BY <3>2 DEF ClusterIsSet
  <2> QED BY <2>1
<1> HIDE DEF step
<1>6. HasSteps(n, Disk, d, step)
  BY <1>1, <1>5, StepsExist
<1>7. PICK ds \in [0 .. n -> Disk] : ds[0] = d /\ \A k \in 1 .. n : ds[k] = step[<<k, ds[k - 1]>>]
  BY <1>6 DEF HasSteps
<1>8. ASSUME NEW k \in 1 .. n
      PROVE  ds[k] = Written(ds[k - 1], ws[k]) /\ ds[k - 1] \in Disk
  <2>1. k - 1 \in 0 .. n
    BY <1>1
  <2>2. ds[k - 1] \in Disk
    BY <2>1
  <2>3. step[<<k, ds[k - 1]>>] = Written(ds[k - 1], ws[k])
    BY <2>2 DEF step
  <2> QED BY <1>7, <2>2, <2>3
<1> DEFINE T == {k \in 0 .. n : Fills(d, ds[k], chain, blocks, k)}
<1>9. 0 .. n \subseteq T
  <2>1. 0 \in T
    <3>1. 0 \in 0 .. n
      BY <1>1
    <3>2. Fills(d, ds[0], chain, blocks, 0)
      BY <1>7, <3>1 DEF Fills
    <3> QED BY <3>1, <3>2
  <2>2. ASSUME NEW k \in 0 .. n - 1, k \in T PROVE k + 1 \in T
    <3> DEFINE j == k + 1
    <3>1. j \in 1 .. n /\ j - 1 = k /\ j \in 0 .. n /\ k \in Nat
      BY <1>1
    <3>2. Fills(d, ds[k], chain, blocks, k) /\ ds[k] \in Disk
      BY <2>2
    <3>3. ClusterIsSet(ds[k], ds[j], chain[j], blocks[j])
      BY <1>3, <1>8, <3>1, <3>2
    <3>4. chain[j] \in ToSet(chain) /\ chain[j] \in Clusters
      BY <1>1, <3>1 DEF ToSet
    <3>5. ASSUME NEW i \in 1 .. j PROVE ds[j].data[chain[i]] = blocks[i]
      <4>1. CASE i = j
        BY <3>3, <4>1 DEF ClusterIsSet
      <4>2. CASE i # j
        <5>1. i \in 1 .. k /\ i \in 1 .. n
          BY <1>1, <3>1, <4>2
        <5>2. chain[i] # chain[j] /\ chain[i] \in Clusters
          BY <1>1, <3>1, <4>2, <5>1
        <5>3. ds[k].data[chain[i]] = blocks[i]
          BY <3>2, <5>1 DEF Fills
        <5> QED BY <3>3, <5>2, <5>3 DEF ClusterIsSet
      <4> QED BY <4>1, <4>2
    <3> HIDE DEF j
    <3>6. \A c \in Clusters : c \notin ToSet(chain) => ds[j].data[c] = d.data[c]
      BY <3>2, <3>3, <3>4 DEF Fills, ClusterIsSet
    <3>7. ds[j] \in Disk /\ ds[j].fat = d.fat /\ ds[j].root = d.root
      BY <3>2, <3>3 DEF Fills, ClusterIsSet
    <3>8. Fills(d, ds[j], chain, blocks, j)
      BY <3>5, <3>6, <3>7 DEF Fills
    <3>9. j \in T
      BY <3>1, <3>8
    <3> QED BY <3>9 DEF j
  <2> HIDE DEF T
  <2> QED BY <1>1, <2>1, <2>2, UpTo
<1>10. \A k \in 0 .. n : Fills(d, ds[k], chain, blocks, k)
  BY <1>9
<1>11. \A k \in 0 .. n : ds[k] \in S
  BY <1>10 DEF Fills, ClustersDiffer
<1>12. Steps(S, ws, ds)
  BY <1>4, <1>7, <1>8, <1>11 DEF Steps
<1>13. n \in 0 .. n
  BY <1>1
<1>14. Leads(S, d, ws, ds[n])
  BY <1>4, <1>7, <1>12 DEF Leads
<1> QED BY <1>10, <1>13, <1>14 DEF n, ws

\* One block and another are two.
LEMMA OneAndOne ==
  ASSUME NEW S, NEW a \in S, NEW b \in S
  PROVE  <<a>> \o <<b>> = <<a, b>>
<1>1. <<a>> \in Seq(S) /\ <<b>> \in Seq(S) /\ <<a, b>> \in Seq(S) /\ Len(<<a, b>>) = 2
  OBVIOUS
<1>2. EndToEnd(S, <<a>>, <<b>>)
  BY <1>1, TwoLists
<1>3. Len(<<a>>) = 1 /\ Len(<<b>>) = 1 /\ 1 \in 1 .. 1 /\ 1 + 1 = 2
  OBVIOUS
<1> DEFINE both == <<a>> \o <<b>>
<1>4. both \in Seq(S) /\ Len(both) = 2
  BY <1>2, <1>3 DEF EndToEnd
<1>5. both[1] = a /\ both[2] = b
  BY <1>2, <1>3 DEF EndToEnd
<1> HIDE DEF both
<1>6. \A i \in 1 .. 2 : both[i] = <<a, b>>[i]
  BY <1>5
<1>7. both = <<a, b>>
  BY <1>1, <1>4, <1>6, SameList
<1> QED BY <1>7 DEF both

\* Both copies of the FAT are written.
FatsAre(d, e, fat) ==
    /\ e \in Disk /\ e.root = d.root /\ e.data = d.data
    /\ Loaded(e) = fat /\ e.fat[1] = fat /\ e.fat[2] = fat

\* Writing the FAT block by block: both copies, the first one before the second.
LEMMA Stored ==
  ASSUME NEW S, NEW d \in Disk, d \in S, NEW fat \in Fat, FatDiffers(S, d, fat)
  PROVE  \E e : FatsAre(d, e, fat) /\ e \in S /\ Leads(S, d, Store(fat), e)
<1> DEFINE a == Written(d, WriteFat(1, fat))
           e == Written(a, WriteFat(2, fat))
<1>1. WriteFat(1, fat) \in Write /\ FatIsSet(d, a, 1, fat)
  <2>1. 1 \in 1 .. 2
    OBVIOUS
  <2> QED BY <2>1, FatWritten
<1>2. a \in Disk
  BY <1>1 DEF FatIsSet
<1> HIDE DEF a
<1>3. WriteFat(2, fat) \in Write /\ FatIsSet(a, e, 2, fat)
  <2>1. 2 \in 1 .. 2
    OBVIOUS
  <2> QED BY <1>2, <2>1, FatWritten
<1> HIDE DEF e
<1>4. a.root = d.root /\ a.data = d.data /\ a.fat[1] = fat
  BY <1>1 DEF FatIsSet
<1>5. e \in Disk /\ e.root = a.root /\ e.data = a.data /\ e.fat[2] = fat /\ e.fat[1] = a.fat[1]
  BY <1>3 DEF FatIsSet
<1>6. FatsAre(d, e, fat)
  BY <1>4, <1>5 DEF FatsAre, Loaded
<1>7. a \in S
  BY <1>2, <1>4 DEF FatDiffers, Loaded
<1>8. e \in S
  BY <1>4, <1>5 DEF FatDiffers, Loaded
<1>9. Leads(S, d, <<WriteFat(1, fat)>>, a)
  BY <1>1, <1>7, LeadsOne DEF a
<1>10. Leads(S, a, <<WriteFat(2, fat)>>, e)
  BY <1>3, <1>7, <1>8, LeadsOne DEF e
<1>11. Leads(S, d, <<WriteFat(1, fat)>> \o <<WriteFat(2, fat)>>, e)
  BY <1>9, <1>10, LeadsOn
<1>12. <<WriteFat(1, fat)>> \o <<WriteFat(2, fat)>> = Store(fat)
  BY <1>1, <1>3, OneAndOne DEF Store
<1> QED BY <1>6, <1>8, <1>11, <1>12

\* A record of a laid out volume, and the clusters it is in.
LEMMA SpotOf ==
  ASSUME NEW d, NEW folders, NEW paths, LaidOut(d, folders, paths),
         NEW dir \in folders, NEW p \in ToSet(Places(d, dir))
  PROVE  /\ Spot(d, p) /\ At(d, p) \in Record
         /\ p[1] # Root => p[1] \in Used(d, folders) /\ d.data[p[1]].kind = "dir"
         /\ dir = Root => p[1] = Root
         /\ dir # Root => p[1] \in ToSet(Chain(Loaded(d), dir))
<1>1. PlacesKnown(d, dir)
  BY LaidPlaces
<1>2. At(d, p) \in Record
  BY <1>1 DEF PlacesKnown
<1>3. CASE dir = Root
  <2>1. PICK i \in 1 .. RootEntries : p = <<Root, i>>
    BY <1>1, <1>3 DEF PlacesKnown
  <2> QED BY <1>2, <1>3, <2>1 DEF Spot
<1>4. CASE dir # Root
  <2>1. PICK c \in ToSet(Chain(Loaded(d), dir)) : \E i \in Records(d.data[c]) : p = <<c, i>>
    BY <1>1, <1>4 DEF PlacesKnown
  <2>2. FolderIs(d, folders, dir)
    BY <1>4, LaidFolder
  <2>3. c \in Used(d, folders) /\ d.data[c].kind = "dir"
    BY <2>1, <2>2 DEF FolderIs, DirChain
  <2>4. c \in Clusters
    BY <2>3, UsedIsTaken
  <2> QED BY <1>2, <1>4, <2>1, <2>3, <2>4 DEF Spot
<1> QED BY <1>3, <1>4

\* What leaves the clusters that are used leaves the volume as it is.
LikeUsed(d, e, folders) ==
    /\ e \in Disk /\ e.root = d.root
    /\ \A c \in Used(d, folders) : Loaded(e)[c] = Loaded(d)[c] /\ e.data[c] = d.data[c]

\* Writes to clusters nothing uses change no entry and no folder.
LEMMA UnusedLeaves ==
  ASSUME NEW d, NEW folders, NEW paths, LaidOut(d, folders, paths), NEW e, LikeUsed(d, e, folders)
  PROVE  Leaves(d, e, folders)
<1>1. LikeOn(d, e, Used(d, folders)) /\ e \in Disk
  BY DEF LikeOn, LikeUsed
<1>2. ASSUME NEW dir \in folders, NEW p \in ToSet(Places(d, dir)) PROVE At(e, p) = At(d, p)
  <2>1. p[1] # Root => p[1] \in Used(d, folders)
    BY SpotOf
  <2> QED BY <2>1 DEF At, LikeUsed
<1>3. Edits(d, e, folders, {})
  BY <1>1, <1>2 DEF Edits
<1>4. ASSUME NEW dir \in folders \ {Root} PROVE e.data[dir].parent = d.data[dir].parent
  <2>1. FolderIs(d, folders, dir)
    BY LaidFolder
  <2>2. dir \in ToSet(Chain(Loaded(d), dir))
    BY <2>1, ChainClusters DEF FolderIs, DirChain
  <2>3. dir \in Used(d, folders)
    BY <2>1, <2>2 DEF FolderIs
  <2> QED BY <2>3 DEF LikeUsed
<1> QED BY <1>3, <1>4 DEF Leaves, SameParents

\* A record that is written is the only one that changes.
LEMMA RecordEdits ==
  ASSUME NEW d, NEW folders, NEW paths, LaidOut(d, folders, paths), NEW dir \in folders,
         NEW p, Reached(d, dir, p), NEW record \in Record, record.state # "free",
         NEW e, RecordIsSet(d, e, p, record)
  PROVE  Edits(d, e, folders, {p}) /\ SameParents(d, e, folders) /\ At(e, p) = record
<1>1. \A c \in Used(d, folders) : c \in Clusters
  BY UsedIsTaken
<1>2. LikeOn(d, e, Used(d, folders)) /\ e \in Disk
  BY <1>1 DEF LikeOn, RecordIsSet
<1>3. p \in ToSet(Places(d, dir))
  BY DEF Reached, ToSet
<1>4. ASSUME NEW other \in folders, NEW q \in ToSet(Places(d, other)), q # p
      PROVE  At(e, q) = At(d, q)
  <2>1. Spot(d, q)
    BY SpotOf
  <2> QED BY <1>4, <2>1 DEF RecordIsSet
<1>5. ASSUME NEW other \in folders, p \in ToSet(Places(d, other))
      PROVE  Reached(d, other, p)
  <2>1. other = dir
    BY <1>3, <1>5, OneFolder
  <2> QED BY <2>1
<1>6. At(e, p) = record
  BY DEF RecordIsSet
<1>7. Edits(d, e, folders, {p})
  BY <1>2, <1>4, <1>5, <1>6 DEF Edits
<1>8. ASSUME NEW c \in folders \ {Root} PROVE e.data[c].parent = d.data[c].parent
  <2>1. c \in Clusters
    BY DEF LaidOut, Clusters, Root
  <2> QED BY <2>1 DEF RecordIsSet
<1> QED BY <1>6, <1>7, <1>8 DEF SameParents

\* An entry is reached by a listing.
LEMMA EntryReached ==
  ASSUME NEW d, NEW folders, NEW paths, LaidOut(d, folders, paths), NEW dir \in folders,
         NEW p \in Entries(d, dir)
  PROVE  Reached(d, dir, p) /\ p \in ToSet(Places(d, dir))
<1>1. PlacesKnown(d, dir)
  BY LaidPlaces
<1>2. p \in ToSet(Places(d, dir))
  BY LaidPlaces
<1>3. PICK n \in DOMAIN Places(d, dir) :
          /\ p = Places(d, dir)[n]
          /\ \A i \in 1 .. n : At(d, Places(d, dir)[i]).state # "free"
  BY DEF Entries
<1>4. Places(d, dir) \in Seq(Place)
  BY <1>1 DEF PlacesKnown
<1>5. DOMAIN Places(d, dir) = 1 .. Len(Places(d, dir)) /\ Len(Places(d, dir)) \in Nat
  BY <1>4
<1>6. \A m \in DOMAIN Places(d, dir) : m < n => m \in 1 .. n
  BY <1>5
<1>7. Reached(d, dir, p)
  BY <1>3, <1>6 DEF Reached
<1> QED BY <1>2, <1>7

(***************************************************************************)
(* A record for a new entry.                                               *)
(***************************************************************************)

\* Tidy: the copies of the FAT agree, and what is not free is used.
LEMMA TidyIs ==
  ASSUME NEW d, NEW folders
  PROVE  Tidy(d, folders) <=>
            /\ d.fat[1] = d.fat[2]
            /\ \A c \in Clusters : Loaded(d)[c] # Free => c \in Used(d, folders)
BY UsedAfter DEF Tidy

\* The entries of every directory are what they were, and so are their records.
SameEntries(d, e, folders) ==
    /\ \A c \in folders : /\ Entries(e, c) = Entries(d, c)
                          /\ \A p \in ToSet(Places(d, c)) : At(e, p) = At(d, p)
    /\ SameParents(d, e, folders)

\* A record that may be used for a new entry, after what it took to get it.
GetsSlot(T, d, e, folders, paths, dir, slot) ==
    /\ Leads(Within(T), d, slot.writes, e) /\ Tree(e) = Tree(d)
    /\ LaidOut(e, folders, paths) /\ e \in Disk
    /\ Loaded(e) = slot.fat
    /\ SameEntries(d, e, folders)
    /\ Reached(e, dir, slot.place) /\ slot.place \in ToSet(Places(e, dir))
    /\ At(e, slot.place).state # "live"
    /\ Tidy(d, folders) => Tidy(e, folders)

\* The first record of the directory that is not in use.
LEMMA UsableSlot ==
  ASSUME NEW d, NEW folders, NEW paths, LaidOut(d, folders, paths), NEW dir \in folders,
         NEW T, Tree(d) \in T,
         \E p \in ToSet(Places(d, dir)) : At(d, p).state # "live"
  PROVE  GetsSlot(T, d, d, folders, paths, dir, Slot(d, dir))
<1> DEFINE places == Places(d, dir)
           usable == {n \in DOMAIN places : At(d, places[n]).state # "live"}
           first == CHOOSE n \in usable : \A m \in usable : n <= m
           slot == Slot(d, dir)
<1>1. PlacesKnown(d, dir)
  BY LaidPlaces
<1>2. places \in Seq(Place) /\ DOMAIN places = 1 .. Len(places) /\ Len(places) \in Nat
  BY <1>1 DEF PlacesKnown
<1>3. usable # {} /\ usable \in SUBSET Nat
  BY <1>2 DEF ToSet
<1>4. \E n \in usable : \A m \in usable : n <= m
  <2> HIDE DEF usable
  <2> QED BY <1>3, LeastNumber
<1>5. first \in usable /\ \A m \in usable : first <= m
  <2> HIDE DEF usable
  <2> QED BY <1>4
<1>6. slot = [place |-> places[first], writes |-> <<>>, fat |-> Loaded(d)]
  BY <1>3 DEF Slot
<1>7. slot.place = places[first] /\ slot.writes = <<>> /\ slot.fat = Loaded(d)
  BY <1>6
<1> HIDE DEF slot, first
<1>8. first \in DOMAIN places /\ At(d, places[first]).state # "live" /\ first \in Nat
  BY <1>2, <1>5
<1>9. ASSUME NEW m \in DOMAIN places, m < first PROVE At(d, places[m]).state # "free"
  <2>1. m \notin usable
    <3>1. m \in Nat
      BY <1>2
    <3>2. ~(first <= m)
      BY <1>8, <1>9, <3>1
    <3> QED BY <1>5, <3>2
  <2>2. At(d, places[m]).state = "live"
    BY <2>1
  <2> QED BY <2>2
<1>10. Reached(d, dir, places[first]) /\ places[first] \in ToSet(places)
  BY <1>8, <1>9 DEF Reached, ToSet
<1>11. Leads(Within(T), d, <<>>, d)
  <2>1. d \in Within(T)
    BY IsWithin
  <2> QED BY <2>1, LeadsNowhere
<1>12. SameEntries(d, d, folders)
  BY DEF SameEntries, SameParents
<1>13. d \in Disk
  BY DEF LaidOut
<1> HIDE DEF places
<1>14. GetsSlot(T, d, d, folders, paths, dir, slot)
  BY <1>7, <1>8, <1>10, <1>11, <1>12, <1>13 DEF GetsSlot, places
<1> QED BY <1>14 DEF slot

\* One cluster after another one.
LEMMA LinkedOne ==
  ASSUME NEW fat \in Fat, NEW chain \in Seq(Clusters), Len(chain) = 1, NEW last \in Clusters
  PROVE  Linked([fat EXCEPT ![last] = chain[1]], chain) =
             [fat EXCEPT ![last] = chain[1], ![chain[1]] = Eoc]
<1> DEFINE new == chain[1]
           fat1 == [fat EXCEPT ![last] = new]
           one == Linked(fat1, chain)
           two == [fat EXCEPT ![last] = new, ![new] = Eoc]
<1>1. ToSet(chain) = {new} /\ Last(chain) = new /\ new \in Clusters
  <2>1. DOMAIN chain = {1} /\ new \in Clusters
    <3>1. DOMAIN chain = 1 .. 1
      OBVIOUS
    <3>2. 1 .. 1 = {1}
      OBVIOUS
    <3>3. 1 \in DOMAIN chain
      BY <3>1, <3>2
    <3>4. chain[1] \in Clusters
      <4>1. \A s \in Seq(Clusters) : \A i \in DOMAIN s : s[i] \in Clusters
        OBVIOUS
      <4> QED BY <3>3, <4>1
    <3> QED BY <3>1, <3>2, <3>4
  <2>2. ToSet(chain) = {new}
    BY <2>1 DEF ToSet
  <2>3. Last(chain) = new
    BY DEF Last
  <2> QED BY <2>1, <2>2, <2>3
<1> HIDE DEF new
<1>2. DOMAIN fat = Clusters
  BY DEF Fat
<1>3. \A c \in Clusters : c # new => one[c] = fat1[c]
  BY <1>1 DEF Linked
<1>4. one[new] = Eoc
  BY <1>1 DEF Linked
<1>5. \A c \in Clusters : two[c] = IF c = new THEN Eoc ELSE fat1[c]
  BY <1>2
<1>6. one = [c \in Clusters |-> one[c]]
  BY DEF Linked
<1>7. two = [c \in Clusters |-> two[c]]
  BY <1>2
<1> HIDE DEF one, two
<1>8. \A c \in Clusters : one[c] = two[c]
  BY <1>3, <1>4, <1>5
<1>9. one = two
  BY <1>6, <1>7, <1>8
<1> QED BY <1>9 DEF one, two, new

\* A directory without one grows: by a cleared cluster, in both copies of the FAT.
LEMMA GrownSlot ==
  ASSUME NEW d, NEW folders, NEW paths, LaidOut(d, folders, paths), NEW dir \in folders,
         NEW T, Tree(d) \in T,
         ~ \E p \in ToSet(Places(d, dir)) : At(d, p).state # "live",
         dir # Root, FreeCount(Loaded(d)) > 0
  PROVE  \E e : GetsSlot(T, d, e, folders, paths, dir, Slot(d, dir))
<1> DEFINE fat == Loaded(d)
           places == Places(d, dir)
           usable == {n \in DOMAIN places : At(d, places[n]).state # "live"}
           list == Lowest(fat, 1)
           new == list[1]
           last == Last(Chain(fat, dir))
           grown == Linked([fat EXCEPT ![last] = list[1]], list)
           slot == Slot(d, dir)
           a == Written(d, WriteCluster(new, ZeroBlock))
<1>1. d \in Disk /\ fat \in Fat
  <2>1. d \in Disk
    BY DEF LaidOut
  <2> QED BY <2>1, LoadedFat
<1>2. usable = {}
  BY DEF ToSet
<1>3. slot.place = <<new, 1>> /\ slot.writes = <<WriteCluster(new, ZeroBlock)>> \o Store(grown)
          /\ slot.fat = grown
  <2>1. slot = [place |-> <<new, 1>>, writes |-> <<WriteCluster(new, ZeroBlock)>> \o Store(grown),
                fat |-> grown]
    BY <1>2 DEF Slot
  <2> HIDE DEF slot
  <2> QED BY <2>1
<1>4. /\ list \in Seq(Clusters) /\ Len(list) = 1
      /\ new \in Clusters /\ fat[new] = Free
  <2>1. 1 \in Nat /\ 1 <= FreeCount(fat)
    BY <1>1, FreeIsCounted
  <2>2. AreFree(fat, list, 1)
    <3> HIDE DEF fat
    <3> QED BY <1>1, <2>1, LowestFree
  <2>3. list \in Seq(Clusters) /\ Len(list) = 1
    BY <2>2 DEF AreFree
  <2>4. new \in ToSet(list)
    BY <2>3 DEF ToSet
  <2> QED BY <2>2, <2>3, <2>4 DEF AreFree
<1>5. FolderIs(d, folders, dir) /\ DirChain(d, dir)
  <2>1. FolderIs(d, folders, dir)
    BY LaidFolder
  <2> QED BY <2>1 DEF FolderIs
<1>6. last \in Clusters /\ last \in Used(d, folders)
  <2>1. Chain(fat, dir) \in Seq(Clusters) /\ dir \in ToSet(Chain(fat, dir))
    BY <1>5, ChainClusters DEF DirChain
  <2>2. Chain(fat, dir) # <<>>
    BY <2>1, EmptyList
  <2>3. Len(Chain(fat, dir)) \in DOMAIN Chain(fat, dir)
    BY <2>1, <2>2
  <2>4. last \in ToSet(Chain(fat, dir))
    BY <2>3 DEF ToSet, Last
  <2>5. last \in Used(d, folders)
    BY <1>5, <2>4 DEF FolderIs
  <2> QED BY <2>5, UsedIsTaken
<1>7. grown = [fat EXCEPT ![last] = new, ![new] = Eoc]
  <2> HIDE DEF fat, last, list
  <2> QED BY <1>1, <1>4, <1>6, LinkedOne
<1>8. new \notin Used(d, folders)
  BY <1>4, UsedIsTaken
<1> HIDE DEF fat, list, last, new, slot
<1>9. WriteCluster(new, ZeroBlock) \in Write /\ ClusterIsSet(d, a, new, ZeroBlock)
  BY <1>1, <1>4, ClusterWritten, ZeroIs
<1> HIDE DEF a
<1>10. /\ a \in Disk /\ a.root = d.root /\ a.fat = d.fat /\ a.data[new] = ZeroBlock
       /\ \A b \in Clusters : b # new => a.data[b] = d.data[b]
  BY <1>9 DEF ClusterIsSet
<1>11. Leaves(d, a, folders)
  <2>1. \A c \in Used(d, folders) : c \in Clusters /\ c # new
    BY <1>8, UsedIsTaken
  <2>2. LikeUsed(d, a, folders)
    BY <1>10, <2>1 DEF LikeUsed, Loaded
  <2> QED BY <2>2, UnusedLeaves
<1>12. LaidOut(a, folders, paths) /\ Used(a, folders) = Used(d, folders)
  BY <1>11, Untouched
<1>13. SameParents(d, a, folders)
  BY <1>11 DEF Leaves
<1>14. ASSUME NEW c \in folders
       PROVE  /\ Entries(a, c) = Entries(d, c) /\ Places(a, c) = Places(d, c)
              /\ \A p \in ToSet(Places(d, c)) : At(a, p) = At(d, p)
  <2>1. Edited(d, a, c, {})
    BY <1>11, EditedFolder DEF Leaves
  <2>2. \A p : p \in Entries(a, c) <=> p \in Entries(d, c)
    BY <2>1 DEF Edited
  <2> QED BY <2>1, <2>2 DEF Edited, SteadyFolder
<1>15. Loaded(a) = fat
  BY <1>10 DEF Loaded, fat
<1>16. ASSUME NEW e \in Disk, e.root = a.root, e.data = a.data, Loaded(e) = grown
       PROVE  Grows1(a, e, folders, dir, new)
  <2>1. Loaded(a)[new] = Free
    BY <1>4, <1>15
  <2>2. last = Last(Chain(Loaded(a), dir))
    BY <1>15 DEF last
  <2>3. Loaded(e) = [Loaded(a) EXCEPT ![Last(Chain(Loaded(a), dir))] = new, ![new] = Eoc]
    BY <1>7, <1>15, <1>16, <2>2
  <2> QED BY <1>4, <1>10, <1>16, <2>1, <2>3 DEF Grows1
<1>17. Tree(a) = Tree(d)
  BY <1>11, LeftTree
<1>18. a \in Within(T) /\ d \in Within(T)
  <2>1. Tree(a) \in T
    BY <1>17
  <2> QED BY <1>12, <2>1, IsWithin
<1>19. FatDiffers(Within(T), a, grown)
  <2>1. ASSUME NEW e \in Disk, e.root = a.root, e.data = a.data, Loaded(e) = grown
        PROVE  e \in Within(T)
    <3>1. Grows1(a, e, folders, dir, new)
      BY <1>16, <2>1
    <3>2. LaidOut(e, folders, paths)
      BY <1>12, <3>1, Grown
    <3>3. Tree(e) = Tree(a)
      BY <1>12, <3>1, GrownTree
    <3>4. Tree(e) \in T
      BY <1>17, <3>3
    <3> QED BY <3>2, <3>4, IsWithin
  <2> HIDE DEF grown
  <2> QED BY <2>1 DEF FatDiffers
<1>20. grown \in Fat
  <2>1. Eoc \in 0 .. Eoc /\ \A c \in Clusters : c \in 0 .. Eoc
    BY SizeAssumption DEF Eoc, Clusters
  <2> QED BY <1>1, <1>4, <1>6, <1>7, <2>1 DEF Fat
<1> HIDE DEF grown
<1>21. PICK e : FatsAre(a, e, grown) /\ Leads(Within(T), a, Store(grown), e)
  BY <1>10, <1>18, <1>19, <1>20, Stored
<1>22. e \in Disk /\ e.root = a.root /\ e.data = a.data /\ Loaded(e) = grown /\ e.fat[1] = e.fat[2]
  BY <1>21 DEF FatsAre
<1>23. Grows1(a, e, folders, dir, new)
  BY <1>16, <1>22
<1>24. /\ LaidOut(e, folders, paths) /\ Used(e, folders) = Used(a, folders) \cup {new}
       /\ \A c \in folders : Entries(e, c) = Entries(a, c)
  BY <1>12, <1>23, Grown
<1>25. Leads(Within(T), d, slot.writes, e)
  <2>1. Leads(Within(T), d, <<WriteCluster(new, ZeroBlock)>>, a)
    BY <1>9, <1>18, LeadsOne DEF a
  <2>2. Leads(Within(T), d, <<WriteCluster(new, ZeroBlock)>> \o Store(grown), e)
    BY <1>21, <2>1, LeadsOn
  <2> QED BY <1>3, <2>2
<1>26. Tree(e) = Tree(d)
  <2>1. Tree(e) = Tree(a)
    BY <1>12, <1>23, GrownTree
  <2> QED BY <1>17, <2>1
<1>27. SameParents(d, e, folders)
  BY <1>13, <1>22 DEF SameParents
<1>28. ASSUME NEW c \in folders PROVE \A p \in ToSet(Places(d, c)) : At(e, p) = At(d, p)
  <2>1. \A p \in ToSet(Places(a, c)) : At(e, p) = At(a, p)
    BY <1>12, <1>23, GrownEntries
  <2> QED BY <1>14, <2>1
<1>29. SameEntries(d, e, folders)
  BY <1>14, <1>24, <1>27, <1>28 DEF SameEntries
<1>30. Tidy(d, folders) => Tidy(e, folders)
  <2>1. SUFFICES ASSUME Tidy(d, folders) PROVE Tidy(e, folders)
    OBVIOUS
  <2>2. \A c \in Clusters : fat[c] # Free => c \in Used(d, folders)
    BY <2>1, TidyIs DEF fat
  <2>3. \A c \in Clusters : c # last /\ c # new => grown[c] = fat[c]
    BY <1>1, <1>7 DEF Fat
  <2>4. \A c \in Clusters : Loaded(e)[c] # Free => c \in Used(e, folders)
    BY <1>6, <1>12, <1>22, <1>24, <2>2, <2>3
  <2> QED BY <1>22, <2>4, TidyIs
<1>31. /\ Places(e, dir) = Places(a, dir) \o PlacesOf(new, ZeroBlock)
       /\ PlacesOf(new, ZeroBlock) \in Seq(Place)
  BY <1>12, <1>23, GrownPlaces
<1>32. Places(a, dir) = places /\ places \in Seq(Place)
  <2>1. PlacesKnown(d, dir)
    BY LaidPlaces
  <2> QED BY <1>14, <2>1 DEF PlacesKnown
<1>33. /\ Len(PlacesOf(new, ZeroBlock)) = ClusterEntries /\ 1 \in 1 .. ClusterEntries
       /\ PlacesOf(new, ZeroBlock)[1] = <<new, 1>>
  <2>1. ClusterEntries \in Nat /\ 1 \in 1 .. ClusterEntries
    BY SizeAssumption
  <2>2. PlacesOf(new, ZeroBlock) = [i \in 1 .. ClusterEntries |-> <<new, i>>]
    BY ZeroIs DEF PlacesOf
  <2> QED BY <2>1, <2>2
<1> HIDE DEF usable
<1>34. /\ Places(e, dir) \in Seq(Place) /\ Len(Places(e, dir)) = Len(places) + ClusterEntries
       /\ Places(e, dir)[Len(places) + 1] = <<new, 1>>
       /\ \A i \in 1 .. Len(places) : Places(e, dir)[i] = places[i]
  <2>1. EndToEnd(Place, places, PlacesOf(new, ZeroBlock))
    BY <1>31, <1>32, TwoLists
  <2> HIDE DEF places
  <2> QED BY <1>31, <1>32, <1>33, <2>1 DEF EndToEnd
<1>35. \A i \in 1 .. Len(places) : At(e, places[i]).state = "live"
  <2>1. ASSUME NEW i \in 1 .. Len(places) PROVE At(e, places[i]).state = "live"
    <3>1. places[i] \in ToSet(places)
      BY <1>32 DEF ToSet
    <3>2. At(d, places[i]).state = "live"
      BY <3>1
    <3> QED BY <1>28, <3>1, <3>2
  <2> QED BY <2>1
<1>36. At(e, <<new, 1>>).state = "free"
  <2>1. <<new, 1>>[1] # Root /\ <<new, 1>>[1] = new /\ <<new, 1>>[2] = 1
    BY <1>4 DEF Clusters, Root
  <2>2. ZeroBlock.records[1] = FreeRecord
    BY <1>33, ZeroIs
  <2>3. e.data[new] = ZeroBlock
    BY <1>10, <1>22
  <2>4. At(e, <<new, 1>>) = FreeRecord
    BY <2>1, <2>2, <2>3 DEF At
  <2>5. FreeRecord.state = "free"
    BY DEF FreeRecord
  <2> QED BY <2>4, <2>5
<1>37. Reached(e, dir, <<new, 1>>) /\ <<new, 1>> \in ToSet(Places(e, dir))
  <2> DEFINE n == Len(places) + 1
             longer == Places(e, dir)
  <2> HIDE DEF places, longer
  <2>1. Len(places) \in Nat /\ ClusterEntries \in Nat \ {0}
    BY <1>32, SizeAssumption
  <2>2. DOMAIN longer = 1 .. Len(longer) /\ Len(longer) = Len(places) + ClusterEntries
    BY <1>34 DEF longer
  <2>3. n \in DOMAIN longer /\ longer[n] = <<new, 1>>
    BY <1>34, <2>1, <2>2 DEF longer
  <2>4. \A m \in DOMAIN longer : m < n => m \in 1 .. Len(places)
    BY <2>1, <2>2
  <2>5. \A m \in DOMAIN longer : m < n => At(e, longer[m]).state # "free"
    BY <1>34, <1>35, <2>4 DEF longer
  <2> HIDE DEF n
  <2> QED BY <2>3, <2>5 DEF Reached, ToSet, longer
<1>38. GetsSlot(T, d, e, folders, paths, dir, slot)
  BY <1>3, <1>22, <1>24, <1>25, <1>26, <1>29, <1>30, <1>36, <1>37 DEF GetsSlot
<1> QED BY <1>38 DEF slot

\* _allocate_slot() finds a record for a new entry, or makes one.
LEMMA SlotFound ==
  ASSUME NEW d, NEW folders, NEW paths, LaidOut(d, folders, paths), NEW dir \in folders,
         NEW T, Tree(d) \in T,
         HasSlot(d, dir)
  PROVE  \E e : GetsSlot(T, d, e, folders, paths, dir, Slot(d, dir))
<1>1. CASE \E p \in ToSet(Places(d, dir)) : At(d, p).state # "live"
  BY <1>1, UsableSlot
<1>2. CASE ~ \E p \in ToSet(Places(d, dir)) : At(d, p).state # "live"
  <2>1. dir # Root /\ FreeCount(Loaded(d)) > 0
    BY <1>2 DEF HasSlot
  <2> QED BY <1>2, <2>1, GrownSlot
<1> QED BY <1>1, <1>2

(***************************************************************************)
(* New clusters: filled, linked, and not yet the content of an entry.      *)
(***************************************************************************)

\* The clusters of the chain are filled and linked, no entry has them.
Prepared(a, c, folders, paths, chain, blocks) ==
    /\ c \in Disk /\ LaidOut(c, folders, paths)
    /\ Leaves(a, c, folders)
    /\ Used(c, folders) = Used(a, folders)
    /\ IsLinked(Loaded(a), chain, Loaded(c))
    /\ a.fat[1] = a.fat[2] => c.fat[1] = c.fat[2]
    /\ \A i \in 1 .. Len(chain) : c.data[chain[i]] = blocks[i]

\* A list of no elements.
LEMMA NoneIn ==
  ASSUME NEW S, NEW s \in Seq(S), Len(s) = 0
  PROVE  s = <<>> /\ ToSet(s) = {}
BY DEF ToSet

\* A list of one.
LEMMA OneIn ==
  ASSUME NEW s \in Seq(Clusters), Len(s) = 1
  PROVE  s[1] \in Clusters /\ s # <<>> /\ ToSet(s) = {s[1]}
BY DEF ToSet

\* Some blocks, and then others, through laid out volumes.
LeadsBoth(T, a, ws, vs, c) ==
    \E b : Leads(Within(T), a, ws, b) /\ Leads(Within(T), b, vs, c)

\* Writing to free clusters and linking them leaves what is used.
LEMMA Prepares ==
  ASSUME NEW a, NEW folders, NEW paths, LaidOut(a, folders, paths),
         NEW count \in Nat, NEW chain, AreFree(Loaded(a), chain, count),
         NEW blocks, \A i \in 1 .. count : blocks[i] \in Block,
         NEW T, Tree(a) \in T
  PROVE  \E c : /\ Prepared(a, c, folders, paths, chain, blocks)
                /\ LeadsBoth(T, a, FillWrites(chain, blocks),
                             IF count = 0 THEN <<>> ELSE Store(Linked(Loaded(a), chain)), c)
<1> DEFINE fat == Loaded(a)
           fat2 == Linked(fat, chain)
           store == IF count = 0 THEN <<>> ELSE Store(fat2)
<1>1. a \in Disk /\ a \in Within(T) /\ fat \in Fat
  <2>1. a \in Disk /\ a \in Within(T)
    BY IsWithin
  <2> QED BY <2>1, LoadedFat
<1>2. /\ chain \in Seq(Clusters) /\ Len(chain) = count
      /\ \A i, j \in DOMAIN chain : chain[i] = chain[j] => i = j
      /\ \A x \in ToSet(chain) : x \in Clusters /\ fat[x] = Free
  BY DEF AreFree
<1>3. \A x \in Used(a, folders) : x \in Clusters /\ x \notin ToSet(chain)
  BY <1>2, UsedIsTaken
<1>4. ASSUME NEW x, LikeUsed(a, x, folders)
      PROVE  /\ x \in Within(T) /\ LaidOut(x, folders, paths) /\ Leaves(a, x, folders)
             /\ Used(x, folders) = Used(a, folders)
  <2>1. Leaves(a, x, folders)
    BY <1>4, UnusedLeaves
  <2>2. LaidOut(x, folders, paths) /\ Used(x, folders) = Used(a, folders)
    BY <2>1, Untouched
  <2>3. Tree(x) \in T
    BY <2>1, LeftTree
  <2>4. x \in Within(T)
    BY <2>2, <2>3, IsWithin
  <2> QED BY <2>1, <2>2, <2>4
<1>5. ASSUME NEW x \in Disk, x.root = a.root,
             \A y \in Clusters :
                 y \notin ToSet(chain) => Loaded(x)[y] = fat[y] /\ x.data[y] = a.data[y]
      PROVE  LikeUsed(a, x, folders)
  BY <1>3, <1>5 DEF LikeUsed
<1>6. ClustersDiffer(Within(T), a, chain)
  <2>1. ASSUME NEW x \in Disk, x.fat = a.fat, x.root = a.root,
               \A y \in Clusters : y \notin ToSet(chain) => x.data[y] = a.data[y]
        PROVE  x \in Within(T)
    <3>1. Loaded(x) = fat
      BY <2>1 DEF Loaded
    <3>2. LikeUsed(a, x, folders)
      BY <1>5, <2>1, <3>1
    <3> QED BY <1>4, <3>2
  <2> QED BY <2>1 DEF ClustersDiffer
<1>7. PICK b : Fills(a, b, chain, blocks, Len(chain))
          /\ Leads(Within(T), a, FillWrites(chain, blocks), b)
  <2>1. \A i \in 1 .. Len(chain) : blocks[i] \in Block
    BY <1>2
  <2> QED BY <1>1, <1>2, <1>6, <2>1, Filled
<1>8. /\ b \in Disk /\ b.fat = a.fat /\ b.root = a.root
      /\ \A i \in 1 .. Len(chain) : b.data[chain[i]] = blocks[i]
      /\ \A y \in Clusters : y \notin ToSet(chain) => b.data[y] = a.data[y]
  BY <1>7 DEF Fills
<1>9. IsLinked(fat, chain, fat2)
  <2> HIDE DEF fat
  <2> QED BY <1>1, <1>2, LinkedIs
<1>10. fat2 \in Fat /\ \A y \in Clusters : y \notin ToSet(chain) => fat2[y] = fat[y]
  BY <1>9 DEF IsLinked
<1> HIDE DEF fat2
<1>11. CASE count = 0
  <2>1. chain = <<>> /\ ToSet(chain) = {}
    BY <1>2, <1>11, NoneIn
  <2>2. Loaded(b) = fat /\ fat \in Fat
    BY <1>1, <1>8 DEF Loaded
  <2>3. IsLinked(fat, chain, fat)
    BY <1>1, <2>1 DEF IsLinked
  <2>4. LikeUsed(a, b, folders)
    BY <1>5, <1>8, <2>2
  <2>5. LaidOut(b, folders, paths) /\ Leaves(a, b, folders) /\ Used(b, folders) = Used(a, folders)
    BY <1>4, <2>4
  <2>6. Prepared(a, b, folders, paths, chain, blocks)
    BY <1>8, <2>2, <2>3, <2>5 DEF Prepared
  <2>7. b \in Within(T)
    BY <1>4, <2>4
  <2>8. LeadsBoth(T, a, FillWrites(chain, blocks), store, b)
    <3>1. Leads(Within(T), b, store, b)
      BY <1>11, <2>7, LeadsNowhere
    <3> HIDE DEF store
    <3> QED BY <1>7, <3>1 DEF LeadsBoth
  <2> QED BY <2>6, <2>8 DEF fat2
<1>12. CASE count # 0
  <2>1. ASSUME NEW x \in Disk, x.root = b.root, x.data = b.data, Loaded(x) = fat2
        PROVE  LikeUsed(a, x, folders)
    BY <1>5, <1>8, <1>10, <2>1
  <2>2. FatDiffers(Within(T), b, fat2)
    <3>1. ASSUME NEW x \in Disk, x.root = b.root, x.data = b.data, Loaded(x) = fat2
          PROVE  x \in Within(T)
      BY <1>4, <2>1, <3>1
    <3> QED BY <3>1 DEF FatDiffers
  <2>3. b \in Within(T)
    BY <1>7, LeadsEnds
  <2>4. PICK c : FatsAre(b, c, fat2) /\ Leads(Within(T), b, Store(fat2), c)
    BY <1>8, <1>10, <2>2, <2>3, Stored
  <2>5. c \in Disk /\ c.root = b.root /\ c.data = b.data /\ Loaded(c) = fat2 /\ c.fat[1] = c.fat[2]
    BY <2>4 DEF FatsAre
  <2>6. LikeUsed(a, c, folders)
    BY <2>1, <2>5
  <2>7. LaidOut(c, folders, paths) /\ Leaves(a, c, folders) /\ Used(c, folders) = Used(a, folders)
    BY <1>4, <2>6
  <2>8. Prepared(a, c, folders, paths, chain, blocks)
    BY <1>8, <1>9, <2>5, <2>7 DEF Prepared
  <2>9. store = Store(fat2)
    BY <1>12
  <2> HIDE DEF store
  <2>10. LeadsBoth(T, a, FillWrites(chain, blocks), store, c)
    BY <1>7, <2>4, <2>9 DEF LeadsBoth
  <2> QED BY <2>8, <2>10 DEF store, fat2
<1> QED BY <1>11, <1>12

\* A place where a record may go stays one when nothing changes that is used.
LEMMA SlotStays ==
  ASSUME NEW a, NEW folders, NEW paths, LaidOut(a, folders, paths), NEW dir \in folders,
         NEW c, Leaves(a, c, folders), NEW p, Reached(a, dir, p), p \in ToSet(Places(a, dir))
  PROVE  /\ Reached(c, dir, p) /\ p \in ToSet(Places(c, dir)) /\ At(c, p) = At(a, p)
         /\ Entries(c, dir) = Entries(a, dir)
         /\ \A q \in Entries(a, dir) : At(c, q) = At(a, q)
<1>1. Edited(a, c, dir, {})
  BY EditedFolder DEF Leaves
<1>2. /\ Places(c, dir) = Places(a, dir)
      /\ \A q \in ToSet(Places(a, dir)) : At(c, q) = At(a, q)
      /\ \A q : q \in Entries(c, dir) <=> q \in Entries(a, dir)
  BY <1>1 DEF Edited, SteadyFolder
<1>3. Entries(c, dir) = Entries(a, dir)
  BY <1>2
<1>4. \A m \in DOMAIN Places(a, dir) : Places(a, dir)[m] \in ToSet(Places(a, dir))
  BY DEF ToSet
<1>5. Reached(c, dir, p)
  BY <1>2, <1>4 DEF Reached
<1>6. \A q \in Entries(a, dir) : q \in ToSet(Places(a, dir))
  BY LaidPlaces
<1> QED BY <1>2, <1>3, <1>5, <1>6

(***************************************************************************)
(* Where the blocks of a call lead.                                        *)
(***************************************************************************)
Goes(S, d, folders, tree, ws) ==
    \E e, folders2, paths2 :
        /\ LaidOut(e, folders2, paths2) /\ Tree(e) = tree
        /\ Tidy(d, folders) => Tidy(e, folders2)
        /\ Leads(S, d, ws, e)

\* What a user sees of a new record.
Newcomer(paths, dir, record, data) ==
    [path |-> Append(paths[dir], record.name), dir |-> record.dir, data |-> data]

\* A new entry for prepared clusters, in a record that was found for it.
Fits(a, c, folders, paths, chain, dir, place, record) ==
    /\ LaidOut(a, folders, paths)
    /\ dir \in folders /\ Reached(a, dir, place) /\ place \in ToSet(Places(a, dir))
    /\ At(a, place).state # "live"
    /\ \A p \in Entries(a, dir) : At(a, p).name # record.name
    /\ \E count : AreFree(Loaded(a), chain, count)
    /\ record \in Record /\ record.state = "live" /\ record.name \in Names
    /\ record.first = IF chain = <<>> THEN 0 ELSE chain[1]

\* What the record leaves of what was prepared.
NewRecord(c, e, folders, chain, dir, place, record) ==
    /\ WriteRecord(place, record) \in Write /\ Spot(c, place)
    /\ Edits(c, e, folders, {place}) /\ SameParents(c, e, folders) /\ At(e, place) = record
    /\ place \in ToSet(Places(c, dir)) /\ At(c, place).state # "live"
    /\ \A p \in Entries(c, dir) : At(c, p).name # record.name
    /\ e \in Disk /\ e.fat = c.fat /\ LikeOn(c, e, Clusters)
    /\ Chain(Loaded(e), record.first) = chain
    /\ record.first = 0 \/ Chained(Loaded(e), record.first)
    /\ ToSet(chain) \cap Used(c, folders) = {}

\* A record written in a slot that was found, for clusters that were prepared: the
\* change is one new record.
LEMMA RecordsNew ==
  ASSUME NEW a, NEW c, NEW folders, NEW paths, NEW chain, NEW blocks, NEW dir, NEW place,
         NEW record,
         Fits(a, c, folders, paths, chain, dir, place, record),
         Prepared(a, c, folders, paths, chain, blocks),
         NEW e, RecordIsSet(c, e, place, record)
  PROVE  NewRecord(c, e, folders, chain, dir, place, record)
<1>1. /\ LaidOut(a, folders, paths) /\ dir \in folders /\ Reached(a, dir, place)
      /\ place \in ToSet(Places(a, dir)) /\ At(a, place).state # "live"
      /\ \A p \in Entries(a, dir) : At(a, p).name # record.name
      /\ record \in Record /\ record.state = "live"
      /\ record.first = IF chain = <<>> THEN 0 ELSE chain[1]
  BY DEF Fits
<1>2. /\ c \in Disk /\ LaidOut(c, folders, paths) /\ Leaves(a, c, folders)
      /\ Used(c, folders) = Used(a, folders) /\ IsLinked(Loaded(a), chain, Loaded(c))
  BY DEF Prepared
<1>3. /\ Reached(c, dir, place) /\ place \in ToSet(Places(c, dir)) /\ At(c, place) = At(a, place)
      /\ Entries(c, dir) = Entries(a, dir) /\ \A q \in Entries(a, dir) : At(c, q) = At(a, q)
  BY <1>1, <1>2, SlotStays
<1>4. Spot(c, place)
  BY <1>1, <1>2, <1>3, SpotOf
<1>5. WriteRecord(place, record) \in Write
  BY <1>1, <1>2, <1>4, RecordWritten
<1>6. record \in Record /\ record.state # "free" /\ Reached(c, dir, place) /\ dir \in folders
  BY <1>1, <1>3
<1>7. Edits(c, e, folders, {place}) /\ SameParents(c, e, folders) /\ At(e, place) = record
  BY <1>2, <1>6, RecordEdits
<1>8. e \in Disk /\ e.fat = c.fat /\ LikeOn(c, e, Clusters)
  BY DEF RecordIsSet
<1>9. Loaded(e) = Loaded(c) /\ Loaded(c) \in Fat
  BY <1>2, <1>8, LoadedFat DEF Loaded
<1>10. /\ Chain(Loaded(e), record.first) = chain
       /\ record.first = 0 \/ Chained(Loaded(e), record.first)
  <2>1. CASE chain = <<>>
    BY <1>1, <1>9, <2>1, NoChain
  <2>2. CASE chain # <<>>
    BY <1>1, <1>2, <1>9, <2>2 DEF IsLinked
  <2> QED BY <2>1, <2>2
<1>11. ToSet(chain) \cap Used(c, folders) = {}
  <2>1. \A x \in ToSet(chain) : Loaded(a)[x] = Free
    BY DEF Fits, AreFree
  <2>2. \A x \in Used(a, folders) : Loaded(a)[x] # Free
    BY <1>1, UsedIsTaken
  <2> QED BY <1>2, <2>1, <2>2
<1> QED BY <1>1, <1>3, <1>4, <1>5, <1>7, <1>8, <1>10, <1>11 DEF NewRecord

\* Everything that is not free belongs to an entry again.
LEMMA NewIsTidy ==
  ASSUME NEW a, NEW c, NEW e, NEW folders, NEW folders2, NEW paths, NEW chain, NEW blocks,
         Prepared(a, c, folders, paths, chain, blocks), e.fat = c.fat,
         Used(e, folders2) = Used(c, folders) \cup ToSet(chain),
         Tidy(a, folders)
  PROVE  Tidy(e, folders2)
<1>1. a.fat[1] = a.fat[2] /\ \A x \in Clusters : Loaded(a)[x] # Free => x \in Used(a, folders)
  BY TidyIs
<1>2. /\ c.fat[1] = c.fat[2] /\ Used(c, folders) = Used(a, folders)
      /\ \A x \in Clusters : x \notin ToSet(chain) => Loaded(c)[x] = Loaded(a)[x]
  BY <1>1 DEF Prepared, IsLinked
<1>3. \A x \in Clusters : Loaded(e)[x] # Free => x \in Used(e, folders2)
  BY <1>1, <1>2 DEF Loaded
<1> QED BY <1>2, <1>3, TidyIs

\* A file is written: its clusters, and the record that points at them.
LEMMA FileAdded ==
  ASSUME NEW a, NEW c, NEW folders, NEW paths, NEW chain, NEW blocks, NEW dir, NEW place,
         NEW record,
         Fits(a, c, folders, paths, chain, dir, place, record),
         Prepared(a, c, folders, paths, chain, blocks),
         ~ record.dir, NEW write \in 0 .. MaxCalls, Len(chain) = record.size,
         \A i \in 1 .. record.size : blocks[i] = FileBlock(write, i, record.size),
         NEW tree, tree = Tree(a) \cup
             {Newcomer(paths, dir, record,
                       [i \in 1 .. record.size |-> FileBlock(write, i, record.size)])},
         NEW T, Tree(a) \in T, tree \in T
  PROVE  \E e : /\ LaidOut(e, folders, paths) /\ Tree(e) = tree
                /\ Leads(Within(T), c, <<WriteRecord(place, record)>>, e)
                /\ Tidy(a, folders) => Tidy(e, folders)
<1> DEFINE e == Written(c, WriteRecord(place, record))
<1>1. LaidOut(c, folders, paths) /\ c \in Disk
  BY DEF Prepared
<1>2. Spot(c, place) /\ record \in Record
  <2>1. /\ LaidOut(a, folders, paths) /\ dir \in folders /\ Reached(a, dir, place)
        /\ place \in ToSet(Places(a, dir)) /\ Leaves(a, c, folders)
    BY DEF Fits, Prepared
  <2>2. place \in ToSet(Places(c, dir))
    BY <2>1, SlotStays
  <2> QED BY <1>1, <2>1, <2>2, SpotOf DEF Fits
<1>3. RecordIsSet(c, e, place, record)
  BY <1>1, <1>2, RecordWritten
<1> HIDE DEF e
<1>4. /\ WriteRecord(place, record) \in Write
      /\ Edits(c, e, folders, {place}) /\ SameParents(c, e, folders) /\ At(e, place) = record
      /\ place \in ToSet(Places(c, dir)) /\ At(c, place).state # "live"
      /\ \A p \in Entries(c, dir) : At(c, p).name # record.name
      /\ e \in Disk /\ e.fat = c.fat /\ LikeOn(c, e, Clusters)
      /\ Chain(Loaded(e), record.first) = chain
      /\ record.first = 0 \/ Chained(Loaded(e), record.first)
      /\ ToSet(chain) \cap Used(c, folders) = {}
  <2>1. NewRecord(c, e, folders, chain, dir, place, record)
    BY <1>3, RecordsNew
  <2> QED BY <2>1 DEF NewRecord
<1>5. dir \in folders /\ record.state = "live" /\ record.name \in Names
  BY DEF Fits
<1>6. chain \in Seq(Clusters)
  BY DEF Fits, AreFree
<1>7. Holds(e, record, write)
  <2>1. ASSUME NEW i \in DOMAIN chain PROVE e.data[chain[i]] = FileBlock(write, i, record.size)
    <3>1. i \in 1 .. Len(chain) /\ chain[i] \in Clusters
      BY <1>6
    <3>2. c.data[chain[i]] = FileBlock(write, i, record.size)
      BY <3>1 DEF Prepared
    <3>3. c.data[chain[i]].kind = "file"
      BY <3>2 DEF FileBlock
    <3>4. e.data[chain[i]] = c.data[chain[i]]
      BY <1>4, <3>1, <3>3 DEF LikeOn
    <3> QED BY <3>2, <3>4
  <2> QED BY <1>4, <2>1 DEF Holds
<1>8. FileSound(e, record)
  BY <1>4, <1>7 DEF FileSound
<1>9. EntrySound(e, folders, paths, dir, place)
  BY <1>4, <1>5, <1>8 DEF EntrySound
<1>10. Claimed(e, place) = ToSet(chain)
  BY <1>4 DEF Claimed
<1>11. Inserts(c, e, folders, paths, dir, place, folders, paths)
  <2>1. folders \subseteq 0 .. MaxCluster /\ paths \in [folders -> Seq(Names)]
    BY <1>1 DEF LaidOut
  <2> QED BY <1>4, <1>5, <1>9, <1>10, <2>1 DEF Inserts
<1>12. LaidOut(e, folders, paths) /\ Used(e, folders) = Used(c, folders) \cup ToSet(chain)
  BY <1>1, <1>10, <1>11, Inserted
<1>13. Tidy(a, folders) => Tidy(e, folders)
  BY <1>4, <1>12, NewIsTidy
<1>14. Tree(c) = Tree(a)
  BY LeftTree DEF Prepared, Fits
<1>15. Tree(e) = tree
  <2>1. Data(e, record) = [i \in 1 .. record.size |-> FileBlock(write, i, record.size)]
    <3>1. DOMAIN chain = 1 .. record.size
      BY <1>6
    <3>2. \A i \in DOMAIN chain : e.data[chain[i]] = FileBlock(write, i, record.size)
      BY <1>4, <1>7 DEF Holds
    <3> QED BY <1>4, <3>1, <3>2 DEF Data
  <2>2. Item(e, paths, dir, place) = Newcomer(paths, dir, record, Data(e, record))
    BY <1>4 DEF Item, Newcomer
  <2>3. Tree(e) = Tree(c) \cup {Item(e, paths, dir, place)}
    BY <1>1, <1>11, InsertedTree
  <2> QED BY <1>14, <2>1, <2>2, <2>3
<1>16. Leads(Within(T), c, <<WriteRecord(place, record)>>, e)
  <2>1. Tree(c) \in T /\ Tree(e) \in T
    BY <1>14, <1>15
  <2>2. c \in Within(T) /\ e \in Within(T)
    BY <1>1, <1>12, <2>1, IsWithin
  <2> QED BY <1>4, <2>2, LeadsOne DEF e
<1> QED BY <1>12, <1>13, <1>15, <1>16

\* A cluster that a folder can begin with, without entries.
EmptyFolder(e, new, parent) ==
    /\ Chained(Loaded(e), new)
    /\ ToSet(Chain(Loaded(e), new)) = {new}
    /\ e.data[new].kind = "dir" /\ e.data[new].self = new /\ e.data[new].parent = parent
    /\ FreeTail(e, new) /\ Entries(e, new) = {}

\* The cluster with the dot records is a folder without entries.
LEMMA FolderBegins ==
  ASSUME NEW c \in Disk, NEW e \in Disk, NEW new \in Clusters, NEW parent \in 0 .. MaxCluster,
         c.data[new] = DirBlock(new, parent, ClusterEntries - 2),
         LikeOn(c, e, Clusters), e.data[new].parent = c.data[new].parent,
         NEW place, place[1] # new, \A q : Spot(c, q) /\ q # place => At(e, q) = At(c, q),
         Chained(Loaded(e), new), Chain(Loaded(e), new) = <<new>>
  PROVE  EmptyFolder(e, new, parent)
<1> DEFINE block == DirBlock(new, parent, ClusterEntries - 2)
           m == ClusterEntries - 2
<1>1. m \in Nat /\ new # Root
  BY SizeAssumption DEF Clusters, Root
<1>2. /\ block.kind = "dir" /\ block.self = new /\ block.parent = parent
      /\ Records(block) = 1 .. m /\ \A i \in 1 .. m : block.records[i] = FreeRecord
  BY <1>1 DEF DirBlock, Records
<1> HIDE DEF block, m
<1>3. /\ c.data[new] = block
      /\ e.data[new].kind = "dir" /\ e.data[new].self = new /\ e.data[new].parent = parent
      /\ Records(e.data[new]) = 1 .. m
  BY <1>2 DEF LikeOn, block
<1>4. ToSet(Chain(Loaded(e), new)) = {new}
  BY DEF ToSet
<1>5. DirChain(e, new)
  BY <1>3, <1>4 DEF DirChain
<1>6. PlacesKnown(e, new)
  BY <1>5, PlacesAre
<1>7. ASSUME NEW p \in ToSet(Places(e, new)) PROVE At(e, p).state = "free"
  <2>1. PICK i \in 1 .. m : p = <<new, i>>
    BY <1>1, <1>3, <1>4, <1>6 DEF PlacesKnown
  <2>2. p[1] = new /\ p[2] = i
    BY <2>1
  <2>3. Spot(c, p)
    BY <1>2, <1>3, <2>1 DEF Spot
  <2>4. At(e, p) = At(c, p)
    BY <2>2, <2>3
  <2>5. At(c, p) = block.records[i]
    BY <1>1, <1>3, <2>2 DEF At
  <2>6. FreeRecord.state = "free"
    BY DEF FreeRecord
  <2> QED BY <1>2, <2>4, <2>5, <2>6
<1>8. Places(e, new) \in Seq(Place)
  BY <1>6 DEF PlacesKnown
<1>9. FreeTail(e, new)
  <2>1. \A i \in DOMAIN Places(e, new) : Places(e, new)[i] \in ToSet(Places(e, new))
    BY DEF ToSet
  <2> QED BY <1>7, <2>1 DEF FreeTail
<1>10. Entries(e, new) = {}
  <2>1. \A p : p \in Entries(e, new) <=> p \in ToSet(Places(e, new)) /\ At(e, p).state = "live"
    BY <1>8, <1>9, LiveEntries
  <2> QED BY <1>7, <2>1
<1> QED BY <1>3, <1>4, <1>9, <1>10 DEF EmptyFolder

\* A cluster in no entry is not a folder.
LEMMA NewFolder ==
  ASSUME NEW d, NEW folders, NEW paths, LaidOut(d, folders, paths),
         NEW new \in Clusters, new \notin Used(d, folders)
  PROVE  new \notin folders /\ new # Root
<1>1. new # Root
  BY DEF Clusters, Root
<1>2. ASSUME new \in folders PROVE FALSE
  <2>1. FolderIs(d, folders, new)
    BY <1>1, <1>2, LaidFolder
  <2>2. new \in ToSet(Chain(Loaded(d), new))
    BY <2>1, ChainClusters DEF FolderIs, DirChain
  <2> QED BY <2>1, <2>2 DEF FolderIs
<1> QED BY <1>1, <1>2

\* A folder is made: its first cluster, and the record that points at it.
LEMMA FolderAdded ==
  ASSUME NEW a, NEW c, NEW folders, NEW paths, NEW chain, NEW blocks, NEW dir, NEW place,
         NEW record,
         Fits(a, c, folders, paths, chain, dir, place, record),
         Prepared(a, c, folders, paths, chain, blocks),
         record.dir, Len(chain) = 1,
         blocks[1] = DirBlock(chain[1], dir, ClusterEntries - 2),
         NEW tree, tree = Tree(a) \cup {Newcomer(paths, dir, record, <<>>)},
         NEW T, Tree(a) \in T, tree \in T
  PROVE  \E e, folders2, paths2 :
            /\ LaidOut(e, folders2, paths2) /\ Tree(e) = tree
            /\ Leads(Within(T), c, <<WriteRecord(place, record)>>, e)
            /\ Tidy(a, folders) => Tidy(e, folders2)
<1> DEFINE e == Written(c, WriteRecord(place, record))
           new == chain[1]
           folders2 == folders \cup {new}
           paths2 == [x \in folders2 |->
                        IF x = new THEN Append(paths[dir], record.name) ELSE paths[x]]
<1>1. LaidOut(c, folders, paths) /\ c \in Disk
  BY DEF Prepared
<1>2. Spot(c, place) /\ record \in Record
      /\ (place[1] # Root => place[1] \in Used(c, folders))
  <2>1. /\ LaidOut(a, folders, paths) /\ dir \in folders /\ Reached(a, dir, place)
        /\ place \in ToSet(Places(a, dir)) /\ Leaves(a, c, folders)
    BY DEF Fits, Prepared
  <2>2. place \in ToSet(Places(c, dir))
    BY <2>1, SlotStays
  <2> QED BY <1>1, <2>1, <2>2, SpotOf DEF Fits
<1>3. RecordIsSet(c, e, place, record)
  BY <1>1, <1>2, RecordWritten
<1> HIDE DEF e
<1>4. /\ WriteRecord(place, record) \in Write
      /\ Edits(c, e, folders, {place}) /\ SameParents(c, e, folders) /\ At(e, place) = record
      /\ place \in ToSet(Places(c, dir)) /\ At(c, place).state # "live"
      /\ \A p \in Entries(c, dir) : At(c, p).name # record.name
      /\ e \in Disk /\ e.fat = c.fat /\ LikeOn(c, e, Clusters)
      /\ Chain(Loaded(e), record.first) = chain
      /\ record.first = 0 \/ Chained(Loaded(e), record.first)
      /\ ToSet(chain) \cap Used(c, folders) = {}
  <2>1. NewRecord(c, e, folders, chain, dir, place, record)
    BY <1>3, RecordsNew
  <2> QED BY <2>1 DEF NewRecord
<1>5. /\ dir \in folders /\ record.state = "live" /\ record.name \in Names
      /\ record.first = IF chain = <<>> THEN 0 ELSE chain[1]
  BY DEF Fits
<1>6. chain \in Seq(Clusters)
  BY DEF Fits, AreFree
<1>7. new \in Clusters /\ ToSet(chain) = {new} /\ chain = <<new>> /\ record.first = new
  <2>1. new \in Clusters /\ chain # <<>>
    <3>1. Len(chain) = 1
      OBVIOUS
    <3> QED BY <1>6, <3>1, OneIn
  <2>2. DOMAIN chain = {1}
    BY <1>6
  <2>3. ToSet(chain) = {new}
    BY <2>2 DEF ToSet
  <2>4. <<new>> \in Seq(Clusters) /\ Len(<<new>>) = 1 /\ \A i \in 1 .. 1 : chain[i] = <<new>>[i]
    BY <2>1
  <2>5. chain = <<new>>
    BY <1>6, <2>4, SameList
  <2> QED BY <1>5, <2>1, <2>3, <2>5
<1>8. new \notin Used(c, folders)
  BY <1>4, <1>7
<1>9. new \notin folders /\ new # Root
  BY <1>1, <1>7, <1>8, NewFolder
<1>10. /\ folders \subseteq 0 .. MaxCluster /\ paths \in [folders -> Seq(Names)]
       /\ dir \in 0 .. MaxCluster /\ paths[dir] \in Seq(Names) /\ new \in 0 .. MaxCluster
  BY <1>1, <1>5, <1>7 DEF LaidOut, Clusters
<1> HIDE DEF new
<1>11. EmptyFolder(e, new, dir)
  <2>1. 1 \in 1 .. Len(chain)
    BY <1>7
  <2>2. c.data[new] = DirBlock(new, dir, ClusterEntries - 2)
    BY <2>1 DEF Prepared, new
  <2>3. place[1] # new
    BY <1>2, <1>8, <1>9
  <2>4. \A q : Spot(c, q) /\ q # place => At(e, q) = At(c, q)
    BY <1>3 DEF RecordIsSet
  <2>5. Chained(Loaded(e), new) /\ Chain(Loaded(e), new) = <<new>>
    BY <1>4, <1>7, <1>9 DEF Root
  <2>6. e.data[new].parent = c.data[new].parent
    BY <1>3, <1>7 DEF RecordIsSet
  <2> QED BY <1>1, <1>4, <1>7, <1>10, <2>2, <2>3, <2>4, <2>5, <2>6, FolderBegins
<1>12. paths2 \in [folders2 -> Seq(Names)] /\ \A x \in folders : paths2[x] = paths[x]
  <2>1. Append(paths[dir], record.name) \in Seq(Names)
    BY <1>5, <1>10
  <2> QED BY <1>9, <1>10, <2>1
<1>13. new \in folders2 /\ paths2[new] = Append(paths[dir], record.name) /\ paths2[dir] = paths[dir]
  BY <1>5, <1>12
<1>14. folders \subseteq folders2 /\ folders2 \subseteq 0 .. MaxCluster
           /\ folders2 \ folders = {new}
  BY <1>9, <1>10
<1> HIDE DEF folders2, paths2
<1>15. EntrySound(e, folders2, paths2, dir, place)
  BY <1>4, <1>5, <1>7, <1>9, <1>13 DEF EntrySound
<1>16. FolderSound(e, folders2, new)
  <2>1. Edited(c, e, dir, {place})
    BY <1>1, <1>4, <1>5, EditedFolder
  <2>2. place \in Entries(e, dir)
    BY <1>4, <1>5, <2>1 DEF Edited
  <2>3. At(e, place).dir /\ At(e, place).first = new
    BY <1>4, <1>7
  <2>4. \A x \in ToSet(Chain(Loaded(e), new)) : e.data[x].kind = "dir"
    BY <1>11 DEF EmptyFolder
  <2>5. Chained(Loaded(e), new) /\ e.data[new].self = new /\ e.data[new].parent = dir
    BY <1>11 DEF EmptyFolder
  <2>6. dir \in folders2
    BY <1>5, <1>14
  <2> QED BY <2>2, <2>3, <2>4, <2>5, <2>6 DEF FolderSound
<1>17. Claimed(e, place) = ToSet(chain)
  BY <1>4 DEF Claimed
<1>18. Inserts(c, e, folders, paths, dir, place, folders2, paths2)
  <2>1. \A x \in folders2 \ folders : FolderSound(e, folders2, x) /\ FreeTail(e, x)
            /\ Entries(e, x) = {}
    BY <1>11, <1>14, <1>16 DEF EmptyFolder
  <2>2. Claimed(e, place) \cap Used(c, folders) = {}
    BY <1>4, <1>17
  <2> QED BY <1>4, <1>5, <1>12, <1>14, <1>15, <2>1, <2>2 DEF Inserts
<1>19. LaidOut(e, folders2, paths2) /\ Used(e, folders2) = Used(c, folders) \cup ToSet(chain)
  BY <1>1, <1>17, <1>18, Inserted
<1>20. Tidy(a, folders) => Tidy(e, folders2)
  BY <1>4, <1>19, NewIsTidy
<1>21. Tree(c) = Tree(a)
  BY LeftTree DEF Prepared, Fits
<1>22. Tree(e) = tree
  <2>1. Item(e, paths2, dir, place) = Newcomer(paths, dir, record, <<>>)
    BY <1>4, <1>13 DEF Item, Newcomer, Data
  <2>2. Tree(e) = Tree(c) \cup {Item(e, paths2, dir, place)}
    BY <1>1, <1>18, InsertedTree
  <2> QED BY <1>21, <2>1, <2>2
<1>23. Leads(Within(T), c, <<WriteRecord(place, record)>>, e)
  <2>1. Tree(c) \in T /\ Tree(e) \in T
    BY <1>21, <1>22
  <2>2. c \in Within(T) /\ e \in Within(T)
    BY <1>1, <1>19, <2>1, IsWithin
  <2> QED BY <1>4, <2>2, LeadsOne DEF e
<1> QED BY <1>19, <1>20, <1>22, <1>23

(***************************************************************************)
(* The calls, one after the other.                                         *)
(***************************************************************************)

\* A call whose interruption may do more than leave clusters lost, and one that
\* takes the place of what it finds.
Unsafe(what, before) ==
    \/ what.kind \in {"move", "defragment"}
    \/ what.kind = "write" /\ Object(before, what.path) # {}
Overwrites(what, before) ==
    what.kind = "defragment" \/ (what.kind = "write" /\ Object(before, what.path) # {})

\* The tree that call n makes of a tree.
PromisedBy(n, tree, what) ==
    CASE what.kind = "write" ->
            {o \in tree : o.path # what.path} \cup
            {[path |-> what.path, dir |-> FALSE,
              data |-> [i \in 1 .. what.size |-> FileBlock(n, i, what.size)]]}
      [] what.kind = "folder" -> tree \cup {[path |-> what.path, dir |-> TRUE, data |-> <<>>]}
      [] what.kind = "remove" -> {o \in tree : ~ IsPrefix(what.path, o.path)}
      [] what.kind \in {"move", "rename"} ->
            {IF IsPrefix(what.path, o.path)
             THEN [o EXCEPT !.path = what.to \o SubSeq(o.path, Len(what.path) + 1, Len(o.path))]
             ELSE o : o \in tree}
      [] OTHER -> tree

\* Where the blocks of a call may lead: anywhere when it overwrites; otherwise to
\* a tree between the two, on a laid out volume unless it is a move.
Trees(n, what, before) == Possible(Tree(before), PromisedBy(n, Tree(before), what))
Holding(T) == {d \in Disk : Tree(d) \in T}
Through(n, what, before) ==
    IF Overwrites(what, before) THEN Disk
    ELSE IF what.kind = "move" THEN Holding(Trees(n, what, before))
    ELSE Within(Trees(n, what, before))

\* What has to be shown of the call that begins.
BeginsWell(folders) ==
    Goes(Through(calls + 1, call', base'), disk, folders,
         PromisedBy(calls + 1, Tree(disk), call'), todo')

\* What is known of the volume when a call begins.
Begins(folders, paths) ==
    /\ LaidOut(disk, folders, paths) /\ calls \in 0 .. MaxCalls

\* The folder and the name a path stands for.
PlaceOf(folders, paths, path, dir) ==
    /\ dir \in folders /\ paths[dir] = Parent(path)
    /\ Last(path) \in Names

\* The folder of a path that is found is the folder with that path.
LEMMA FolderOf ==
  ASSUME NEW folders, NEW paths, Begins(folders, paths), NEW path \in Paths,
         NEW dir \in Folder(disk, Parent(path))
  PROVE  PlaceOf(folders, paths, path, dir)
<1>1. LaidOut(disk, folders, paths)
  BY DEF Begins
<1>2. Parent(path) \in Seq(Names) /\ Last(path) \in Names
  BY PathIs
<1>3. dir \in folders /\ paths[dir] = Parent(path)
  BY <1>1, <1>2, FolderAt
<1> QED BY <1>2, <1>3 DEF PlaceOf

\* A path that leads to nothing: its name is free in its folder.
LEMMA NameIsFree ==
  ASSUME NEW folders, NEW paths, Begins(folders, paths), NEW path \in Paths,
         NEW dir, PlaceOf(folders, paths, path, dir), Object(disk, path) = {}
  PROVE  \A p \in Entries(disk, dir) : At(disk, p).name # Last(path)
<1>1. LaidOut(disk, folders, paths)
  BY DEF Begins
<1> QED BY <1>1, ObjectAt DEF PlaceOf

\* Nothing is at that path in the tree, and an entry with the name is what is there.
LEMMA PathIsFree ==
  ASSUME NEW folders, NEW paths, Begins(folders, paths), NEW path \in Paths,
         NEW dir, PlaceOf(folders, paths, path, dir), Object(disk, path) = {},
         NEW record, record.name = Last(path), NEW data
  PROVE  /\ Newcomer(paths, dir, record, data) =
                [path |-> path, dir |-> record.dir, data |-> data]
         /\ \A t \in Tree(disk) : t.path # path
<1>1. LaidOut(disk, folders, paths)
  BY DEF Begins
<1>2. /\ dir \in folders /\ paths[dir] = Parent(path) /\ paths \in [folders -> Seq(Names)]
      /\ path = Append(paths[dir], Last(path)) /\ Last(path) \in Names
  BY <1>1, PathIs DEF PlaceOf, LaidOut
<1>3. ASSUME NEW t \in Tree(disk), t.path = path PROVE FALSE
  <2>1. ItemOf(disk, folders, paths, t)
    BY <1>1, TreeIs
  <2>2. PICK c \in folders : \E p \in Entries(disk, c) : t = Item(disk, paths, c, p)
    BY <2>1 DEF ItemOf
  <2>3. PICK p \in Entries(disk, c) : t = Item(disk, paths, c, p)
    BY <2>2
  <2>4. Append(paths[c], At(disk, p).name) = path
    BY <1>3, <2>3 DEF Item
  <2>5. At(disk, p).name \in Names
    BY <1>1, LaidEntry DEF EntryIs
  <2> DEFINE name == At(disk, p).name
             last == Last(path)
             a == paths[c]
             b == paths[dir]
  <2>6. a \in Seq(Names) /\ b \in Seq(Names) /\ name \in Names /\ last \in Names
        /\ Append(a, name) = Append(b, last)
    BY <1>2, <2>4, <2>5
  <2> HIDE DEF name, last, a, b
  <2>7. a = b /\ name = last
    BY <2>6, FrontAndLast
  <2>8. p \in Object(disk, path)
    BY <1>1, <1>2, <2>7, ObjectAt DEF a, b, name, last
  <2> QED BY <2>8
<1> QED BY <1>2, <1>3 DEF Newcomer

\* The blocks of a file.
FileBlocks(write, size) == [i \in 1 .. size |-> FileBlock(write, i, size)]

\* What a write puts in the clusters of a file are blocks of that file.
LEMMA FileBlocksAre ==
  ASSUME NEW size \in 0 .. MaxSize, NEW write \in 0 .. MaxCalls
  PROVE  \A i \in 1 .. size : FileBlocks(write, size)[i] = FileBlock(write, i, size)
                              /\ FileBlock(write, i, size) \in Block
<1>1. MaxSize \in Nat
  BY BoundAssumption
<1>2. \A i \in 1 .. size : i \in 1 .. MaxSize /\ size \in 1 .. MaxSize
  BY <1>1
<1>3. \A i \in 1 .. size : FileBlock(write, i, size) \in Block
  BY <1>2 DEF FileBlock, Block
<1> QED BY <1>3 DEF FileBlocks

\* The writes of the content of a file fill its chain with those blocks.
LEMMA PartsAre ==
  ASSUME NEW size \in Nat, NEW chain, Len(chain) = size
  PROVE  Parts(chain, size) = FillWrites(chain, FileBlocks(calls + 1, size))
BY DEF Parts, FillWrites, FileBlocks

\* The record of a slot after its call has prepared clusters.
LEMMA SlotFits ==
  ASSUME NEW d, NEW a, NEW folders, NEW paths, NEW dir \in folders, NEW slot,
         NEW T, GetsSlot(T, d, a, folders, paths, dir, slot), LaidOut(d, folders, paths),
         NEW c, NEW chain, NEW count, AreFree(Loaded(a), chain, count),
         NEW record \in Record, record.state = "live", record.name \in Names,
         record.first = IF chain = <<>> THEN 0 ELSE chain[1],
         \A p \in Entries(d, dir) : At(d, p).name # record.name
  PROVE  Fits(a, c, folders, paths, chain, dir, slot.place, record)
<1>1. /\ LaidOut(a, folders, paths) /\ SameEntries(d, a, folders)
      /\ Reached(a, dir, slot.place) /\ slot.place \in ToSet(Places(a, dir))
      /\ At(a, slot.place).state # "live"
  BY DEF GetsSlot
<1>2. \A p \in Entries(d, dir) : p \in ToSet(Places(d, dir))
  BY LaidPlaces
<1>3. \A p \in Entries(a, dir) : At(a, p).name # record.name
  BY <1>1, <1>2 DEF SameEntries
<1> QED BY <1>1, <1>3 DEF Fits

\* Three parts of a call.
LEMMA GoesOn ==
  ASSUME NEW d, NEW a, NEW c, NEW e, NEW folders, NEW folders2, NEW paths2, NEW us, NEW ws,
         NEW vs, NEW xs, NEW T,
         Leads(Within(T), d, us, a), LeadsBoth(T, a, ws, vs, c), Leads(Within(T), c, xs, e),
         LaidOut(e, folders2, paths2), Tidy(d, folders) => Tidy(e, folders2)
  PROVE  Goes(Within(T), d, folders, Tree(e), us \o ws \o vs \o xs)
<1>1. PICK b : Leads(Within(T), a, ws, b) /\ Leads(Within(T), b, vs, c)
  BY DEF LeadsBoth
<1>2. Leads(Within(T), d, us \o ws, b)
  BY <1>1, LeadsOn
<1>3. Leads(Within(T), d, us \o ws \o vs, c)
  BY <1>1, <1>2, LeadsOn
<1>4. Leads(Within(T), d, us \o ws \o vs \o xs, e)
  BY <1>3, LeadsOn
<1> QED BY <1>4 DEF Goes

\* A record with another name.
LEMMA Renamed ==
  ASSUME NEW record \in Record, NEW name \in Names
  PROVE  /\ [record EXCEPT !.name = name] \in Record
         /\ [record EXCEPT !.name = name].state = record.state
BY RecordIs

\* A record in use.
LiveIs(record, name, dir, first, size) ==
    /\ record \in Record /\ record.state = "live" /\ record.name = name
    /\ record.dir = dir /\ record.first = first /\ record.size = size

\* Live() makes one.
LEMMA LiveMakes ==
  ASSUME NEW name \in Names, NEW dir \in BOOLEAN, NEW first \in 0 .. MaxCluster,
         NEW size \in 0 .. MaxSize
  PROVE  LiveIs(Live(name, dir, first, size), name, dir, first, size)
BY RecordIs DEF Live, LiveIs

\* write_bytes() of a new file.
LEMMA CreateGoes ==
  ASSUME NEW folders, NEW paths, Begins(folders, paths), NEW path \in Paths,
         NEW size \in 0 .. MaxSize, Create(path, size)
  PROVE  BeginsWell(folders)
<1>1. LaidOut(disk, folders, paths) /\ calls \in 0 .. MaxCalls /\ MaxCalls \in Nat
          /\ MaxSize \in Nat
  BY BoundAssumption DEF Begins
<1>2. PICK dir \in Folder(disk, Parent(path)) :
        /\ Object(disk, path) = {}
        /\ HasSlot(disk, dir)
        /\ LET slot == Slot(disk, dir)
               chain == Lowest(slot.fat, size)
               first == IF size = 0 THEN 0 ELSE chain[1]
               store == IF size = 0 THEN <<>> ELSE Store(Linked(slot.fat, chain))
           IN  IF size > FreeCount(slot.fat)
               THEN Begin([kind |-> "refused"], slot.writes)
               ELSE Begin([kind |-> "write", path |-> path, size |-> size],
                          slot.writes \o Parts(chain, size) \o store \o
                          <<WriteRecord(slot.place, Live(Last(path), FALSE, first, size))>>)
  BY DEF Create
<1> DEFINE slot == Slot(disk, dir)
           chain == Lowest(slot.fat, size)
           first == IF size = 0 THEN 0 ELSE chain[1]
           store == IF size = 0 THEN <<>> ELSE Store(Linked(slot.fat, chain))
           record == Live(Last(path), FALSE, first, size)
           writes == slot.writes \o Parts(chain, size) \o store
               \o <<WriteRecord(slot.place, record)>>
           what == IF size > FreeCount(slot.fat) THEN [kind |-> "refused"]
                   ELSE [kind |-> "write", path |-> path, size |-> size]
           after == PromisedBy(calls + 1, Tree(disk), what)
           T == Possible(Tree(disk), after)
<1>3. /\ Object(disk, path) = {} /\ HasSlot(disk, dir)
      /\ size > FreeCount(slot.fat) => Begin([kind |-> "refused"], slot.writes)
      /\ ~(size > FreeCount(slot.fat)) =>
            Begin([kind |-> "write", path |-> path, size |-> size], writes)
  BY <1>2
<1>4. PlaceOf(folders, paths, path, dir)
  BY FolderOf
<1>5. dir \in folders /\ Last(path) \in Names
  BY <1>4 DEF PlaceOf
<1>6. \A p \in Entries(disk, dir) : At(disk, p).name # Last(path)
  BY <1>3, <1>4, NameIsFree
<1>7. Tree(disk) \in T /\ after \in T
  <2> HIDE DEF after
  <2> QED BY PossibleEnds
<1> HIDE DEF T, after
<1>8. PICK a : GetsSlot(T, disk, a, folders, paths, dir, slot)
  BY <1>1, <1>3, <1>5, <1>7, SlotFound
<1> HIDE DEF slot
<1>9. /\ Leads(Within(T), disk, slot.writes, a) /\ LaidOut(a, folders, paths) /\ a \in Disk
      /\ Loaded(a) = slot.fat /\ Tree(a) = Tree(disk)
      /\ Tidy(disk, folders) => Tidy(a, folders)
  BY <1>8 DEF GetsSlot
<1>10. slot.fat \in Fat /\ FreeCount(slot.fat) \in Nat /\ size \in Nat
  BY <1>1, <1>9, LoadedFat, FreeIsCounted
<1>11. CASE size > FreeCount(slot.fat)
  <2>1. call' = [kind |-> "refused"] /\ todo' = slot.writes /\ base' = disk
    BY <1>3, <1>11 DEF Begin
  <2>2. call' = what
    BY <1>11, <2>1
  <2>3. what.kind = "refused"
    BY <1>11
  <2> HIDE DEF what
  <2>4. Through(calls + 1, call', base') = Within(T)
    BY <2>1, <2>2, <2>3 DEF Through, Overwrites, Trees, T, after
  <2>5. PromisedBy(calls + 1, Tree(disk), call') = Tree(disk)
    BY <2>2, <2>3 DEF PromisedBy
  <2> QED BY <1>9, <2>1, <2>4, <2>5 DEF BeginsWell, Goes
<1>12. CASE ~(size > FreeCount(slot.fat))
  <2>1. call' = [kind |-> "write", path |-> path, size |-> size] /\ todo' = writes /\ base' = disk
    BY <1>3, <1>12 DEF Begin
  <2>2. call' = what /\ what.kind = "write" /\ what.path = path /\ what.size = size
    BY <1>12, <2>1
  <2> HIDE DEF what
  <2>3. Through(calls + 1, call', base') = Within(T)
    BY <1>3, <2>1, <2>2 DEF Through, Overwrites, Trees, T, after
  <2>4. AreFree(slot.fat, chain, size)
    <3>1. size <= FreeCount(slot.fat)
      BY <1>10, <1>12
    <3> QED BY <1>10, <3>1, LowestFree
  <2>5. chain \in Seq(Clusters) /\ Len(chain) = size
    BY <2>4 DEF AreFree
  <2> HIDE DEF chain
  <2>6. Parts(chain, size) = FillWrites(chain, FileBlocks(calls + 1, size))
    BY <1>10, <2>5, PartsAre
  <2>7. calls + 1 \in 0 .. MaxCalls
    <3>1. calls < MaxCalls
      BY DEF Create, Ready
    <3> QED BY <1>1, <3>1
  <2>8. \A i \in 1 .. size : /\ FileBlocks(calls + 1, size)[i] = FileBlock(calls + 1, i, size)
                             /\ FileBlock(calls + 1, i, size) \in Block
    BY <2>7, FileBlocksAre
  <2> DEFINE blocks == FileBlocks(calls + 1, size)
  <2> HIDE DEF blocks
  <2>9. PICK c : /\ Prepared(a, c, folders, paths, chain, blocks)
                 /\ LeadsBoth(T, a, FillWrites(chain, blocks), store, c)
    <3>1. \A i \in 1 .. size : blocks[i] \in Block
      BY <2>8 DEF blocks
    <3> QED BY <1>7, <1>9, <1>10, <2>4, <3>1, Prepares
  <2>10. chain = <<>> <=> size = 0
    BY <2>5
  <2>11. first \in 0 .. MaxCluster /\ first = IF chain = <<>> THEN 0 ELSE chain[1]
    <3>1. size # 0 => chain[1] \in Clusters
      BY <2>5, <2>10
    <3> QED BY <2>10, <3>1, SizeAssumption DEF Clusters
  <2> HIDE DEF first, store
  <2>12. /\ record \in Record /\ record.state = "live" /\ record.name = Last(path)
                /\ record.first = first
         /\ record.size = size /\ record.dir = FALSE
    <3>1. size \in 0 .. MaxSize /\ FALSE \in BOOLEAN
      OBVIOUS
    <3>2. LiveIs(record, Last(path), FALSE, first, size)
      <4> DEFINE name == Last(path)
      <4>1. name \in Names /\ first \in 0 .. MaxCluster
        BY <1>5, <2>11
      <4> HIDE DEF name
      <4> QED BY <3>1, <4>1, LiveMakes DEF name
    <3> HIDE DEF record
    <3> QED BY <3>2 DEF LiveIs
  <2> HIDE DEF record
  <2>13. Fits(a, c, folders, paths, chain, dir, slot.place, record)
    BY <1>1, <1>5, <1>6, <1>8, <1>9, <2>4, <2>11, <2>12, SlotFits
  <2>14. after = Tree(a) \cup
             {Newcomer(paths, dir, record,
                       [i \in 1 .. record.size |-> FileBlock(calls + 1, i, record.size)])}
    <3> DEFINE data == [i \in 1 .. size |-> FileBlock(calls + 1, i, size)]
               tree == Tree(disk)
    <3>1. after = {o \in tree : o.path # path} \cup {[path |-> path, dir |-> FALSE, data |-> data]}
      BY <2>2 DEF after, PromisedBy
    <3> HIDE DEF data, tree
    <3>2. /\ Newcomer(paths, dir, record, data) = [path |-> path, dir |-> FALSE, data |-> data]
          /\ \A t \in tree : t.path # path
      BY <1>3, <1>4, <2>12, PathIsFree DEF tree
    <3>3. after = tree \cup {Newcomer(paths, dir, record, data)}
      BY <3>1, <3>2
    <3> QED BY <1>9, <2>12, <3>3 DEF data, tree
  <2>15. PICK e : /\ LaidOut(e, folders, paths) /\ Tree(e) = after
                  /\ Leads(Within(T), c, <<WriteRecord(slot.place, record)>>, e)
                  /\ Tidy(a, folders) => Tidy(e, folders)
    <3>1. \A i \in 1 .. record.size : blocks[i] = FileBlock(calls + 1, i, record.size)
      BY <2>8, <2>12 DEF blocks
    <3>2. ~ record.dir /\ Len(chain) = record.size
      BY <2>5, <2>12
    <3>3. Tree(a) \in T
      BY <1>7, <1>9
    <3> QED BY <1>7, <2>7, <2>9, <2>13, <2>14, <3>1, <3>2, <3>3, FileAdded
  <2>16. Goes(Within(T), disk, folders, after, slot.writes \o FillWrites(chain, blocks) \o store \o
                <<WriteRecord(slot.place, record)>>)
    <3>1. Tidy(disk, folders) => Tidy(e, folders)
      BY <1>9, <2>15
    <3> QED BY <1>9, <2>9, <2>15, <3>1, GoesOn
  <2>17. Goes(Within(T), disk, folders, after, writes)
    BY <2>6, <2>16 DEF blocks
  <2> HIDE DEF writes
  <2> QED BY <2>1, <2>2, <2>3, <2>17 DEF BeginsWell, after
<1> QED BY <1>11, <1>12

\* The cluster of a folder is a block.
LEMMA DirBlockIs ==
  ASSUME NEW self \in 0 .. MaxCluster, NEW parent \in 0 .. MaxCluster
  PROVE  DirBlock(self, parent, ClusterEntries - 2) \in Block
<1> DEFINE m == ClusterEntries - 2
<1>1. m \in Nat /\ MaxSize \in Nat /\ MaxCluster \in Nat
  BY SizeAssumption, BoundAssumption
<1>2. FreeRecord \in Record
  BY <1>1 DEF FreeRecord, Record
<1> HIDE DEF m
<1>3. [i \in 1 .. m |-> FreeRecord] \in Seq(Record)
  BY <1>1, <1>2
<1> QED BY <1>3 DEF DirBlock, Block, m

\* One cluster is filled by one block.
LEMMA FillsOne ==
  ASSUME NEW c \in Clusters, NEW block \in Block, NEW chain \in Seq(Clusters), Len(chain) = 1,
         chain[1] = c
  PROVE  FillWrites(chain, <<block>>) = <<WriteCluster(c, block)>>
<1> DEFINE w == WriteCluster(c, block)
           ws == FillWrites(chain, <<block>>)
<1>1. ws = [i \in 1 .. 1 |-> WriteCluster(chain[i], <<block>>[i])]
  BY DEF FillWrites
<1>2. ws[1] = w
  BY <1>1
<1>3. ws \in Seq({w}) /\ Len(ws) = 1
  <2>1. ws = [i \in 1 .. 1 |-> w]
    BY <1>1
  <2> HIDE DEF ws, w
  <2> QED BY <2>1
<1> HIDE DEF ws, w
<1>4. <<w>> \in Seq({w}) /\ Len(<<w>>) = 1 /\ <<w>>[1] = w
  OBVIOUS
<1>5. \A i \in 1 .. 1 : ws[i] = <<w>>[i]
  BY <1>2, <1>4
<1>6. ws = <<w>>
  BY <1>3, <1>4, <1>5, SameList
<1> QED BY <1>6 DEF ws, w

\* mkdir().
LEMMA MakeFolderGoes ==
  ASSUME NEW folders, NEW paths, Begins(folders, paths), NEW path \in Paths, MakeFolder(path)
  PROVE  BeginsWell(folders)
<1>1. LaidOut(disk, folders, paths) /\ folders \subseteq 0 .. MaxCluster /\ MaxSize \in Nat
  BY BoundAssumption DEF Begins, LaidOut
<1>2. PICK dir \in Folder(disk, Parent(path)) :
        /\ Object(disk, path) = {}
        /\ HasSlot(disk, dir)
        /\ LET slot == Slot(disk, dir)
               chain == Lowest(slot.fat, 1)
           IN  IF FreeCount(slot.fat) = 0
               THEN Begin([kind |-> "refused"], slot.writes)
               ELSE Begin([kind |-> "folder", path |-> path],
                          slot.writes \o
                          <<WriteCluster(chain[1], DirBlock(chain[1], dir, ClusterEntries - 2))>> \o
                          Store(Linked(slot.fat, chain)) \o
                          <<WriteRecord(slot.place, Live(Last(path), TRUE, chain[1], 0))>>)
  BY DEF MakeFolder
<1> DEFINE slot == Slot(disk, dir)
           chain == Lowest(slot.fat, 1)
           block == DirBlock(chain[1], dir, ClusterEntries - 2)
           store == Store(Linked(slot.fat, chain))
           record == Live(Last(path), TRUE, chain[1], 0)
           writes == slot.writes \o <<WriteCluster(chain[1], block)>> \o store \o
                     <<WriteRecord(slot.place, record)>>
           what == IF FreeCount(slot.fat) = 0 THEN [kind |-> "refused"]
                   ELSE [kind |-> "folder", path |-> path]
           after == PromisedBy(calls + 1, Tree(disk), what)
           T == Possible(Tree(disk), after)
<1>3. /\ Object(disk, path) = {} /\ HasSlot(disk, dir)
      /\ FreeCount(slot.fat) = 0 => Begin([kind |-> "refused"], slot.writes)
      /\ FreeCount(slot.fat) # 0 => Begin([kind |-> "folder", path |-> path], writes)
  BY <1>2
<1>4. PlaceOf(folders, paths, path, dir)
  BY FolderOf
<1>5. dir \in folders /\ Last(path) \in Names
  BY <1>4 DEF PlaceOf
<1>6. \A p \in Entries(disk, dir) : At(disk, p).name # Last(path)
  BY <1>3, <1>4, NameIsFree
<1>7. Tree(disk) \in T /\ after \in T
  <2> HIDE DEF after
  <2> QED BY PossibleEnds
<1> HIDE DEF T, after
<1>8. PICK a : GetsSlot(T, disk, a, folders, paths, dir, slot)
  BY <1>1, <1>3, <1>5, <1>7, SlotFound
<1> HIDE DEF slot
<1>9. /\ Leads(Within(T), disk, slot.writes, a) /\ LaidOut(a, folders, paths) /\ a \in Disk
      /\ Loaded(a) = slot.fat /\ Tree(a) = Tree(disk)
      /\ Tidy(disk, folders) => Tidy(a, folders)
  BY <1>8 DEF GetsSlot
<1>10. slot.fat \in Fat /\ FreeCount(slot.fat) \in Nat
  BY <1>1, <1>9, LoadedFat, FreeIsCounted
<1>11. CASE FreeCount(slot.fat) = 0
  <2>1. call' = [kind |-> "refused"] /\ todo' = slot.writes /\ base' = disk
    BY <1>3, <1>11 DEF Begin
  <2>2. call' = what
    BY <1>11, <2>1
  <2>3. what.kind = "refused"
    BY <1>11
  <2> HIDE DEF what
  <2>4. Through(calls + 1, call', base') = Within(T)
    BY <2>1, <2>2, <2>3 DEF Through, Overwrites, Trees, T, after
  <2>5. PromisedBy(calls + 1, Tree(disk), call') = Tree(disk)
    BY <2>2, <2>3 DEF PromisedBy
  <2> QED BY <1>9, <2>1, <2>4, <2>5 DEF BeginsWell, Goes
<1>12. CASE FreeCount(slot.fat) # 0
  <2>1. call' = [kind |-> "folder", path |-> path] /\ todo' = writes /\ base' = disk
    BY <1>3, <1>12 DEF Begin
  <2>2. call' = what /\ what.kind = "folder" /\ what.path = path
    BY <1>12, <2>1
  <2> HIDE DEF what
  <2>3. Through(calls + 1, call', base') = Within(T)
    BY <1>3, <2>1, <2>2 DEF Through, Overwrites, Trees, T, after
  <2>4. AreFree(slot.fat, chain, 1)
    <3>1. 1 <= FreeCount(slot.fat) /\ 1 \in Nat
      BY <1>10, <1>12
    <3> QED BY <1>10, <3>1, LowestFree
  <2>5. chain \in Seq(Clusters) /\ Len(chain) = 1
    BY <2>4 DEF AreFree
  <2> HIDE DEF chain
  <2>6. chain[1] \in Clusters /\ chain[1] \in 0 .. MaxCluster /\ chain # <<>>
            /\ dir \in 0 .. MaxCluster
    <3>1. chain[1] \in Clusters /\ chain # <<>>
      BY <2>5
    <3> QED BY <1>1, <1>5, <3>1 DEF Clusters
  <2>7. block \in Block
    BY <2>6, DirBlockIs
  <2> DEFINE blocks == <<block>>
  <2>8. blocks[1] = DirBlock(chain[1], dir, ClusterEntries - 2)
    OBVIOUS
  <2> HIDE DEF block
  <2>9. FillWrites(chain, blocks) = <<WriteCluster(chain[1], block)>>
    BY <2>5, <2>6, <2>7, FillsOne
  <2>10. \A i \in 1 .. 1 : blocks[i] \in Block
    BY <2>7
  <2> HIDE DEF blocks
  <2>11. PICK c : /\ Prepared(a, c, folders, paths, chain, blocks)
                  /\ LeadsBoth(T, a, FillWrites(chain, blocks), store, c)
    <3>1. 1 \in Nat /\ AreFree(Loaded(a), chain, 1) /\ store = Store(Linked(Loaded(a), chain))
      BY <1>9, <2>4
    <3> HIDE DEF store
    <3> QED BY <1>7, <1>9, <2>10, <3>1, Prepares
  <2> HIDE DEF store
  <2>12. /\ record \in Record /\ record.state = "live" /\ record.name = Last(path)
         /\ record.first = chain[1] /\ record.dir = TRUE
    <3>1. 0 \in 0 .. MaxSize /\ TRUE \in BOOLEAN
      BY <1>1
    <3>2. LiveIs(record, Last(path), TRUE, chain[1], 0)
      <4> DEFINE name == Last(path)
                 first == chain[1]
      <4>1. name \in Names /\ first \in 0 .. MaxCluster
        BY <1>5, <2>6
      <4> HIDE DEF name, first
      <4>2. LiveIs(Live(name, TRUE, first, 0), name, TRUE, first, 0)
        BY <3>1, <4>1, LiveMakes
      <4> QED BY <4>2 DEF name, first
    <3> HIDE DEF record
    <3> QED BY <3>2 DEF LiveIs
  <2> HIDE DEF record
  <2>13. Fits(a, c, folders, paths, chain, dir, slot.place, record)
    BY <1>1, <1>5, <1>6, <1>8, <1>9, <2>4, <2>6, <2>12, SlotFits
  <2>14. after = Tree(a) \cup {Newcomer(paths, dir, record, <<>>)}
    <3> DEFINE tree == Tree(disk)
    <3>1. after = tree \cup {[path |-> path, dir |-> TRUE, data |-> <<>>]}
      BY <2>2 DEF after, PromisedBy
    <3> HIDE DEF tree
    <3>2. Newcomer(paths, dir, record, <<>>) = [path |-> path, dir |-> TRUE, data |-> <<>>]
      BY <1>3, <1>4, <2>12, PathIsFree
    <3> QED BY <1>9, <3>1, <3>2 DEF tree
  <2>15. Tree(a) \in T
    BY <1>7, <1>9
  <2>16. PICK e, folders2, paths2 :
            /\ LaidOut(e, folders2, paths2) /\ Tree(e) = after
            /\ Leads(Within(T), c, <<WriteRecord(slot.place, record)>>, e)
            /\ Tidy(a, folders) => Tidy(e, folders2)
    BY <1>7, <2>5, <2>8, <2>11, <2>12, <2>13, <2>14, <2>15, FolderAdded
  <2>17. Goes(Within(T), disk, folders, after, slot.writes \o FillWrites(chain, blocks) \o store \o
                <<WriteRecord(slot.place, record)>>)
    <3>1. Tidy(disk, folders) => Tidy(e, folders2)
      BY <1>9, <2>16
    <3> QED BY <1>9, <2>11, <2>16, <3>1, GoesOn
  <2>18. Goes(Within(T), disk, folders, after, writes)
    BY <2>9, <2>17
  <2> HIDE DEF writes
  <2> QED BY <2>1, <2>2, <2>3, <2>18 DEF BeginsWell, after
<1> QED BY <1>11, <1>12

\* What is at a path: an entry of the folder above it.
EntryAt(folders, paths, path, dir, place) ==
    /\ PlaceOf(folders, paths, path, dir)
    /\ place \in Entries(disk, dir) /\ At(disk, place).name = Last(path)
    /\ At(disk, place) \in Record /\ At(disk, place).state = "live"
    /\ At(disk, place).dir =>
          At(disk, place).first \in folders \ {Root} /\ paths[At(disk, place).first] = path

\* What a path leads to is an entry of the folder above, with the last name of
\* the path.
LEMMA EntryOf ==
  ASSUME NEW folders, NEW paths, Begins(folders, paths), NEW path \in Paths,
         NEW place \in Object(disk, path)
  PROVE  \E dir : EntryAt(folders, paths, path, dir, place)
<1>1. LaidOut(disk, folders, paths)
  BY DEF Begins
<1>2. PICK dir \in folders : /\ paths[dir] = Parent(path)
                             /\ place \in Entries(disk, dir) /\ At(disk, place).name = Last(path)
  BY <1>1, ObjectAt
<1>3. Last(path) \in Names /\ path = Append(Parent(path), Last(path))
  BY PathIs
<1>4. At(disk, place) \in Record /\ At(disk, place).state = "live"
  BY <1>1, <1>2, LaidEntry DEF EntryIs
<1>5. At(disk, place).dir =>
          At(disk, place).first \in folders \ {Root} /\ paths[At(disk, place).first] = path
  BY <1>1, <1>2, <1>3, ParentIs
<1> QED BY <1>2, <1>3, <1>4, <1>5 DEF EntryAt, PlaceOf

\* A path does not begin with a longer one.
LEMMA NotItsOwn ==
  ASSUME NEW S, NEW s \in Seq(S), NEW a \in S
  PROVE  ~ IsPrefix(Append(s, a), s)
<1>1. Append(s, a) \in Seq(S) /\ Len(Append(s, a)) = Len(s) + 1
  BY AppendLast
<1>2. ~(Len(s) + 1 <= Len(s))
  OBVIOUS
<1> QED BY <1>1, <1>2, PrefixIs

\* Nor with one that the path in it would begin with.
LEMMA NotBelow ==
  ASSUME NEW from \in Paths, NEW to \in Paths, ~ IsStrictPrefix(from, to)
  PROVE  ~ IsPrefix(from, Parent(to))
<1> DEFINE up == Parent(to)
<1>1. /\ from \in Seq(Names) /\ to \in Seq(Names) /\ up \in Seq(Names) /\ Last(to) \in Names
      /\ to = Append(up, Last(to))
  BY PathIs
<1>2. Len(to) = Len(up) + 1 /\ \A i \in 1 .. Len(up) : to[i] = up[i]
  <2> HIDE DEF up
  <2> QED BY <1>1
<1> HIDE DEF up
<1>3. ASSUME IsPrefix(from, up) PROVE FALSE
  <2>1. Len(from) <= Len(up) /\ \A i \in 1 .. Len(from) : from[i] = up[i]
    BY <1>1, <1>3, PrefixIs
  <2>2. Len(from) \in Nat /\ Len(up) \in Nat
    BY <1>1
  <2>3. Len(from) <= Len(to) /\ \A i \in 1 .. Len(from) : from[i] = to[i]
    BY <1>2, <2>1, <2>2
  <2>4. IsPrefix(from, to)
    BY <1>1, <2>3, PrefixIs
  <2>5. from # to
    BY <1>2, <2>1, <2>2
  <2> QED BY <2>4, <2>5 DEF IsStrictPrefix
<1> QED BY <1>3 DEF up

\* The tree that a rename promises is the tree with that path replaced.
LEMMA ShiftedPromise ==
  ASSUME NEW n, NEW what, what.kind \in {"move", "rename"}, NEW d
  PROVE  PromisedBy(n, Tree(d), what) = ShiftedTree(what.path, what.to, Tree(d))
<1> DEFINE old == what.path
           new == what.to
           Put(o) == IF IsPrefix(old, o.path)
                     THEN [o EXCEPT !.path = new \o SubSeq(o.path, Len(old) + 1, Len(o.path))]
                     ELSE o
<1>1. PromisedBy(n, Tree(d), what) = {Put(o) : o \in Tree(d)}
  BY DEF PromisedBy
<1>2. ASSUME NEW t \in Tree(d) PROVE Put(t) = Shifted(old, new, t)
  <2>1. PICK o \in Objects(d) :
           t = [path |-> o.path, dir |-> o.entry.dir, data |-> Data(d, o.entry)]
    BY DEF Tree
  <2>2. [t EXCEPT !.path = t.path] = t
    <3> DEFINE a == o.path
               b == o.entry.dir
               c == Data(d, o.entry)
    <3>1. t = [path |-> a, dir |-> b, data |-> c]
      BY <2>1
    <3> HIDE DEF a, b, c
    <3> QED BY <3>1
  <2>3. CASE IsPrefix(old, t.path)
    BY <2>3 DEF Shifted, Rebased
  <2>4. CASE ~ IsPrefix(old, t.path)
    BY <2>2, <2>4 DEF Shifted, Rebased
  <2> QED BY <2>3, <2>4
<1> HIDE DEF Put, old, new
<1>3. PromisedBy(n, Tree(d), what) = ShiftedTree(old, new, Tree(d))
  BY <1>1, <1>2 DEF ShiftedTree
<1> QED BY <1>3 DEF old, new

\* rename() within a folder.
LEMMA RenameGoes ==
  ASSUME NEW folders, NEW paths, Begins(folders, paths), NEW from \in Paths, NEW to \in Paths,
         Rename(from, to)
  PROVE  BeginsWell(folders)
<1>1. LaidOut(disk, folders, paths) /\ disk \in Disk
  BY DEF Begins, LaidOut
<1>2. PICK place \in Object(disk, from) :
        /\ Object(disk, to) = {}
        /\ Parent(from) = Parent(to)
        /\ Begin([kind |-> "rename", path |-> from, to |-> to],
                 <<WriteRecord(place, [At(disk, place) EXCEPT !.name = Last(to)])>>)
  BY DEF Rename
<1>3. PICK dir : EntryAt(folders, paths, from, dir, place)
  BY EntryOf
<1> DEFINE old == At(disk, place)
           new == [old EXCEPT !.name = Last(to)]
           w == WriteRecord(place, new)
           e == Written(disk, w)
<1>4. /\ dir \in folders /\ paths[dir] = Parent(from) /\ old.name = Last(from)
      /\ place \in Entries(disk, dir) /\ old \in Record /\ old.state = "live"
      /\ old.dir => old.first \in folders \ {Root}
  BY <1>3 DEF EntryAt, PlaceOf
<1>5. Last(to) \in Names /\ PlaceOf(folders, paths, to, dir)
  BY <1>2, <1>4, PathIs DEF PlaceOf
<1>6. new \in Record /\ new.state = "live"
  BY <1>4, <1>5, Renamed
<1>7. Reached(disk, dir, place) /\ place \in ToSet(Places(disk, dir))
  BY <1>1, <1>4, EntryReached
<1>8. Spot(disk, place)
  BY <1>1, <1>4, <1>7, SpotOf
<1> HIDE DEF new
<1>9. w \in Write /\ RecordIsSet(disk, e, place, new)
  BY <1>1, <1>6, <1>8, RecordWritten
<1> HIDE DEF w, e
<1>10. Edits(disk, e, folders, {place}) /\ SameParents(disk, e, folders) /\ At(e, place) = new
  <2>1. new.state # "free"
    BY <1>6
  <2> QED BY <1>1, <1>4, <1>6, <1>7, <1>9, <2>1, RecordEdits
<1>11. \A a \in Entries(disk, dir) : a # place => At(disk, a).name # Last(to)
  BY <1>2, <1>5, NameIsFree
<1>12. PICK paths2 :
          /\ Repaths(disk, folders, place, dir, Last(to), paths2)
          /\ \A c \in folders : paths2[c] =
                Rebased(Append(paths[dir], old.name), Append(paths[dir], Last(to)), paths[c])
  <2>1. ASSUME old.dir PROVE ~ IsPrefix(paths[old.first], paths[dir])
    <3>1. paths[old.first] = Append(paths[dir], old.name)
      BY <1>1, <1>4, <2>1, ParentIs
    <3>2. paths[dir] \in Seq(Names) /\ old.name \in Names
      <4>1. paths \in [folders -> Seq(Names)]
        BY <1>1 DEF LaidOut
      <4>2. old.name \in Names
        BY <1>1, <1>4, LaidEntry DEF EntryIs
      <4> QED BY <1>4, <4>1, <4>2
    <3> HIDE DEF old
    <3> QED BY <3>1, <3>2, NotItsOwn
  <2> QED BY <1>1, <1>4, <1>5, <2>1, Repathed
<1>13. ASSUME NEW c \in folders \ {Root}
       PROVE  e.data[c].parent = IF old.dir /\ c = old.first THEN dir ELSE disk.data[c].parent
  <2>1. e.data[c].parent = disk.data[c].parent
    BY <1>10 DEF SameParents
  <2>2. old.dir => disk.data[old.first].parent = dir
    BY <1>1, <1>4, ParentIs
  <2> QED BY <2>1, <2>2
<1>14. Moves(disk, e, folders, dir, place, dir, place, Last(to), paths2)
  <2>1. {place, place} = {place}
    OBVIOUS
  <2> QED BY <1>4, <1>5, <1>7, <1>10, <1>11, <1>12, <1>13, <2>1 DEF Moves, new
<1>15. LaidOut(e, folders, paths2) /\ Used(e, folders) = Used(disk, folders)
  BY <1>1, <1>14, Moved
<1>16. Tidy(disk, folders) => Tidy(e, folders)
  <2>1. e.fat = disk.fat
    BY <1>9 DEF RecordIsSet
  <2> QED BY <1>15, <2>1, TidyIs DEF Loaded
<1> DEFINE what == [kind |-> "rename", path |-> from, to |-> to]
           after == PromisedBy(calls + 1, Tree(disk), what)
           T == Possible(Tree(disk), after)
<1>17. Tree(e) = after
  <2>1. from = Append(paths[dir], old.name) /\ to = Append(paths[dir], Last(to))
    BY <1>2, <1>4, PathIs
  <2>2. ~ IsPrefix(from, paths[dir])
    <3>1. paths[dir] \in Seq(Names) /\ old.name \in Names
      BY <1>1, <1>4, PathIs DEF LaidOut
    <3> HIDE DEF old
    <3> QED BY <2>1, <3>1, NotItsOwn
  <2>3. \A c \in folders : paths2[c] = Rebased(from, to, paths[c])
    BY <1>12, <2>1
  <2>4. Tree(e) = ShiftedTree(from, to, Tree(disk))
    <3> DEFINE name == Last(to)
    <3>1. Relocates(disk, e, folders, paths, dir, place, dir, place, name, paths2, from, to)
      BY <1>14, <2>1, <2>2, <2>3 DEF Relocates
    <3> HIDE DEF name
    <3> QED BY <1>1, <3>1, MovedTree
  <2>5. what.kind \in {"move", "rename"} /\ what.path = from /\ what.to = to
    OBVIOUS
  <2> HIDE DEF what
  <2> QED BY <2>4, <2>5, ShiftedPromise DEF after
<1>18. Leads(Within(T), disk, <<w>>, e)
  <2>1. Tree(disk) \in T /\ Tree(e) \in T
    <3> HIDE DEF after
    <3> QED BY <1>17, PossibleEnds
  <2> HIDE DEF T
  <2>2. disk \in Within(T) /\ e \in Within(T)
    BY <1>1, <1>15, <2>1, IsWithin
  <2> QED BY <1>9, <2>2, LeadsOne DEF e
<1>19. Goes(Within(T), disk, folders, after, <<w>>)
  <2> HIDE DEF T, after
  <2> QED BY <1>15, <1>16, <1>17, <1>18 DEF Goes
<1>20. call' = what /\ base' = disk /\ todo' = <<w>>
  BY <1>2 DEF Begin, w, new
<1>21. Through(calls + 1, call', base') = Within(T)
  <2>1. what.kind = "rename"
    OBVIOUS
  <2> HIDE DEF what
  <2> QED BY <1>20, <2>1 DEF Through, Overwrites, Trees
<1> HIDE DEF what, T
<1> QED BY <1>19, <1>20, <1>21 DEF BeginsWell

\* Where there are records does not change with the records.
LEMMA SpotKept ==
  ASSUME NEW d, NEW e, LikeOn(d, e, Clusters)
  PROVE  \A q : Spot(d, q) <=> Spot(e, q)
BY DEF Spot, LikeOn

\* Two changes that leave the kinds and the names of the clusters leave them together.
LEMMA LikeAfter ==
  ASSUME NEW d, NEW e, NEW f, LikeOn(d, e, Clusters), LikeOn(e, f, Clusters)
  PROVE  LikeOn(d, f, Clusters)
BY DEF LikeOn

\* The parent record of a folder is none of its entries.
LEMMA ParentEdits ==
  ASSUME NEW d \in Disk, NEW e, NEW c \in Clusters, d.data[c].kind = "dir",
         NEW parent \in 0 .. MaxCluster,
         ParentIsSet(d, e, c, parent)
  PROVE  /\ LikeOn(d, e, Clusters) /\ e.fat = d.fat /\ e \in Disk
         /\ \A q : Spot(d, q) => At(e, q) = At(d, q)
         /\ \A b \in Clusters : e.data[b].parent = IF b = c THEN parent ELSE d.data[b].parent
<1>1. /\ e \in Disk /\ e.root = d.root /\ e.fat = d.fat
      /\ e.data[c] = [d.data[c] EXCEPT !.parent = parent]
      /\ \A b \in Clusters : b # c => e.data[b] = d.data[b]
  BY DEF ParentIsSet
<1>2. d.data[c] \in [kind : {"dir"}, self : 0 .. MaxCluster, parent : 0 .. MaxCluster,
                     records : Seq(Record)]
  <2>1. d.data[c] \in Block
    BY DEF Disk
  <2> QED BY <2>1 DEF Block
<1> DEFINE old == d.data[c]
           new == e.data[c]
<1> HIDE DEF old
<1>3. /\ new.kind = old.kind /\ new.self = old.self /\ new.records = old.records
             /\ new.parent = parent
      /\ old.kind = "dir"
  BY <1>1, <1>2 DEF old
<1> HIDE DEF new
<1>4. Records(new) = Records(old)
  BY <1>3 DEF Records
<1>5. \A b \in Clusters : /\ e.data[b].kind = d.data[b].kind
                          /\ d.data[b].kind = "file" => e.data[b] = d.data[b]
                          /\ e.data[b].self = d.data[b].self
                          /\ e.data[b].records = d.data[b].records
                          /\ Records(e.data[b]) = Records(d.data[b])
                          /\ e.data[b].parent = IF b = c THEN parent ELSE d.data[b].parent
  <2>1. SUFFICES ASSUME NEW b \in Clusters
                 PROVE  /\ e.data[b].kind = d.data[b].kind
                        /\ d.data[b].kind = "file" => e.data[b] = d.data[b]
                        /\ e.data[b].self = d.data[b].self
                        /\ e.data[b].records = d.data[b].records
                        /\ Records(e.data[b]) = Records(d.data[b])
                        /\ e.data[b].parent = IF b = c THEN parent ELSE d.data[b].parent
    OBVIOUS
  <2>2. CASE b = c
    BY <1>3, <1>4, <2>2 DEF old, new
  <2>3. CASE b # c
    BY <1>1, <2>3
  <2> QED BY <2>2, <2>3
<1>6. LikeOn(d, e, Clusters)
  BY <1>1, <1>5 DEF LikeOn, Loaded
<1>7. ASSUME NEW q, Spot(d, q) PROVE At(e, q) = At(d, q)
  <2>1. CASE \E i \in 1 .. RootEntries : q = <<Root, i>>
    BY <1>1, <2>1 DEF At
  <2>2. CASE \E b \in Clusters : \E i \in Records(d.data[b]) : q = <<b, i>>
    <3>1. PICK b \in Clusters : \E i \in Records(d.data[b]) : q = <<b, i>>
      BY <2>2
    <3>2. q[1] = b /\ b # Root
      BY <3>1 DEF Clusters, Root
    <3> QED BY <1>5, <3>2 DEF At
  <2> QED BY <1>7, <2>1, <2>2 DEF Spot
<1> QED BY <1>1, <1>5, <1>6, <1>7

\* Two records and the parent record of a folder, one after the other.
MoveIs(a, b, c, e, ws, place, gone, q, moved, parents) ==
    /\ \A S : a \in S /\ b \in S /\ c \in S /\ e \in S => Leads(S, a, ws, e)
    /\ RecordIsSet(a, b, q, moved)
    /\ c \in Disk /\ LikeOn(a, c, Clusters)
    /\ \A p : Spot(a, p) => At(c, p) = At(e, p)
    /\ e \in Disk /\ e.fat = a.fat /\ LikeOn(a, e, Clusters)
    /\ At(e, q) = moved /\ At(e, place) = gone
    /\ \A p : Spot(a, p) /\ p # q /\ p # place => At(e, p) = At(a, p)
    /\ \A x \in Clusters : e.data[x].parent = parents[x]

MoveParent(dir, first, parent) == IF dir THEN <<WriteParent(first, parent)>> ELSE <<>>
ParentsAfter(a, dir, first, parent) ==
    [c \in Clusters |-> IF dir /\ c = first THEN parent ELSE a.data[c].parent]

\* move(): the new record, then the old one, then the ".." of a folder.
LEMMA MoveWrites ==
  ASSUME NEW a \in Disk, NEW place, Spot(a, place), NEW q, Spot(a, q), q # place,
         NEW gone \in Record, NEW moved \in Record, NEW dir \in BOOLEAN,
         NEW first, dir => first \in Clusters /\ a.data[first].kind = "dir",
         NEW parent \in 0 .. MaxCluster
  PROVE  \E b, c, e : MoveIs(a, b, c, e,
                  <<WriteRecord(q, moved), WriteRecord(place, gone)>>
                      \o MoveParent(dir, first, parent),
                  place, gone, q, moved, ParentsAfter(a, dir, first, parent))
<1> DEFINE b == Written(a, WriteRecord(q, moved))
           c == Written(b, WriteRecord(place, gone))
           f == Written(c, WriteParent(first, parent))
           two == <<WriteRecord(q, moved), WriteRecord(place, gone)>>
           parents == [x \in Clusters |-> IF dir /\ x = first THEN parent ELSE a.data[x].parent]
<1>1. WriteRecord(q, moved) \in Write /\ RecordIsSet(a, b, q, moved)
  BY RecordWritten
<1> HIDE DEF b
<1>2. /\ b \in Disk /\ b.fat = a.fat /\ LikeOn(a, b, Clusters) /\ At(b, q) = moved
      /\ \A p : Spot(a, p) /\ p # q => At(b, p) = At(a, p)
      /\ \A x \in Clusters : b.data[x].parent = a.data[x].parent
  BY <1>1 DEF RecordIsSet
<1>3. \A p : Spot(a, p) <=> Spot(b, p)
  BY <1>2, SpotKept
<1>4. WriteRecord(place, gone) \in Write /\ RecordIsSet(b, c, place, gone)
  <2>1. Spot(b, place)
    BY <1>3
  <2> QED BY <1>2, <2>1, RecordWritten
<1> HIDE DEF c
<1>5. /\ c \in Disk /\ c.fat = b.fat /\ LikeOn(b, c, Clusters) /\ At(c, place) = gone
      /\ \A p : Spot(b, p) /\ p # place => At(c, p) = At(b, p)
      /\ \A x \in Clusters : c.data[x].parent = b.data[x].parent
  BY <1>4 DEF RecordIsSet
<1>6. LikeOn(a, c, Clusters)
  BY <1>2, <1>5, LikeAfter
<1>7. /\ At(c, q) = moved /\ At(c, place) = gone
      /\ \A p : Spot(a, p) /\ p # q /\ p # place => At(c, p) = At(a, p)
      /\ \A x \in Clusters : c.data[x].parent = a.data[x].parent
      /\ c \in Disk /\ c.fat = a.fat
  BY <1>2, <1>3, <1>5
<1>8. ASSUME NEW S, a \in S, b \in S, c \in S PROVE Leads(S, a, two, c)
  <2>1. Leads(S, a, <<WriteRecord(q, moved)>>, b)
    BY <1>1, <1>8, LeadsOne DEF b
  <2>2. Leads(S, b, <<WriteRecord(place, gone)>>, c)
    BY <1>4, <1>8, LeadsOne DEF c
  <2>3. Leads(S, a, <<WriteRecord(q, moved)>> \o <<WriteRecord(place, gone)>>, c)
    BY <2>1, <2>2, LeadsOn
  <2>4. <<WriteRecord(q, moved)>> \o <<WriteRecord(place, gone)>> = two
    BY <1>1, <1>4, OneAndOne
  <2> QED BY <2>3, <2>4
<1> HIDE DEF two
<1>9. CASE ~ dir
  <2>1. ASSUME NEW S, a \in S, b \in S, c \in S PROVE Leads(S, a, two \o <<>>, c)
    <3>1. Leads(S, c, <<>>, c)
      BY <2>1, LeadsNowhere
    <3>2. Leads(S, a, two, c)
      BY <1>8, <2>1
    <3> QED BY <3>1, <3>2, LeadsOn
  <2>2. \A x \in Clusters : c.data[x].parent = parents[x]
    BY <1>7, <1>9
  <2> HIDE DEF parents
  <2>3. MoveIs(a, b, c, c, two \o <<>>, place, gone, q, moved, parents)
    BY <1>1, <1>6, <1>7, <2>1, <2>2 DEF MoveIs
  <2> QED BY <1>9, <2>3 DEF two, parents, MoveParent, ParentsAfter
<1>10. CASE dir
  <2>1. first \in Clusters /\ c.data[first].kind = "dir"
    BY <1>6, <1>10 DEF LikeOn
  <2>2. WriteParent(first, parent) \in Write /\ ParentIsSet(c, f, first, parent)
    BY <1>7, <2>1, ParentWritten
  <2> HIDE DEF f
  <2>3. /\ LikeOn(c, f, Clusters) /\ f.fat = c.fat /\ f \in Disk
        /\ \A p : Spot(c, p) => At(f, p) = At(c, p)
        /\ \A x \in Clusters : f.data[x].parent = IF x = first THEN parent ELSE c.data[x].parent
    BY <1>7, <2>1, <2>2, ParentEdits
  <2>4. LikeOn(a, f, Clusters)
    BY <1>6, <2>3, LikeAfter
  <2>5. \A p : Spot(a, p) <=> Spot(c, p)
    BY <1>6, SpotKept
  <2>6. /\ At(f, q) = moved /\ At(f, place) = gone
        /\ \A p : Spot(a, p) /\ p # q /\ p # place => At(f, p) = At(a, p)
        /\ \A p : Spot(a, p) => At(c, p) = At(f, p)
    BY <1>7, <2>3, <2>5
  <2>7. \A x \in Clusters : f.data[x].parent = parents[x]
    BY <1>7, <1>10, <2>3
  <2> HIDE DEF parents
  <2>8. ASSUME NEW S, a \in S, b \in S, c \in S, f \in S
        PROVE  Leads(S, a, two \o <<WriteParent(first, parent)>>, f)
    <3>1. Leads(S, c, <<WriteParent(first, parent)>>, f)
      BY <2>2, <2>8, LeadsOne DEF f
    <3>2. Leads(S, a, two, c)
      BY <1>8, <2>8
    <3> QED BY <3>1, <3>2, LeadsOn
  <2>9. MoveIs(a, b, c, f, two \o <<WriteParent(first, parent)>>, place, gone, q, moved, parents)
    BY <1>1, <1>6, <1>7, <2>3, <2>4, <2>6, <2>7, <2>8 DEF MoveIs
  <2> QED BY <1>10, <2>9 DEF two, parents, MoveParent, ParentsAfter
<1> QED BY <1>9, <1>10

\* Where every record is the same a laid out volume shows the same.
LEMMA SameRecords ==
  ASSUME NEW e, NEW folders, NEW paths, LaidOut(e, folders, paths), NEW c \in Disk,
         LikeOn(e, c, Clusters), \A p : Spot(e, p) => At(c, p) = At(e, p)
  PROVE  Tree(c) = Tree(e)
<1>1. Used(e, folders) \subseteq Clusters
  BY UsedIsTaken
<1>2. LikeOn(e, c, Used(e, folders))
  BY <1>1 DEF LikeOn
<1>3. ASSUME NEW dir \in folders, NEW p \in ToSet(Places(e, dir))
      PROVE  At(c, p) = At(e, p)
  <2>1. Spot(e, p)
    BY SpotOf
  <2> QED BY <2>1
<1>4. Edits(e, c, folders, {})
  BY <1>2, <1>3 DEF Edits
<1>5. SameListings(e, c, folders)
  <2>1. SUFFICES ASSUME NEW dir \in folders
                 PROVE  /\ Entries(c, dir) = Entries(e, dir)
                        /\ \A p \in Entries(e, dir) : At(c, p) = At(e, p)
    BY DEF SameListings
  <2>2. Edited(e, c, dir, {})
    BY <1>4, EditedFolder
  <2>3. \A p \in Entries(e, dir) : p \in ToSet(Places(e, dir))
    BY LaidPlaces
  <2> QED BY <1>3, <2>2, <2>3 DEF Edited
<1> QED BY <1>2, <1>5, SeenAlike
\* Three lists of writes end to end: in whatever order they are joined.
LEMMA ThreeLists ==
  ASSUME NEW s \in Seq(Write), NEW t \in Seq(Write), NEW u \in Seq(Write)
  PROVE  (s \o t) \o u = s \o (t \o u)
<1> DEFINE l == s \o t
           r == t \o u
           one == l \o u
           two == s \o r
           n == Len(s)
           m == Len(t)
           k == Len(u)
<1>1. EndToEnd(Write, s, t) /\ EndToEnd(Write, t, u)
  BY TwoLists
<1>2. l \in Seq(Write) /\ r \in Seq(Write)
  BY <1>1 DEF EndToEnd
<1>3. EndToEnd(Write, l, u) /\ EndToEnd(Write, s, r)
  <2> HIDE DEF l, r
  <2> QED BY <1>2, TwoLists
<1>4. n \in Nat /\ m \in Nat /\ k \in Nat
  OBVIOUS
<1>5. /\ Len(l) = n + m /\ Len(r) = m + k
      /\ \A i \in 1 .. n : l[i] = s[i]
      /\ \A i \in 1 .. m : l[n + i] = t[i]
      /\ \A i \in 1 .. m : r[i] = t[i]
      /\ \A i \in 1 .. k : r[m + i] = u[i]
  BY <1>1 DEF EndToEnd
<1> HIDE DEF l, r
<1>6. /\ one \in Seq(Write) /\ two \in Seq(Write)
      /\ Len(one) = Len(l) + k /\ Len(two) = n + Len(r)
      /\ \A i \in 1 .. Len(l) : one[i] = l[i]
      /\ \A i \in 1 .. k : one[Len(l) + i] = u[i]
      /\ \A i \in 1 .. n : two[i] = s[i]
      /\ \A i \in 1 .. Len(r) : two[n + i] = r[i]
  BY <1>3 DEF EndToEnd
<1> HIDE DEF one, two, n, m, k
<1>7. Len(one) = Len(two) /\ Len(one) = n + m + k
  BY <1>4, <1>5, <1>6
<1>8. ASSUME NEW i \in 1 .. n + m + k PROVE one[i] = two[i]
  <2>1. CASE i \in 1 .. n
    <3>1. i \in 1 .. Len(l)
      BY <1>4, <1>5, <2>1
    <3> QED BY <1>5, <1>6, <2>1, <3>1
  <2>2. CASE i \in n + 1 .. n + m
    <3> DEFINE j == i - n
    <3>1. j \in 1 .. m /\ n + j = i /\ i \in 1 .. Len(l) /\ j \in 1 .. Len(r)
      BY <1>4, <1>5, <2>2
    <3> HIDE DEF j
    <3>2. one[i] = l[n + j] /\ two[i] = r[j]
      BY <1>6, <3>1
    <3> QED BY <1>5, <3>1, <3>2
  <2>3. CASE i \in n + m + 1 .. n + m + k
    <3> DEFINE j == i - (n + m)
               h == m + j
    <3>1. j \in 1 .. k /\ Len(l) + j = i /\ h \in 1 .. Len(r) /\ n + h = i
      BY <1>4, <1>5, <2>3
    <3> HIDE DEF h
    <3>2. one[i] = u[j] /\ two[i] = r[h]
      BY <1>6, <3>1
    <3> HIDE DEF j
    <3>3. r[h] = u[j]
      BY <1>5, <3>1 DEF h
    <3> QED BY <3>2, <3>3
  <2> QED BY <1>4, <2>1, <2>2, <2>3
<1>9. one = two
  BY <1>6, <1>7, <1>8, SameList
<1> QED BY <1>9 DEF one, two, l, r

\* rename() into another folder.
LEMMA MoveGoes ==
  ASSUME NEW folders, NEW paths, Begins(folders, paths), NEW from \in Paths, NEW to \in Paths,
         Move(from, to)
  PROVE  BeginsWell(folders)
<1>1. LaidOut(disk, folders, paths) /\ disk \in Disk /\ folders \subseteq 0 .. MaxCluster
      /\ paths \in [folders -> Seq(Names)]
  BY IsSafe DEF Begins, LaidOut
<1>2. PICK place \in Object(disk, from), dir \in Folder(disk, Parent(to)) :
        /\ Object(disk, to) = {}
        /\ ~ (At(disk, place).dir /\ IsStrictPrefix(from, to))
        /\ Parent(from) # Parent(to)
        /\ HasSlot(disk, dir)
        /\ LET slot == Slot(disk, dir)
               entry == At(disk, place)
               moved == [entry EXCEPT !.name = Last(to)]
               gone == [entry EXCEPT !.state = "deleted"]
           IN  Begin([kind |-> "move", path |-> from, to |-> to],
                     slot.writes \o
                     <<WriteRecord(slot.place, moved), WriteRecord(place, gone)>> \o
                     (IF entry.dir THEN <<WriteParent(entry.first, dir)>> ELSE <<>>))
  BY DEF Move
<1>3. PICK home : EntryAt(folders, paths, from, home, place)
  BY EntryOf
<1> DEFINE slot == Slot(disk, dir)
           entry == At(disk, place)
           moved == [entry EXCEPT !.name = Last(to)]
           gone == [entry EXCEPT !.state = "deleted"]
           two == <<WriteRecord(slot.place, moved), WriteRecord(place, gone)>>
           last == MoveParent(entry.dir, entry.first, dir)
           writes == slot.writes \o two \o last
<1>4. /\ Object(disk, to) = {} /\ HasSlot(disk, dir)
      /\ ~ (entry.dir /\ IsStrictPrefix(from, to))
      /\ Begin([kind |-> "move", path |-> from, to |-> to], writes)
  BY <1>2 DEF MoveParent
<1>5. PlaceOf(folders, paths, to, dir)
  BY FolderOf
<1>6. dir \in folders /\ Last(to) \in Names /\ paths[dir] = Parent(to) /\ dir \in 0 .. MaxCluster
  BY <1>1, <1>5 DEF PlaceOf
<1>7. /\ home \in folders /\ place \in Entries(disk, home) /\ entry \in Record
             /\ entry.state = "live"
      /\ entry.dir => entry.first \in folders \ {Root} /\ paths[entry.first] = from
  BY <1>3 DEF EntryAt, PlaceOf
<1>8. \A p \in Entries(disk, dir) : At(disk, p).name # Last(to)
  BY <1>4, <1>5, NameIsFree
<1> DEFINE what == [kind |-> "move", path |-> from, to |-> to]
           after == PromisedBy(calls + 1, Tree(disk), what)
           T == Possible(Tree(disk), after)
<1> HIDE DEF what, after
<1>9. Tree(disk) \in T /\ after \in T
  BY PossibleEnds
<1> HIDE DEF T
<1>10. PICK a : GetsSlot(T, disk, a, folders, paths, dir, slot)
  BY <1>1, <1>4, <1>6, <1>9, SlotFound
<1> HIDE DEF slot
<1>11. /\ Leads(Within(T), disk, slot.writes, a) /\ LaidOut(a, folders, paths) /\ a \in Disk
       /\ Tree(a) = Tree(disk)
       /\ SameEntries(disk, a, folders)
       /\ Reached(a, dir, slot.place) /\ slot.place \in ToSet(Places(a, dir))
       /\ At(a, slot.place).state # "live"
       /\ Tidy(disk, folders) => Tidy(a, folders)
  BY <1>10 DEF GetsSlot
<1>12. \A c \in folders : \A p \in Entries(disk, c) : p \in Entries(a, c) /\ At(a, p) = At(disk, p)
  <2>1. SUFFICES ASSUME NEW c \in folders, NEW p \in Entries(disk, c)
                 PROVE  p \in Entries(a, c) /\ At(a, p) = At(disk, p)
    OBVIOUS
  <2>2. p \in ToSet(Places(disk, c))
    BY <1>1, LaidPlaces
  <2> QED BY <1>11, <2>2 DEF SameEntries
<1>13. place \in Entries(a, home) /\ At(a, place) = entry /\ slot.place # place
  BY <1>7, <1>11, <1>12
<1>14. Reached(a, home, place) /\ place \in ToSet(Places(a, home))
  BY <1>7, <1>11, <1>13, EntryReached
<1>15. Spot(a, place) /\ Spot(a, slot.place)
  <2>1. Spot(a, place)
    BY <1>7, <1>11, <1>14, SpotOf
  <2>2. Spot(a, slot.place)
    BY <1>6, <1>11, SpotOf
  <2> QED BY <2>1, <2>2
<1>16. /\ moved \in Record /\ moved.state = "live" /\ gone \in Record /\ gone.state = "deleted"
       /\ entry.dir \in BOOLEAN
  BY <1>6, <1>7, RecordIs
<1> HIDE DEF moved, gone
<1>17. entry.dir => /\ entry.first \in Clusters /\ a.data[entry.first].kind = "dir"
                    /\ a.data[entry.first].parent = home
  <2>1. SUFFICES ASSUME entry.dir
                 PROVE  /\ entry.first \in Clusters /\ a.data[entry.first].kind = "dir"
                        /\ a.data[entry.first].parent = home
    OBVIOUS
  <2>2. entry.first \in folders /\ entry.first # Root
    BY <1>7, <2>1
  <2>3. FolderIs(a, folders, entry.first)
    BY <1>11, <2>2, LaidFolder
  <2>4. entry.first \in ToSet(Chain(Loaded(a), entry.first))
            /\ ToSet(Chain(Loaded(a), entry.first)) \subseteq Clusters
    BY <2>3, ChainClusters DEF FolderIs, DirChain
  <2>5. a.data[entry.first].kind = "dir"
    BY <2>3, <2>4 DEF FolderIs, DirChain
  <2>6. a.data[entry.first].parent = home
    BY <1>7, <1>11, <1>13, <2>1, ParentIs
  <2> QED BY <2>4, <2>5, <2>6
<1> DEFINE parents == ParentsAfter(a, entry.dir, entry.first, dir)
<1>18. PICK b, mid, e : MoveIs(a, b, mid, e, two \o last, place, gone, slot.place, moved, parents)
  <2>1. entry.dir => entry.first \in Clusters /\ a.data[entry.first].kind = "dir"
    BY <1>17
  <2> HIDE DEF entry
  <2> QED BY <1>6, <1>11, <1>13, <1>15, <1>16, <2>1, MoveWrites
<1>19. /\ e \in Disk /\ e.fat = a.fat /\ LikeOn(a, e, Clusters)
       /\ At(e, slot.place) = moved /\ At(e, place) = gone
       /\ \A p : Spot(a, p) /\ p # slot.place /\ p # place => At(e, p) = At(a, p)
       /\ \A x \in Clusters : e.data[x].parent = parents[x]
  BY <1>18 DEF MoveIs
<1>20. Edits(a, e, folders, {place, slot.place})
  <2>1. \A c \in Used(a, folders) : c \in Clusters
    BY <1>11, UsedIsTaken
  <2>2. LikeOn(a, e, Used(a, folders))
    BY <1>19, <2>1 DEF LikeOn
  <2>3. ASSUME NEW c \in folders, NEW p \in ToSet(Places(a, c)), p \notin {place, slot.place}
        PROVE  At(e, p) = At(a, p)
    <3>1. Spot(a, p)
      BY <1>11, SpotOf
    <3> QED BY <1>19, <2>3, <3>1
  <2>4. ASSUME NEW c \in folders, place \in ToSet(Places(a, c))
        PROVE  At(e, place).state # "free" /\ Reached(a, c, place)
    <3>1. c = home
      BY <1>7, <1>11, <1>14, <2>4, OneFolder
    <3> QED BY <1>14, <1>16, <1>19, <3>1
  <2>5. ASSUME NEW c \in folders, slot.place \in ToSet(Places(a, c))
        PROVE  At(e, slot.place).state # "free" /\ Reached(a, c, slot.place)
    <3>1. c = dir
      BY <1>6, <1>11, <2>5, OneFolder
    <3> QED BY <1>11, <1>16, <1>19, <3>1
  <2> QED BY <1>19, <2>2, <2>3, <2>4, <2>5 DEF Edits
<1>21. \A p \in Entries(a, dir) : p # place => At(a, p).name # Last(to)
  <2>1. Entries(a, dir) = Entries(disk, dir)
    BY <1>6, <1>11 DEF SameEntries
  <2> QED BY <1>6, <1>8, <1>12, <2>1
<1>22. /\ from = Append(paths[home], At(a, place).name) /\ to = Append(paths[dir], Last(to))
       /\ ~ IsPrefix(from, paths[dir])
  <2>1. from = Append(paths[home], At(a, place).name) /\ to = Append(paths[dir], Last(to))
    <3>1. paths[home] = Parent(from) /\ entry.name = Last(from)
      BY <1>3 DEF EntryAt, PlaceOf
    <3>2. from = Append(Parent(from), Last(from)) /\ to = Append(Parent(to), Last(to))
      BY PathIs
    <3> QED BY <1>6, <1>13, <3>1, <3>2
  <2>2. CASE entry.dir
    <3>1. ~ IsStrictPrefix(from, to)
      BY <1>4, <2>2
    <3>2. ~ IsPrefix(from, Parent(to))
      BY <3>1, NotBelow
    <3> QED BY <1>6, <2>1, <3>2
  <2>3. CASE ~ entry.dir
    <3>1. ~ IsPrefix(Append(paths[home], At(a, place).name), paths[dir])
      BY <1>6, <1>7, <1>11, <1>13, <2>3, NotInFile
    <3> QED BY <2>1, <3>1
  <2> QED BY <2>2, <2>3
<1>23. PICK paths2 :
          /\ Repaths(a, folders, place, dir, Last(to), paths2)
          /\ \A x \in folders : paths2[x] =
                Rebased(Append(paths[home], At(a, place).name), Append(paths[dir], Last(to)),
                        paths[x])
  <2>1. At(a, place).dir => ~ IsPrefix(paths[At(a, place).first], paths[dir])
    BY <1>7, <1>13, <1>22
  <2> QED BY <1>6, <1>7, <1>11, <1>13, <2>1, Repathed
<1>24. ASSUME NEW x \in folders \ {Root}
       PROVE  e.data[x].parent = IF At(a, place).dir /\ x = At(a, place).first THEN dir
                                 ELSE a.data[x].parent
  <2>1. x \in Clusters
    BY <1>1 DEF Clusters, Root
  <2> QED BY <1>13, <1>19, <2>1 DEF ParentsAfter
<1>25. Moves(a, e, folders, home, place, dir, slot.place, Last(to), paths2)
  <2>1. At(e, slot.place) = [At(a, place) EXCEPT !.name = Last(to)]
    BY <1>13, <1>19 DEF moved
  <2>2. slot.place # place => At(e, place).state = "deleted"
    BY <1>16, <1>19
  <2> QED BY <1>6, <1>7, <1>11, <1>13, <1>20, <1>21, <1>23, <1>24, <2>1, <2>2 DEF Moves
<1>26. LaidOut(e, folders, paths2) /\ Used(e, folders) = Used(a, folders)
  BY <1>11, <1>25, Moved
<1>27. Tidy(disk, folders) => Tidy(e, folders)
  <2>1. Tidy(a, folders) => Tidy(e, folders)
    BY <1>19, <1>26, TidyIs DEF Loaded
  <2> QED BY <1>11, <2>1
<1>28. Relocates(a, e, folders, paths, home, place, dir, slot.place, Last(to), paths2, from, to)
  <2>1. \A x \in folders : paths2[x] = Rebased(from, to, paths[x])
    BY <1>22, <1>23
  <2> QED BY <1>22, <1>25, <2>1 DEF Relocates
<1>29. Tree(e) = after
  <2>1. Tree(e) = ShiftedTree(from, to, Tree(a))
    BY <1>11, <1>28, MovedTree
  <2>2. what.kind \in {"move", "rename"} /\ what.path = from /\ what.to = to
    BY DEF what
  <2> QED BY <1>11, <2>1, <2>2, ShiftedPromise DEF after
<1>30. b \in Disk /\ mid \in Disk /\ LikeOn(a, b, Clusters) /\ LikeOn(a, mid, Clusters)
       /\ RecordIsSet(a, b, slot.place, moved)
       /\ \A p : Spot(a, p) => At(mid, p) = At(e, p)
  BY <1>18 DEF MoveIs, RecordIsSet
<1>31. LikeOn(e, a, Clusters)
  BY <1>11, <1>19, LikeBack
<1>32. Doubled(a, b, e, folders, slot.place)
  <2>1. Edits(a, b, folders, {slot.place})
    <3>1. moved.state # "free"
      BY <1>16
    <3> QED BY <1>6, <1>11, <1>16, <1>30, <3>1, RecordEdits
  <2>2. At(b, slot.place) = At(e, slot.place)
    BY <1>19, <1>30 DEF RecordIsSet
  <2>3. LikeOn(e, b, Clusters)
    BY <1>30, <1>31, LikeAfter
  <2> QED BY <1>30, <2>1, <2>2, <2>3 DEF Doubled
<1>33. Tree(b) \in T
  <2>1. Tree(a) \subseteq Tree(b) /\ Tree(b) \subseteq Tree(a) \cup Tree(e)
    BY <1>11, <1>13, <1>28, <1>32, SeenTwice
  <2> QED BY <1>11, <1>29, <2>1 DEF T, Possible
<1>34. Tree(mid) = Tree(e)
  <2>1. \A p : Spot(e, p) => At(mid, p) = At(e, p)
    BY <1>19, <1>30, SpotKept
  <2>2. LikeOn(e, mid, Clusters)
    BY <1>30, <1>31, LikeAfter
  <2> QED BY <1>26, <1>30, <2>1, <2>2, SameRecords
<1> DEFINE S == Holding(T)
<1>35. a \in S /\ b \in S /\ mid \in S /\ e \in S
  BY <1>9, <1>11, <1>19, <1>29, <1>30, <1>33, <1>34 DEF Holding
<1>36. Within(T) \subseteq S
  BY DEF Within, Holding, Safe
<1> HIDE DEF S
<1>37. Leads(S, a, two \o last, e)
  BY <1>18, <1>35 DEF MoveIs
<1>38. Leads(S, disk, writes, e)
  <2>1. Leads(S, disk, slot.writes, a)
    BY <1>11, <1>36, LeadsWider
  <2>2. Leads(S, disk, slot.writes \o (two \o last), e)
    BY <1>37, <2>1, LeadsOn
  <2>3. slot.writes \in Seq(Write)
    BY <2>1, LeadsEnds
  <2>4. two \in Seq(Write) /\ last \in Seq(Write)
    <3>1. WriteRecord(slot.place, moved) \in Write /\ WriteRecord(place, gone) \in Write
      BY <1>11, <1>15, <1>16, RecordWritten
    <3>2. two \in Seq(Write)
      BY <3>1
    <3>3. CASE entry.dir
      <4>1. WriteParent(entry.first, dir) \in Write
        BY <1>3, <1>6, <1>11, <1>17, <3>3, ParentWritten
      <4>2. last = <<WriteParent(entry.first, dir)>>
        BY <3>3 DEF MoveParent
      <4> QED BY <3>2, <4>1, <4>2
    <3>4. CASE ~ entry.dir
      <4>1. last = <<>>
        BY <3>4 DEF MoveParent
      <4> QED BY <3>2, <4>1
    <3> QED BY <3>3, <3>4
  <2> HIDE DEF two, last
  <2> DEFINE begin == slot.writes
  <2>5. begin \in Seq(Write)
    BY <2>3
  <2>6. Leads(S, disk, begin \o (two \o last), e)
    BY <2>2
  <2> HIDE DEF begin
  <2>7. (begin \o two) \o last = begin \o (two \o last)
    BY <2>4, <2>5, ThreeLists
  <2>8. Leads(S, disk, (begin \o two) \o last, e)
    BY <2>6, <2>7
  <2> QED BY <2>8 DEF begin
<1>39. Goes(S, disk, folders, after, writes)
  BY <1>26, <1>27, <1>29, <1>38 DEF Goes
<1>40. call' = what /\ base' = disk /\ todo' = writes
  <2> HIDE DEF writes
  <2> QED BY <1>4 DEF Begin, what
<1>41. Through(calls + 1, call', base') = S
  <2>1. what.kind = "move"
    BY DEF what
  <2> QED BY <1>40, <2>1 DEF Through, Overwrites, Trees, T, after, S
<1> HIDE DEF writes
<1> QED BY <1>39, <1>40, <1>41 DEF BeginsWell, after
(***************************************************************************)
(* A file gets other clusters.                                             *)
(***************************************************************************)

\* Clusters that have not changed but for the records in them.
DataLike(d, e, X) ==
    \A c \in X :
        /\ e.data[c].kind = d.data[c].kind
        /\ d.data[c].kind = "file" => e.data[c] = d.data[c]
        /\ d.data[c].kind = "dir" => e.data[c].self = d.data[c].self
        /\ Records(e.data[c]) = Records(d.data[c])
        /\ e.data[c].parent = d.data[c].parent

\* Clusters are filled, the FAT becomes fat, a record is written.
ContentIsSet(d, e, chain, blocks, fat, place, record) ==
    /\ e \in Disk /\ Loaded(e) = fat
    /\ At(e, place) = record
    /\ \A q : Spot(d, q) /\ q # place /\ q[1] \notin ToSet(chain) => At(e, q) = At(d, q)
    /\ DataLike(d, e, Clusters \ ToSet(chain))
    /\ \A i \in 1 .. Len(chain) : e.data[chain[i]] = blocks[i]

\* The FAT may stay as it is, or both copies are written.
StoreOrNot(d, store, fat) ==
    \/ store = <<>> /\ fat = Loaded(d)
    \/ store = Store(fat) /\ fat \in Fat

\* Replacing a file: the content, the FAT if it changed, then the record.
LEMMA ContentWrites ==
  ASSUME NEW d \in Disk, NEW chain \in Seq(Clusters),
         \A i, j \in DOMAIN chain : chain[i] = chain[j] => i = j,
         NEW blocks, \A i \in 1 .. Len(chain) : blocks[i] \in Block /\ blocks[i].kind = "file",
         NEW store, NEW fat, StoreOrNot(d, store, fat),
         NEW place, Spot(d, place), place[1] \notin ToSet(chain), NEW record \in Record
  PROVE  \E e : /\ ContentIsSet(d, e, chain, blocks, fat, place, record)
                /\ Leads(Disk, d,
                         FillWrites(chain, blocks) \o store \o <<WriteRecord(place, record)>>, e)
                /\ d.fat[1] = d.fat[2] \/ store # <<>> => e.fat[1] = e.fat[2]
<1>1. ClustersDiffer(Disk, d, chain)
  BY DEF ClustersDiffer
<1>2. PICK a : Fills(d, a, chain, blocks, Len(chain))
          /\ Leads(Disk, d, FillWrites(chain, blocks), a)
  BY <1>1, Filled
<1>3. /\ a \in Disk /\ a.fat = d.fat /\ a.root = d.root
      /\ \A i \in 1 .. Len(chain) : a.data[chain[i]] = blocks[i]
      /\ \A c \in Clusters : c \notin ToSet(chain) => a.data[c] = d.data[c]
  BY <1>2 DEF Fills
<1>4. \E b : /\ b \in Disk /\ b.root = a.root /\ b.data = a.data /\ Loaded(b) = fat
             /\ d.fat[1] = d.fat[2] \/ store # <<>> => b.fat[1] = b.fat[2]
             /\ Leads(Disk, a, store, b)
  <2>1. CASE store = <<>> /\ fat = Loaded(d)
    <3>1. Leads(Disk, a, store, a)
      BY <1>3, <2>1, LeadsNowhere
    <3>2. Loaded(a) = fat
      BY <1>3, <2>1 DEF Loaded
    <3> QED BY <1>3, <2>1, <3>1, <3>2
  <2>2. CASE store = Store(fat) /\ fat \in Fat
    <3>1. FatDiffers(Disk, a, fat)
      BY DEF FatDiffers
    <3>2. PICK b : FatsAre(a, b, fat) /\ Leads(Disk, a, Store(fat), b)
      BY <1>3, <2>2, <3>1, Stored
    <3> QED BY <2>2, <3>2 DEF FatsAre
  <2> QED BY <2>1, <2>2 DEF StoreOrNot
<1>5. PICK b : /\ b \in Disk /\ b.root = a.root /\ b.data = a.data /\ Loaded(b) = fat
               /\ d.fat[1] = d.fat[2] \/ store # <<>> => b.fat[1] = b.fat[2]
               /\ Leads(Disk, a, store, b)
  BY <1>4
<1>6. /\ \A i \in 1 .. Len(chain) : b.data[chain[i]] = blocks[i]
      /\ \A c \in Clusters : c \notin ToSet(chain) => b.data[c] = d.data[c]
      /\ b.root = d.root
  BY <1>3, <1>5
<1>7. ASSUME NEW q, Spot(d, q), q[1] \notin ToSet(chain)
      PROVE  Spot(b, q) /\ At(b, q) = At(d, q)
  <2>1. CASE \E i \in 1 .. RootEntries : q = <<Root, i>>
    BY <1>6, <2>1 DEF Spot, At
  <2>2. CASE \E c \in Clusters : \E i \in Records(d.data[c]) : q = <<c, i>>
    <3>1. PICK c \in Clusters : \E i \in Records(d.data[c]) : q = <<c, i>>
      BY <2>2
    <3>2. PICK i \in Records(d.data[c]) : q = <<c, i>>
      BY <3>1
    <3>3. q[1] = c /\ c # Root
      BY <3>2 DEF Clusters, Root
    <3>4. b.data[c] = d.data[c]
      BY <1>6, <1>7, <3>3
    <3> QED BY <3>2, <3>3, <3>4 DEF Spot, At
  <2> QED BY <1>7, <2>1, <2>2 DEF Spot
<1> DEFINE e == Written(b, WriteRecord(place, record))
<1>8. WriteRecord(place, record) \in Write /\ RecordIsSet(b, e, place, record)
  BY <1>5, <1>7, RecordWritten
<1> HIDE DEF e
<1>9. /\ e \in Disk /\ e.fat = b.fat /\ At(e, place) = record
      /\ \A q : Spot(b, q) /\ q # place => At(e, q) = At(b, q)
      /\ LikeOn(b, e, Clusters)
      /\ \A c \in Clusters : e.data[c].parent = b.data[c].parent
  BY <1>8 DEF RecordIsSet
<1>10. \A q : Spot(d, q) /\ q # place /\ q[1] \notin ToSet(chain) => At(e, q) = At(d, q)
  BY <1>7, <1>9
<1>11. DataLike(d, e, Clusters \ ToSet(chain))
  BY <1>6, <1>9 DEF DataLike, LikeOn
<1>12. ASSUME NEW i \in 1 .. Len(chain) PROVE e.data[chain[i]] = blocks[i]
  <2>1. chain[i] \in Clusters
    OBVIOUS
  <2> QED BY <1>6, <1>9, <2>1 DEF LikeOn
<1>13. ContentIsSet(d, e, chain, blocks, fat, place, record)
  BY <1>5, <1>9, <1>10, <1>11, <1>12 DEF ContentIsSet, Loaded
<1>14. Leads(Disk, d, FillWrites(chain, blocks) \o store, b)
  BY <1>2, <1>5, LeadsOn
<1>15. Leads(Disk, b, <<WriteRecord(place, record)>>, e)
  BY <1>5, <1>8, <1>9, LeadsOne DEF e
<1>16. Leads(Disk, d, FillWrites(chain, blocks) \o store \o <<WriteRecord(place, record)>>, e)
  BY <1>14, <1>15, LeadsOn
<1> QED BY <1>5, <1>9, <1>13, <1>16

\* The content of the file at place is what is in the chain.
Rewrites(d, e, folders, paths, dir, place, record, chain, blocks, fat) ==
    /\ LaidOut(d, folders, paths)
    /\ dir \in folders /\ place \in Entries(d, dir) /\ ~ At(d, place).dir
    /\ record \in Record /\ record.state = "live" /\ ~ record.dir
    /\ record.name = At(d, place).name /\ record.size = Len(chain)
    /\ record.first = IF chain = <<>> THEN 0 ELSE chain[1]
    /\ chain \in Seq(Clusters)
    /\ \A c \in ToSet(chain) : c \in Used(d, folders) => c \in Claimed(d, place)
    /\ fat \in Fat
    /\ \A c \in Used(d, folders) : c \notin Claimed(d, place) => fat[c] = Loaded(d)[c]
    /\ chain # <<>> => Chained(fat, chain[1]) /\ Chain(fat, chain[1]) = chain
    /\ \E write \in 0 .. MaxCalls :
          \A i \in 1 .. Len(chain) : blocks[i] = FileBlock(write, i, Len(chain))
    /\ ContentIsSet(d, e, chain, blocks, fat, place, record)

\* A directory is not in the clusters of a file.
LEMMA PlaceApart ==
  ASSUME NEW d, NEW folders, NEW paths, LaidOut(d, folders, paths),
         NEW dir \in folders, NEW p \in ToSet(Places(d, dir)), p[1] # Root,
         NEW home \in folders, NEW place \in Entries(d, home), ~ At(d, place).dir
  PROVE  p[1] \in Used(d, folders) /\ p[1] \notin Claimed(d, place) /\ p[1] \in Clusters
<1>1. dir # Root /\ p[1] \in ToSet(Chain(Loaded(d), dir)) /\ p[1] \in Used(d, folders)
  BY SpotOf
<1>2. FolderIs(d, folders, dir)
  BY <1>1, LaidFolder
<1>3. d.data[dir].parent \in folders
  BY <1>2 DEF FolderIs
<1>4. PICK q \in Entries(d, d.data[dir].parent) :
          At(d, q).dir /\ At(d, q).first = dir /\ Claimed(d, q) = ToSet(Chain(Loaded(d), dir))
  BY <1>2 DEF FolderIs
<1>5. q # place
  BY <1>4
<1>6. Claimed(d, q) \cap Claimed(d, place) = {}
  BY <1>3, <1>4, <1>5, LaidApart
<1>7. p[1] \in Clusters
  BY <1>1, UsedIsTaken
<1> QED BY <1>1, <1>4, <1>6, <1>7

\* An item has its path for itself.
LEMMA OneItem ==
  ASSUME NEW d, NEW folders, NEW paths, LaidOut(d, folders, paths), NEW dir \in folders,
         NEW p \in Entries(d, dir)
  PROVE  \A t \in Tree(d) :
           t.path = Append(paths[dir], At(d, p).name) <=> t = Item(d, paths, dir, p)
<1>1. ASSUME NEW t \in Tree(d), t.path = Append(paths[dir], At(d, p).name)
      PROVE  t = Item(d, paths, dir, p)
  <2>1. PICK c \in folders : \E q \in Entries(d, c) : t = Item(d, paths, c, q)
    BY TreeIs DEF ItemOf
  <2>2. PICK q \in Entries(d, c) : t = Item(d, paths, c, q)
    BY <2>1
  <2>3. t.path = Append(paths[c], At(d, q).name)
    BY <2>2 DEF Item
  <2>4. Append(paths[c], At(d, q).name) = Append(paths[dir], At(d, p).name)
    BY <1>1, <2>3
  <2>5. c = dir /\ q = p
    BY <2>4, OnePath
  <2> QED BY <2>2, <2>5
<1>2. Item(d, paths, dir, p).path = Append(paths[dir], At(d, p).name)
  BY DEF Item
<1> QED BY <1>1, <1>2
\* The volume without the entry: its record is deleted, nothing else has changed.
Unlisted(d, a, folders, paths, dir, place) ==
    /\ LaidOut(a, folders, paths) /\ a.fat = d.fat
    /\ Tree(a) = Tree(d) \ {Item(d, paths, dir, place)}
    /\ LikeOn(d, a, Clusters)
    /\ \A c \in Clusters : a.data[c].parent = d.data[c].parent
    /\ Used(a, folders) = Used(d, folders) \ Claimed(d, place)
    /\ \A c \in folders : Entries(a, c) = Entries(d, c) \ {place}
    /\ Reached(a, dir, place) /\ place \in ToSet(Places(a, dir))
    /\ At(a, place) = [At(d, place) EXCEPT !.state = "deleted"]
    /\ \A q : Spot(d, q) /\ q # place => At(a, q) = At(d, q)

\* A file whose record is marked as deleted is no entry, and its clusters are free
\* to be used.
LEMMA ListedNoMore ==
  ASSUME NEW d, NEW folders, NEW paths, LaidOut(d, folders, paths), NEW dir \in folders,
         NEW place \in Entries(d, dir), ~ At(d, place).dir
  PROVE  \E a : Unlisted(d, a, folders, paths, dir, place)
<1> DEFINE gone == [At(d, place) EXCEPT !.state = "deleted"]
           a == Written(d, WriteRecord(place, gone))
<1>1. d \in Disk /\ paths \in [folders -> Seq(Names)]
  BY DEF LaidOut
<1>2. Reached(d, dir, place) /\ place \in ToSet(Places(d, dir))
  BY EntryReached
<1>3. Spot(d, place) /\ At(d, place) \in Record
  BY <1>2, SpotOf
<1>4. gone \in Record /\ gone.state = "deleted"
  BY <1>3, RecordIs
<1>5. RecordIsSet(d, a, place, gone)
  BY <1>1, <1>3, <1>4, RecordWritten
<1> HIDE DEF a, gone
<1>6. Edits(d, a, folders, {place}) /\ SameParents(d, a, folders) /\ At(a, place) = gone
  BY <1>2, <1>4, <1>5, RecordEdits
<1>7. Deletes(d, a, folders, dir, place)
  BY <1>4, <1>6 DEF Deletes
<1>8. Without(d, folders, place) = folders
  BY DEF Without
<1>9. [c \in folders |-> paths[c]] = paths
  BY <1>1
<1>10. /\ LaidOut(a, folders, paths)
       /\ Used(a, folders) = Used(d, folders) \ Claimed(d, place)
       /\ \A c \in folders : Entries(a, c) = Entries(d, c) \ {place}
  BY <1>7, <1>8, <1>9, Deleted
<1>11. Edited(d, a, dir, {place})
  BY <1>6, EditedFolder
<1>12. Places(a, dir) = Places(d, dir)
       /\ \A p \in ToSet(Places(d, dir)) : p # place => At(a, p) = At(d, p)
  BY <1>11 DEF Edited, SteadyFolder
<1>13. Reached(a, dir, place)
  <2>1. PICK n \in DOMAIN Places(d, dir) :
            /\ Places(d, dir)[n] = place
            /\ \A m \in DOMAIN Places(d, dir) : m < n => At(d, Places(d, dir)[m]).state # "free"
    BY <1>2 DEF Reached
  <2>2. ASSUME NEW m \in DOMAIN Places(d, dir), m < n
        PROVE  At(a, Places(d, dir)[m]).state # "free"
    <3>1. Places(d, dir)[m] \in ToSet(Places(d, dir))
      BY DEF ToSet
    <3> QED BY <1>4, <1>6, <1>12, <2>1, <2>2, <3>1
  <2> QED BY <1>12, <2>1, <2>2 DEF Reached
<1>14. a.fat = d.fat /\ LikeOn(d, a, Clusters)
       /\ (\A c \in Clusters : a.data[c].parent = d.data[c].parent)
       /\ \A q : Spot(d, q) /\ q # place => At(a, q) = At(d, q)
  BY <1>5 DEF RecordIsSet
<1>15. At(a, place) = [At(d, place) EXCEPT !.state = "deleted"]
  BY <1>6 DEF gone
<1>16. place \in ToSet(Places(a, dir))
  BY <1>2, <1>12
<1>17. Tree(a) = Tree(d) \ {Item(d, paths, dir, place)}
  BY <1>7, DeletedTree
<1> QED BY <1>10, <1>13, <1>14, <1>15, <1>16, <1>17 DEF Unlisted

\* Another item is seen in the place of one.
SeenInstead(d, e, paths, dir, place, record, chain, blocks) ==
    Tree(e) = (Tree(d) \ {Item(d, paths, dir, place)})
                \cup {Newcomer(paths, dir, record, [i \in 1 .. Len(chain) |-> blocks[i]])}

\* A file has the content that was written for it; every other entry stays.
LEMMA Rewritten ==
  ASSUME NEW d, NEW e, NEW folders, NEW paths, NEW dir, NEW place, NEW record, NEW chain,
         NEW blocks, NEW fat,
         Rewrites(d, e, folders, paths, dir, place, record, chain, blocks, fat)
  PROVE  /\ LaidOut(e, folders, paths)
         /\ Used(e, folders) = (Used(d, folders) \ Claimed(d, place)) \cup ToSet(chain)
         /\ \A c \in folders : Entries(e, c) = Entries(d, c)
         /\ SeenInstead(d, e, paths, dir, place, record, chain, blocks)
<1> DEFINE gone == [At(d, place) EXCEPT !.state = "deleted"]
           b == Written(e, WriteRecord(place, gone))
<1>1. /\ LaidOut(d, folders, paths) /\ dir \in folders /\ place \in Entries(d, dir)
             /\ ~ At(d, place).dir
      /\ record \in Record /\ record.state = "live" /\ ~ record.dir
             /\ record.name = At(d, place).name
      /\ record.size = Len(chain) /\ record.first = IF chain = <<>> THEN 0 ELSE chain[1]
      /\ chain \in Seq(Clusters)
  BY DEF Rewrites
<1>2. /\ \A c \in ToSet(chain) : c \in Used(d, folders) => c \in Claimed(d, place)
      /\ \A c \in Used(d, folders) : c \notin Claimed(d, place) => fat[c] = Loaded(d)[c]
      /\ fat \in Fat
  BY DEF Rewrites
<1>3. ContentIsSet(d, e, chain, blocks, fat, place, record)
  BY DEF Rewrites
<1>4. /\ e \in Disk /\ Loaded(e) = fat /\ At(e, place) = record
      /\ \A q : Spot(d, q) /\ q # place /\ q[1] \notin ToSet(chain) => At(e, q) = At(d, q)
      /\ DataLike(d, e, Clusters \ ToSet(chain))
      /\ \A i \in 1 .. Len(chain) : e.data[chain[i]] = blocks[i]
  BY <1>3 DEF ContentIsSet
<1>5. PICK a : Unlisted(d, a, folders, paths, dir, place)
  BY <1>1, ListedNoMore
<1>6. /\ LaidOut(a, folders, paths) /\ a.fat = d.fat /\ LikeOn(d, a, Clusters)
      /\ \A c \in Clusters : a.data[c].parent = d.data[c].parent
      /\ Used(a, folders) = Used(d, folders) \ Claimed(d, place)
      /\ \A c \in folders : Entries(a, c) = Entries(d, c) \ {place}
      /\ Reached(a, dir, place) /\ place \in ToSet(Places(a, dir))
      /\ At(a, place) = gone /\ Tree(a) = Tree(d) \ {Item(d, paths, dir, place)}
      /\ \A q : Spot(d, q) /\ q # place => At(a, q) = At(d, q)
  BY <1>5 DEF Unlisted
<1>7. Spot(d, place) /\ At(d, place) \in Record /\ place \in ToSet(Places(d, dir))
  BY <1>1, EntryReached, SpotOf
<1>8. gone \in Record /\ gone.state = "deleted"
  BY <1>7, RecordIs
<1> HIDE DEF gone, b
\* A directory is nowhere in the new chain.
<1>9. Root \notin ToSet(chain) /\ ToSet(chain) \subseteq Clusters
  <2>1. ASSUME NEW c \in ToSet(chain) PROVE c \in Clusters
    <3>1. PICK i \in DOMAIN chain : c = chain[i]
      BY DEF ToSet
    <3> QED BY <1>1, <3>1
  <2> QED BY <2>1 DEF Clusters, Root
<1>10. ASSUME NEW c \in folders, NEW p \in ToSet(Places(a, c))
       PROVE  Spot(d, p) /\ p[1] \notin ToSet(chain) /\ (p[1] # Root => p[1] \in Clusters)
  <2>1. Spot(a, p) /\ (p[1] # Root => p[1] \in Used(a, folders))
    BY <1>6, <1>10, SpotOf
  <2>2. Spot(d, p)
    BY <1>6, <2>1, SpotKept
  <2>3. p[1] # Root => p[1] \in Clusters
    BY <1>6, <2>1, UsedIsTaken
  <2> QED BY <1>2, <1>6, <1>9, <2>1, <2>2, <2>3
<1>11. ASSUME NEW p, Spot(d, p), p[1] \notin ToSet(chain)
       PROVE  Spot(e, p)
  <2>1. CASE \E i \in 1 .. RootEntries : p = <<Root, i>>
    BY <2>1 DEF Spot
  <2>2. CASE \E c \in Clusters : \E i \in Records(d.data[c]) : p = <<c, i>>
    <3>1. PICK c \in Clusters : \E i \in Records(d.data[c]) : p = <<c, i>>
      BY <2>2
    <3>2. PICK i \in Records(d.data[c]) : p = <<c, i>>
      BY <3>1
    <3>3. c \notin ToSet(chain)
      BY <1>11, <3>2
    <3>4. Records(e.data[c]) = Records(d.data[c])
      BY <1>4, <3>3 DEF DataLike
    <3> QED BY <3>2, <3>4 DEF Spot
  <2> QED BY <1>11, <2>1, <2>2 DEF Spot
<1>12. Spot(d, place) /\ place[1] \notin ToSet(chain) /\ Spot(e, place)
  BY <1>1, <1>6, <1>10, <1>11
\* What e is without the entry is what d is without it.
<1>13. RecordIsSet(e, b, place, gone)
  BY <1>4, <1>8, <1>12, RecordWritten DEF b
<1>14. /\ b \in Disk /\ b.fat = e.fat /\ At(b, place) = gone
       /\ \A q : Spot(e, q) /\ q # place => At(b, q) = At(e, q)
       /\ LikeOn(e, b, Clusters)
       /\ \A c \in Clusters : b.data[c].parent = e.data[c].parent
  BY <1>13 DEF RecordIsSet
<1>15. ASSUME NEW c \in Used(a, folders)
       PROVE  c \in Clusters /\ c \notin ToSet(chain) /\ Loaded(b)[c] = Loaded(a)[c]
  <2>1. c \in Used(d, folders) /\ c \notin Claimed(d, place)
    BY <1>6
  <2>2. fat[c] = Loaded(d)[c]
    BY <1>2, <2>1
  <2>3. Loaded(b) = fat /\ Loaded(a) = Loaded(d)
    BY <1>4, <1>6, <1>14 DEF Loaded
  <2>4. c \in Clusters
    BY <1>6, UsedIsTaken
  <2> QED BY <1>2, <2>1, <2>2, <2>3, <2>4
<1>16. LikeOn(a, b, Used(a, folders))
  <2> SUFFICES ASSUME NEW c \in Used(a, folders) PROVE LikeOn(a, b, {c})
    BY DEF LikeOn
  <2>1. c \in Clusters /\ c \notin ToSet(chain) /\ Loaded(b)[c] = Loaded(a)[c]
    BY <1>15
  <2>2. /\ e.data[c].kind = d.data[c].kind
        /\ d.data[c].kind = "file" => e.data[c] = d.data[c]
        /\ d.data[c].kind = "dir" => e.data[c].self = d.data[c].self
        /\ Records(e.data[c]) = Records(d.data[c])
    BY <1>4, <2>1 DEF DataLike
  <2>3. /\ a.data[c].kind = d.data[c].kind
        /\ d.data[c].kind = "file" => a.data[c] = d.data[c]
        /\ d.data[c].kind = "dir" => a.data[c].self = d.data[c].self
        /\ Records(a.data[c]) = Records(d.data[c])
    BY <1>6, <2>1 DEF LikeOn
  <2>4. /\ b.data[c].kind = e.data[c].kind
        /\ e.data[c].kind = "file" => b.data[c] = e.data[c]
        /\ e.data[c].kind = "dir" => b.data[c].self = e.data[c].self
        /\ Records(b.data[c]) = Records(e.data[c])
    BY <1>14, <2>1 DEF LikeOn
  <2> QED BY <2>1, <2>2, <2>3, <2>4 DEF LikeOn
<1>17. ASSUME NEW c \in folders, NEW p \in ToSet(Places(a, c))
       PROVE  At(b, p) = At(a, p)
  <2>1. Spot(d, p) /\ p[1] \notin ToSet(chain)
    BY <1>10
  <2>2. Spot(e, p)
    BY <1>11, <2>1
  <2>3. CASE p = place
    BY <1>6, <1>14, <2>3
  <2>4. CASE p # place
    BY <1>4, <1>6, <1>14, <2>1, <2>2, <2>4
  <2> QED BY <2>3, <2>4
<1>18. SameParents(a, b, folders)
  <2> SUFFICES ASSUME NEW c \in folders, c # Root PROVE b.data[c].parent = a.data[c].parent
    BY DEF SameParents
  <2>1. FolderIs(a, folders, c)
    BY <1>6, LaidFolder
  <2>2. Chained(Loaded(a), c) /\ ToSet(Chain(Loaded(a), c)) \subseteq Used(a, folders)
    BY <2>1 DEF FolderIs, DirChain
  <2>3. c \in Used(a, folders)
    BY <2>2, ChainClusters
  <2>4. c \in Clusters /\ c \notin ToSet(chain)
    BY <1>15, <2>3
  <2>5. e.data[c].parent = d.data[c].parent
    BY <1>4, <2>4 DEF DataLike
  <2> QED BY <1>6, <1>14, <2>4, <2>5
<1>19. Leaves(a, b, folders)
  <2>1. Edits(a, b, folders, {})
    BY <1>14, <1>16, <1>17 DEF Edits
  <2> QED BY <1>18, <2>1 DEF Leaves
<1>20. LaidOut(b, folders, paths) /\ Used(b, folders) = Used(a, folders)
  BY <1>6, <1>19, Untouched
<1>21. /\ Reached(b, dir, place) /\ place \in ToSet(Places(b, dir))
       /\ Entries(b, dir) = Entries(a, dir)
       /\ \A q \in Entries(a, dir) : At(b, q) = At(a, q)
  BY <1>1, <1>6, <1>19, SlotStays
\* The entry comes back, for the new chain.
<1>22. RecordIsSet(b, e, place, record)
  <2>1. LikeOn(b, e, Clusters)
    BY <1>14 DEF LikeOn
  <2>2. \A q : Spot(b, q) /\ q # place => At(e, q) = At(b, q)
    BY <1>14, SpotKept
  <2> QED BY <1>4, <1>14, <2>1, <2>2 DEF RecordIsSet
<1>23. Edits(b, e, folders, {place}) /\ SameParents(b, e, folders)
  BY <1>1, <1>20, <1>21, <1>22, RecordEdits
<1>24. ToSet(Chain(fat, record.first)) = ToSet(chain) /\ Chain(fat, record.first) = chain
       /\ (record.first = 0 \/ Chained(fat, record.first))
  <2>1. CASE chain = <<>>
    BY <1>1, <1>2, <2>1, NoChain
  <2>2. CASE chain # <<>>
    BY <1>1, <2>2 DEF Rewrites
  <2> QED BY <2>1, <2>2
<1>25. FileSound(e, record)
  <2>1. PICK write \in 0 .. MaxCalls :
            \A i \in 1 .. Len(chain) : blocks[i] = FileBlock(write, i, Len(chain))
    BY DEF Rewrites
  <2>2. DOMAIN chain = 1 .. Len(chain)
    BY <1>1
  <2>3. Holds(e, record, write)
    BY <1>1, <1>4, <1>24, <2>1, <2>2 DEF Holds
  <2> QED BY <1>4, <1>24, <2>3 DEF FileSound
<1>26. EntrySound(e, folders, paths, dir, place)
  <2>1. EntryIs(d, folders, place)
    BY <1>1, LaidEntry
  <2>2. record.name \in Names
    BY <1>1, <2>1 DEF EntryIs
  <2> QED BY <1>1, <1>4, <1>25, <2>2 DEF EntrySound
<1>27. Claimed(e, place) = ToSet(chain)
  BY <1>4, <1>24 DEF Claimed
<1>28. Claimed(e, place) \cap Used(b, folders) = {}
  BY <1>2, <1>6, <1>20, <1>27
<1>29. ASSUME NEW p \in Entries(b, dir) PROVE At(b, p).name # At(e, place).name
  <2>1. p \in Entries(d, dir) /\ p # place /\ At(b, p) = At(a, p)
    BY <1>1, <1>6, <1>21
  <2>2. Spot(d, p)
    BY <1>1, <2>1, EntryReached, SpotOf
  <2>3. At(a, p) = At(d, p)
    BY <1>6, <2>1, <2>2
  <2>4. At(d, p).name # At(d, place).name
    BY <1>1, <2>1, LaidApart
  <2> QED BY <1>1, <1>4, <2>1, <2>3, <2>4
<1>30. Inserts(b, e, folders, paths, dir, place, folders, paths)
  <2>1. folders \subseteq 0 .. MaxCluster /\ paths \in [folders -> Seq(Names)]
    BY <1>1 DEF LaidOut
  <2>2. At(b, place).state # "live" /\ At(e, place).state = "live"
    BY <1>1, <1>4, <1>8, <1>14
  <2> QED BY <1>1, <1>21, <1>23, <1>26, <1>28, <1>29, <2>1, <2>2 DEF Inserts
<1>31. /\ LaidOut(e, folders, paths)
       /\ Used(e, folders) = Used(b, folders) \cup Claimed(e, place)
       /\ \A c \in folders : Entries(e, c) = IF c = dir THEN Entries(b, c) \cup {place}
                                             ELSE Entries(b, c)
  BY <1>20, <1>30, Inserted
<1>32. ASSUME NEW c \in folders PROVE Entries(e, c) = Entries(d, c)
  <2>1. Edited(a, b, c, {})
    BY <1>6, <1>19, EditedFolder DEF Leaves
  <2>2. Entries(b, c) = Entries(a, c)
    BY <2>1 DEF Edited
  <2>3. Entries(b, c) = Entries(d, c) \ {place}
    BY <1>6, <2>2
  <2>4. c # dir => place \notin Entries(d, c)
    BY <1>1, ObjectPlace
  <2> QED BY <1>1, <1>31, <2>3, <2>4
<1>33. SeenInstead(d, e, paths, dir, place, record, chain, blocks)
  <2>1. Tree(b) = Tree(a)
    BY <1>6, <1>19, LeftTree
  <2>2. Tree(e) = Tree(b) \cup {Item(e, paths, dir, place)}
    BY <1>20, <1>30, InsertedTree
  <2>3. Item(e, paths, dir, place)
          = Newcomer(paths, dir, record, [i \in 1 .. Len(chain) |-> blocks[i]])
    <3>1. Data(e, record) = [i \in 1 .. Len(chain) |-> blocks[i]]
      <4>1. DOMAIN chain = 1 .. Len(chain)
        BY <1>1
      <4>2. Chain(Loaded(e), record.first) = chain /\ ~ record.dir
        BY <1>1, <1>4, <1>24
      <4>3. Data(e, record) = [i \in DOMAIN chain |-> e.data[chain[i]]]
        BY <4>2 DEF Data
      <4> QED BY <1>4, <4>1, <4>3
    <3> QED BY <1>4, <3>1 DEF Item, Newcomer
  <2> QED BY <1>6, <2>1, <2>2, <2>3 DEF SeenInstead
<1> QED BY <1>6, <1>20, <1>27, <1>31, <1>32, <1>33

\* The FAT after a file got the chain for the clusters it had.
Renews(d, place, chain, fat) ==
    /\ fat \in Fat
    /\ \A c \in ToSet(chain) : Loaded(d)[c] = Free \/ c \in Claimed(d, place)
    /\ \A c \in Clusters :
          c \notin ToSet(chain) => fat[c] = IF c \in Claimed(d, place) THEN Free ELSE Loaded(d)[c]
    /\ chain # <<>> => Chained(fat, chain[1]) /\ Chain(fat, chain[1]) = chain

\* The record of a file that got a chain.
Refers(d, place, chain, record) ==
    /\ record \in Record /\ record.state = "live" /\ ~ record.dir
    /\ record.name = At(d, place).name /\ record.size = Len(chain)
    /\ record.first = IF chain = <<>> THEN 0 ELSE chain[1]

\* The blocks of one write.
OfOneWrite(chain, blocks) ==
    \E write \in 0 .. MaxCalls :
        \A i \in 1 .. Len(chain) :
            blocks[i] = FileBlock(write, i, Len(chain)) /\ blocks[i] \in Block

\* What becomes of the volume when a file gets other clusters.
Renewed(d, e, folders, paths, dir, place, record, chain, blocks, fat, store) ==
    /\ Rewrites(d, e, folders, paths, dir, place, record, chain, blocks, fat)
    /\ Leads(Disk, d, FillWrites(chain, blocks) \o store \o <<WriteRecord(place, record)>>, e)
    /\ LaidOut(e, folders, paths)
    /\ SeenInstead(d, e, paths, dir, place, record, chain, blocks)
    /\ \A c \in folders : Entries(e, c) = Entries(d, c)
    /\ Tidy(d, folders) => Tidy(e, folders)

\* A file gets other clusters: they are filled, the FAT is stored, its record is
\* written.
LEMMA FileRenewed ==
  ASSUME NEW d, NEW folders, NEW paths, LaidOut(d, folders, paths), NEW dir \in folders,
         NEW place \in Entries(d, dir), ~ At(d, place).dir,
         NEW chain \in Seq(Clusters), \A i, j \in DOMAIN chain : chain[i] = chain[j] => i = j,
         NEW record, Refers(d, place, chain, record),
         NEW blocks, OfOneWrite(chain, blocks),
         NEW fat, Renews(d, place, chain, fat), NEW store, StoreOrNot(d, store, fat)
  PROVE  \E e : Renewed(d, e, folders, paths, dir, place, record, chain, blocks, fat, store)
<1>1. /\ fat \in Fat
      /\ \A c \in ToSet(chain) : Loaded(d)[c] = Free \/ c \in Claimed(d, place)
      /\ \A c \in Clusters :
            c \notin ToSet(chain) => fat[c] = IF c \in Claimed(d, place) THEN Free ELSE Loaded(d)[c]
      /\ chain # <<>> => Chained(fat, chain[1]) /\ Chain(fat, chain[1]) = chain
  BY DEF Renews
<1>2. /\ record \in Record /\ record.state = "live" /\ ~ record.dir
      /\ record.name = At(d, place).name /\ record.size = Len(chain)
      /\ record.first = IF chain = <<>> THEN 0 ELSE chain[1]
  BY DEF Refers
<1>3. d \in Disk
  BY DEF LaidOut
<1>4. place \in ToSet(Places(d, dir))
  BY EntryReached
<1>5. Spot(d, place)
  BY <1>4, SpotOf
<1>6. ASSUME NEW c \in ToSet(chain)
      PROVE  c \in Clusters /\ c # Root /\ (c \in Used(d, folders) => c \in Claimed(d, place))
  <2>1. PICK i \in DOMAIN chain : c = chain[i]
    BY DEF ToSet
  <2>2. c \in Clusters
    BY <2>1
  <2>3. c \in Used(d, folders) => Loaded(d)[c] # Free
    BY UsedIsTaken
  <2>4. c # Root
    BY <2>2 DEF Clusters, Root
  <2> QED BY <1>1, <2>2, <2>3, <2>4
<1>7. place[1] \notin ToSet(chain)
  <2>1. place[1] # Root => place[1] \in Used(d, folders) /\ place[1] \notin Claimed(d, place)
    BY <1>4, PlaceApart
  <2> QED BY <1>6, <2>1
<1>8. PICK write \in 0 .. MaxCalls :
        \A i \in 1 .. Len(chain) :
            blocks[i] = FileBlock(write, i, Len(chain)) /\ blocks[i] \in Block
  BY DEF OfOneWrite
<1>9. \A i \in 1 .. Len(chain) : blocks[i] \in Block /\ blocks[i].kind = "file"
  <2> SUFFICES ASSUME NEW i \in 1 .. Len(chain) PROVE blocks[i] \in Block /\ blocks[i].kind = "file"
    OBVIOUS
  <2>1. blocks[i] = FileBlock(write, i, Len(chain)) /\ blocks[i] \in Block
    BY <1>8
  <2>2. FileBlock(write, i, Len(chain)).kind = "file"
    BY DEF FileBlock
  <2> QED BY <2>1, <2>2
<1>10. PICK e : /\ ContentIsSet(d, e, chain, blocks, fat, place, record)
                /\ Leads(Disk, d,
                         FillWrites(chain, blocks) \o store \o <<WriteRecord(place, record)>>, e)
                /\ d.fat[1] = d.fat[2] \/ store # <<>> => e.fat[1] = e.fat[2]
  BY <1>2, <1>3, <1>5, <1>7, <1>9, ContentWrites
<1>11. ASSUME NEW c \in Used(d, folders), c \notin Claimed(d, place)
       PROVE  fat[c] = Loaded(d)[c]
  <2>1. c \in Clusters
    BY UsedIsTaken
  <2>2. c \notin ToSet(chain)
    BY <1>6, <1>11
  <2> QED BY <1>1, <1>11, <2>1, <2>2
<1>12. Rewrites(d, e, folders, paths, dir, place, record, chain, blocks, fat)
  <2>1. \A c \in ToSet(chain) : c \in Used(d, folders) => c \in Claimed(d, place)
    BY <1>6
  <2>2. \E w \in 0 .. MaxCalls : \A i \in 1 .. Len(chain) : blocks[i] = FileBlock(w, i, Len(chain))
    BY <1>8
  <2> QED BY <1>1, <1>2, <1>10, <1>11, <2>1, <2>2 DEF Rewrites
<1>13. /\ LaidOut(e, folders, paths)
       /\ Used(e, folders) = (Used(d, folders) \ Claimed(d, place)) \cup ToSet(chain)
       /\ \A c \in folders : Entries(e, c) = Entries(d, c)
       /\ SeenInstead(d, e, paths, dir, place, record, chain, blocks)
  BY <1>12, Rewritten
<1>14. ASSUME Tidy(d, folders) PROVE Tidy(e, folders)
  <2>1. d.fat[1] = d.fat[2] /\ \A c \in Clusters : Loaded(d)[c] # Free => c \in Used(d, folders)
    BY <1>14, TidyIs
  <2>2. e.fat[1] = e.fat[2] /\ Loaded(e) = fat
    BY <1>10, <2>1 DEF ContentIsSet
  <2>3. ASSUME NEW c \in Clusters, Loaded(e)[c] # Free PROVE c \in Used(e, folders)
    <3>1. c \in ToSet(chain) \/ (c \notin Claimed(d, place) /\ Loaded(d)[c] # Free)
      BY <1>1, <2>2, <2>3
    <3> QED BY <1>13, <2>1, <3>1
  <2> QED BY <2>2, <2>3, TidyIs
<1>15. Renewed(d, e, folders, paths, dir, place, record, chain, blocks, fat, store)
  BY <1>10, <1>12, <1>13, <1>14 DEF Renewed
<1> QED BY <1>15

\* A list of different elements has as many elements as it is long.
LEMMA DifferentCounted ==
  ASSUME NEW S, NEW s \in Seq(S), \A i, j \in DOMAIN s : s[i] = s[j] => i = j
  PROVE  IsFiniteSet(ToSet(s)) /\ Cardinality(ToSet(s)) = Len(s)
<1>1. Len(s) \in Nat /\ DOMAIN s = 1 .. Len(s)
  OBVIOUS
<1>2. s \in Bijection(1 .. Len(s), ToSet(s))
  <2>1. s \in [1 .. Len(s) -> ToSet(s)]
    BY <1>1 DEF ToSet
  <2>2. \A c \in ToSet(s) : \E i \in 1 .. Len(s) : s[i] = c
    BY <1>1 DEF ToSet
  <2> QED BY <1>1, <2>1, <2>2 DEF Bijection, Injection, Surjection, IsInjective
<1>3. IsFiniteSet(1 .. Len(s)) /\ Cardinality(1 .. Len(s)) = Len(s)
  BY <1>1, FS_Interval
<1>4. ExistsBijection(1 .. Len(s), ToSet(s))
  BY <1>2 DEF ExistsBijection
<1> QED BY <1>3, <1>4, FS_Bijection

\* Released clusters count as free.
LEMMA ReleasedCounted ==
  ASSUME NEW fat \in Fat, NEW chain \in Seq(Clusters),
         \A i, j \in DOMAIN chain : chain[i] = chain[j] => i = j,
         \A c \in ToSet(chain) : fat[c] # Free
  PROVE  FreeCount(Released(fat, chain)) = FreeCount(fat) + Len(chain)
<1>1. Released(fat, chain) \in Fat
      /\ \A c \in Clusters : Released(fat, chain)[c] = IF c \in ToSet(chain) THEN Free ELSE fat[c]
  BY ReleasedIs
<1>2. ToSet(chain) \subseteq Clusters
  <2> SUFFICES ASSUME NEW c \in ToSet(chain) PROVE c \in Clusters
    OBVIOUS
  <2>1. PICK i \in DOMAIN chain : c = chain[i]
    BY DEF ToSet
  <2> QED BY <2>1
<1>3. FreeClusters(Released(fat, chain)) = FreeClusters(fat) \cup ToSet(chain)
  BY <1>1, <1>2 DEF FreeClusters
<1>4. FreeClusters(fat) \cap ToSet(chain) = {}
  BY DEF FreeClusters
<1>5. IsFiniteSet(ToSet(chain)) /\ Cardinality(ToSet(chain)) = Len(chain)
  BY DifferentCounted
<1>6. IsFiniteSet(FreeClusters(fat))
  <2>1. IsFiniteSet(1 .. MaxCluster)
    BY SizeAssumption, FS_Interval
  <2> QED BY <2>1, FreeIsCounted, FS_Subset
<1>7. Cardinality(FreeClusters(fat) \cap ToSet(chain)) = 0
  BY <1>4, FS_EmptySet
<1>8. Cardinality(FreeClusters(fat) \cup ToSet(chain))
        = Cardinality(FreeClusters(fat)) + Cardinality(ToSet(chain)) - 0
  BY <1>5, <1>6, <1>7, FS_Union
<1>9. FreeCount(fat) \in Nat /\ Len(chain) \in Nat
  BY FreeIsCounted
<1>10. FreeCount(Released(fat, chain)) = Cardinality(FreeClusters(fat) \cup ToSet(chain))
  BY <1>3 DEF FreeCount
<1>11. Cardinality(FreeClusters(fat)) = FreeCount(fat)
  BY DEF FreeCount
<1> QED BY <1>5, <1>8, <1>9, <1>10, <1>11

\* The FAT after a write: the new chain linked, what is not kept released.
NewFat(early, chain, kept, size, old, fat) ==
    IF size = 0 /\ old = <<>> THEN fat ELSE Released(Linked(early, chain), kept)

\* Both contents coexist while the new one is written.
LEMMA RoomForBoth ==
  ASSUME NEW d, NEW folders, NEW paths, LaidOut(d, folders, paths), NEW dir \in folders,
         NEW place \in Entries(d, dir), NEW old, old = Chain(Loaded(d), At(d, place).first),
         NEW size \in Nat, NEW chain, AreFree(Loaded(d), chain, size)
  PROVE  Renews(d, place, chain, NewFat(Loaded(d), chain, old, size, old, Loaded(d)))
<1> DEFINE fat == Loaded(d)
           linked == Linked(fat, chain)
           fat2 == NewFat(fat, chain, old, size, old, fat)
<1>1. d \in Disk /\ fat \in Fat
  BY LoadedFat DEF LaidOut
<1>2. /\ chain \in Seq(Clusters) /\ Len(chain) = size
      /\ \A i, j \in DOMAIN chain : chain[i] = chain[j] => i = j
      /\ \A c \in ToSet(chain) : c \in Clusters /\ fat[c] = Free
  BY DEF AreFree
<1>3. EntryIs(d, folders, place)
  BY LaidEntry
<1>4. Claimed(d, place) = ToSet(old) /\ \A c \in ToSet(old) : c \in Clusters /\ fat[c] # Free
  BY <1>3 DEF EntryIs, Claimed
<1> HIDE DEF fat
<1>5. IsLinked(fat, chain, linked)
  BY <1>1, <1>2, LinkedIs
<1> HIDE DEF linked
<1>6. /\ linked \in Fat
      /\ \A c \in Clusters : c \notin ToSet(chain) => linked[c] = fat[c]
      /\ chain # <<>> => Chained(linked, chain[1]) /\ Chain(linked, chain[1]) = chain
  BY <1>5 DEF IsLinked
<1>7. CASE size = 0 /\ old = <<>>
  <2>1. fat2 = fat
    BY <1>7 DEF NewFat
  <2>2. chain = <<>> /\ ToSet(chain) = {} /\ ToSet(old) = {}
    BY <1>2, <1>7, NoneIn, EmptyList
  <2> HIDE DEF fat2
  <2> QED BY <1>1, <1>4, <2>1, <2>2 DEF Renews, fat, fat2
<1>8. CASE ~(size = 0 /\ old = <<>>)
  <2>1. fat2 = Released(linked, old)
    BY <1>8 DEF NewFat, linked
  <2> HIDE DEF fat2
  <2>2. /\ fat2 \in Fat
        /\ \A c \in Clusters : fat2[c] = IF c \in ToSet(old) THEN Free ELSE linked[c]
    BY <1>6, <2>1, ReleasedIs
  <2>3. \A c \in ToSet(chain) : fat2[c] = linked[c]
    BY <1>2, <1>4, <2>2
  <2>4. chain # <<>> => Chained(fat2, chain[1]) /\ Chain(fat2, chain[1]) = chain
    BY <1>6, <2>2, <2>3, ChainKept
  <2>5. \A c \in Clusters :
            c \notin ToSet(chain) => fat2[c] = IF c \in Claimed(d, place) THEN Free ELSE fat[c]
    BY <1>4, <1>6, <2>2
  <2> QED BY <1>2, <2>2, <2>4, <2>5 DEF Renews, fat, fat2
<1> QED BY <1>7, <1>8

\* The old clusters are released first, and may be taken again.
LEMMA RoomForOne ==
  ASSUME NEW d, NEW folders, NEW paths, LaidOut(d, folders, paths), NEW dir \in folders,
         NEW place \in Entries(d, dir), NEW old, old = Chain(Loaded(d), At(d, place).first),
         NEW early, early = Released(Loaded(d), old),
         NEW size \in Nat, size # 0, NEW chain, AreFree(early, chain, size)
  PROVE  Renews(d, place, chain, NewFat(early, chain, <<>>, size, old, Loaded(d)))
<1> DEFINE fat == Loaded(d)
           linked == Linked(early, chain)
           fat2 == NewFat(early, chain, <<>>, size, old, fat)
<1>1. d \in Disk /\ fat \in Fat
  BY LoadedFat DEF LaidOut
<1> HIDE DEF fat
<1>2. /\ early \in Fat
      /\ \A c \in Clusters : early[c] = IF c \in ToSet(old) THEN Free ELSE fat[c]
  BY <1>1, ReleasedIs DEF fat
<1>3. /\ chain \in Seq(Clusters) /\ Len(chain) = size
      /\ \A i, j \in DOMAIN chain : chain[i] = chain[j] => i = j
      /\ \A c \in ToSet(chain) : c \in Clusters /\ early[c] = Free
  BY DEF AreFree
<1>4. Claimed(d, place) = ToSet(old)
  BY DEF Claimed
<1>5. IsLinked(early, chain, linked)
  BY <1>2, <1>3, LinkedIs
<1> HIDE DEF linked
<1>6. /\ linked \in Fat
      /\ \A c \in Clusters : c \notin ToSet(chain) => linked[c] = early[c]
      /\ chain # <<>> => Chained(linked, chain[1]) /\ Chain(linked, chain[1]) = chain
  BY <1>5 DEF IsLinked
<1>7. fat2 = Released(linked, <<>>)
  BY DEF NewFat, linked
<1> HIDE DEF fat2
<1>8. fat2 \in Fat /\ \A c \in Clusters : fat2[c] = linked[c]
  BY <1>6, <1>7, ReleasedIs, EmptyList
<1>9. chain # <<>> => Chained(fat2, chain[1]) /\ Chain(fat2, chain[1]) = chain
  <2>1. ASSUME chain # <<>> PROVE \A c \in ToSet(Chain(linked, chain[1])) : fat2[c] = linked[c]
    BY <1>6, <1>8, <2>1, ChainClusters
  <2> QED BY <1>6, <1>8, <2>1, ChainKept
<1>10. \A c \in Clusters :
            c \notin ToSet(chain) => fat2[c] = IF c \in Claimed(d, place) THEN Free ELSE fat[c]
  BY <1>2, <1>4, <1>6, <1>8
<1>11. \A c \in ToSet(chain) : fat[c] = Free \/ c \in Claimed(d, place)
  BY <1>2, <1>3, <1>4
<1> QED BY <1>8, <1>9, <1>10, <1>11 DEF Renews, fat, fat2

\* The clusters and the FAT of a write to a file that exists.
Replacement(d, place, size, chain, fat, store) ==
    /\ chain \in Seq(Clusters) /\ Len(chain) = size
    /\ \A i, j \in DOMAIN chain : chain[i] = chain[j] => i = j
    /\ Renews(d, place, chain, fat)
    /\ StoreOrNot(d, store, fat)

\* The clusters of a file that is replaced: free ones, or the old ones when there is
\* no room beside them.
LEMMA ReplacementIs ==
  ASSUME NEW d, NEW folders, NEW paths, LaidOut(d, folders, paths), NEW dir \in folders,
         NEW place \in Entries(d, dir), NEW old, old = Chain(Loaded(d), At(d, place).first),
         NEW size \in Nat, size <= FreeCount(Loaded(d)) + Len(old),
         NEW kept, kept = IF size > FreeCount(Loaded(d)) THEN <<>> ELSE old,
         NEW early, early = IF size > FreeCount(Loaded(d)) THEN Released(Loaded(d), old)
                            ELSE Loaded(d),
         NEW chain, chain = Lowest(early, size),
         NEW store, store = IF size = 0 /\ old = <<>> THEN <<>>
                            ELSE Store(Released(Linked(early, chain), kept))
  PROVE  Replacement(d, place, size, chain, NewFat(early, chain, kept, size, old, Loaded(d)), store)
<1> DEFINE fat == Loaded(d)
           fat2 == NewFat(early, chain, kept, size, old, fat)
<1>1. d \in Disk /\ fat \in Fat
  BY LoadedFat DEF LaidOut
<1>2. EntryIs(d, folders, place)
  BY LaidEntry
<1>3. /\ old \in Seq(Clusters) /\ \A c \in ToSet(old) : fat[c] # Free
      /\ \A i, j \in DOMAIN old : old[i] = old[j] => i = j
  <2>1. CASE At(d, place).first = 0
    <3>1. old = <<>>
      BY <1>1, <2>1, NoChain
    <3>2. old \in Seq(Clusters) /\ ToSet(old) = {}
      BY <3>1, EmptyList
    <3>3. Len(old) = 0
      BY <3>1
    <3>4. DOMAIN old = {}
      BY <3>2, <3>3
    <3> QED BY <3>2, <3>4
  <2>2. CASE Chained(fat, At(d, place).first)
    BY <2>2, ChainClusters
  <2> QED BY <1>2, <2>1, <2>2 DEF EntryIs
<1>4. FreeCount(fat) \in Nat /\ Len(old) \in Nat
  BY <1>1, <1>3, FreeIsCounted
<1>5. AreFree(early, chain, size)
  <2>1. early \in Fat /\ size <= FreeCount(early)
    <3>1. CASE size > FreeCount(fat)
      <4>1. early = Released(fat, old)
        BY <3>1
      <4>2. FreeCount(Released(fat, old)) = FreeCount(fat) + Len(old)
        BY <1>1, <1>3, ReleasedCounted
      <4>3. early \in Fat
        BY <1>1, <4>1, ReleasedIs
      <4> QED BY <4>1, <4>2, <4>3
    <3>2. CASE ~(size > FreeCount(fat))
      BY <1>1, <1>4, <3>2
    <3> QED BY <3>1, <3>2
  <2> QED BY <2>1, LowestFree
<1>6. /\ chain \in Seq(Clusters) /\ Len(chain) = size
      /\ \A i, j \in DOMAIN chain : chain[i] = chain[j] => i = j
  BY <1>5 DEF AreFree
<1> HIDE DEF fat
<1>7. Renews(d, place, chain, fat2)
  <2>1. CASE size > FreeCount(fat)
    <3>1. early = Released(fat, old) /\ kept = <<>>
      BY <2>1 DEF fat
    <3>2. size # 0
      BY <1>4, <2>1
    <3> QED BY <1>5, <3>1, <3>2, RoomForOne DEF fat
  <2>2. CASE ~(size > FreeCount(fat))
    <3>1. early = fat /\ kept = old
      BY <2>2 DEF fat
    <3> QED BY <1>5, <3>1, RoomForBoth DEF fat
  <2> QED BY <2>1, <2>2
<1>8. fat2 \in Fat
  BY <1>7 DEF Renews
<1>9. StoreOrNot(d, store, fat2)
  <2>1. CASE size = 0 /\ old = <<>>
    <3>1. store = <<>> /\ fat2 = fat
      BY <2>1 DEF NewFat
    <3> QED BY <3>1 DEF StoreOrNot, fat
  <2>2. CASE ~(size = 0 /\ old = <<>>)
    <3>1. store = Store(fat2)
      BY <2>2 DEF NewFat
    <3> QED BY <1>8, <3>1 DEF StoreOrNot
  <2> QED BY <2>1, <2>2
<1> QED BY <1>6, <1>7, <1>9 DEF Replacement, fat

\* write_bytes() of a file that exists.
LEMMA ReplaceGoes ==
  ASSUME NEW folders, NEW paths, Begins(folders, paths), NEW path \in Paths,
         NEW size \in 0 .. MaxSize, Replace(path, size)
  PROVE  BeginsWell(folders)
<1>1. LaidOut(disk, folders, paths) /\ calls \in 0 .. MaxCalls /\ MaxCalls \in Nat
          /\ MaxSize \in Nat
  BY BoundAssumption DEF Begins
<1>2. PICK place \in Object(disk, path) :
        LET fat == Loaded(disk)
            old == Chain(fat, At(disk, place).first)
            kept == IF size > FreeCount(fat) THEN <<>> ELSE old
            early == IF size > FreeCount(fat) THEN Released(fat, old) ELSE fat
            chain == Lowest(early, size)
            first == IF size = 0 THEN 0 ELSE chain[1]
            store == IF size = 0 /\ old = <<>> THEN <<>>
                     ELSE Store(Released(Linked(early, chain), kept))
        IN  /\ ~ At(disk, place).dir
            /\ size <= FreeCount(fat) + Len(old)
            /\ Begin([kind |-> "write", path |-> path, size |-> size],
                     Parts(chain, size) \o store \o
                     <<WriteRecord(place, Live(Last(path), FALSE, first, size))>>)
  BY DEF Replace
<1> DEFINE fat == Loaded(disk)
           old == Chain(fat, At(disk, place).first)
           kept == IF size > FreeCount(fat) THEN <<>> ELSE old
           early == IF size > FreeCount(fat) THEN Released(fat, old) ELSE fat
           chain == Lowest(early, size)
           first == IF size = 0 THEN 0 ELSE chain[1]
           store == IF size = 0 /\ old = <<>> THEN <<>>
                    ELSE Store(Released(Linked(early, chain), kept))
           record == Live(Last(path), FALSE, first, size)
           writes == Parts(chain, size) \o store \o <<WriteRecord(place, record)>>
<1>3. /\ ~ At(disk, place).dir /\ size <= FreeCount(fat) + Len(old)
      /\ Begin([kind |-> "write", path |-> path, size |-> size], writes)
  BY <1>2
<1>4. call' = [kind |-> "write", path |-> path, size |-> size] /\ todo' = writes /\ base' = disk
  BY <1>3 DEF Begin
<1> DEFINE what == [kind |-> "write", path |-> path, size |-> size]
<1>5. Through(calls + 1, call', base') = Disk
  <2>1. what.kind = "write" /\ what.path = path
    OBVIOUS
  <2> HIDE DEF what
  <2>2. Overwrites(what, disk)
    BY <1>2, <2>1 DEF Overwrites
  <2> QED BY <1>4, <2>2 DEF Through, what
<1>6. PICK dir : EntryAt(folders, paths, path, dir, place)
  BY EntryOf
<1>7. dir \in folders /\ place \in Entries(disk, dir) /\ At(disk, place).name = Last(path)
      /\ Last(path) \in Names
  BY <1>6 DEF EntryAt, PlaceOf
<1>8. calls + 1 \in 0 .. MaxCalls
  <2>1. calls < MaxCalls
    BY DEF Replace, Ready
  <2> QED BY <1>1, <2>1
<1>9. size \in Nat
  BY <1>1
<1> DEFINE fat2 == NewFat(early, chain, kept, size, old, fat)
<1>10. Replacement(disk, place, size, chain, fat2, store)
  BY <1>1, <1>3, <1>7, <1>9, ReplacementIs
<1> HIDE DEF fat2, store, chain
<1>11. /\ chain \in Seq(Clusters) /\ Len(chain) = size
       /\ \A i, j \in DOMAIN chain : chain[i] = chain[j] => i = j
       /\ Renews(disk, place, chain, fat2) /\ StoreOrNot(disk, store, fat2)
  BY <1>10 DEF Replacement
<1> DEFINE blocks == FileBlocks(calls + 1, size)
<1>12. OfOneWrite(chain, blocks)
  BY <1>8, <1>11, FileBlocksAre DEF OfOneWrite
<1>13. Parts(chain, size) = FillWrites(chain, blocks)
  BY <1>9, <1>11, PartsAre
<1> HIDE DEF blocks
<1>14. first \in 0 .. MaxCluster /\ first = IF chain = <<>> THEN 0 ELSE chain[1]
  <2>1. chain = <<>> <=> size = 0
    BY <1>9, <1>11
  <2>2. size # 0 => chain[1] \in Clusters
    BY <1>9, <1>11, <2>1
  <2> QED BY <2>1, <2>2, SizeAssumption DEF Clusters
<1> HIDE DEF first
<1>15. /\ record \in Record /\ record.state = "live" /\ record.name = Last(path)
              /\ record.first = first
       /\ record.size = size /\ record.dir = FALSE
  <2>1. size \in 0 .. MaxSize /\ FALSE \in BOOLEAN
    OBVIOUS
  <2>2. LiveIs(record, Last(path), FALSE, first, size)
    <3> DEFINE name == Last(path)
    <3>1. name \in Names /\ first \in 0 .. MaxCluster
      BY <1>7, <1>14
    <3> HIDE DEF name
    <3> QED BY <2>1, <3>1, LiveMakes DEF name
  <2> HIDE DEF record
  <2> QED BY <2>2 DEF LiveIs
<1> HIDE DEF record
<1>16. Refers(disk, place, chain, record)
  BY <1>7, <1>11, <1>14, <1>15 DEF Refers
<1>17. PICK e : Renewed(disk, e, folders, paths, dir, place, record, chain, blocks, fat2, store)
  BY <1>1, <1>3, <1>7, <1>11, <1>12, <1>16, FileRenewed
<1>18. /\ Leads(Disk, disk, FillWrites(chain, blocks) \o store \o <<WriteRecord(place, record)>>, e)
       /\ LaidOut(e, folders, paths)
       /\ Tidy(disk, folders) => Tidy(e, folders)
       /\ SeenInstead(disk, e, paths, dir, place, record, chain, blocks)
  BY <1>17 DEF Renewed
<1>19. Leads(Disk, disk, writes, e)
  BY <1>13, <1>18
<1> HIDE DEF writes
<1> DEFINE after == PromisedBy(calls + 1, Tree(disk), what)
<1>20. Tree(e) = after
  <2> DEFINE file == [path |-> path, dir |-> FALSE,
                      data |-> [i \in 1 .. size |-> FileBlock(calls + 1, i, size)]]
  <2>1. after = {o \in Tree(disk) : o.path # path} \cup {file}
    <3>1. what.kind = "write" /\ what.path = path /\ what.size = size
      OBVIOUS
    <3> HIDE DEF what
    <3> QED BY <3>1 DEF PromisedBy
  <2>2. path = Append(paths[dir], At(disk, place).name)
    BY <1>6, PathIs DEF EntryAt, PlaceOf
  <2>3. {o \in Tree(disk) : o.path # path} = Tree(disk) \ {Item(disk, paths, dir, place)}
    BY <1>1, <1>7, <2>2, OneItem
  <2>4. [i \in 1 .. Len(chain) |-> blocks[i]] = [i \in 1 .. size |-> FileBlock(calls + 1, i, size)]
    <3>1. Len(chain) = size
      BY <1>11
    <3>2. \A i \in 1 .. size : blocks[i] = FileBlock(calls + 1, i, size)
      BY DEF blocks, FileBlocks
    <3> QED BY <3>1, <3>2
  <2>5. Newcomer(paths, dir, record, [i \in 1 .. Len(chain) |-> blocks[i]]) = file
    <3>1. record.name = At(disk, place).name /\ record.dir = FALSE
      BY <1>7, <1>15
    <3> QED BY <2>2, <2>4, <3>1 DEF Newcomer
  <2> HIDE DEF after, file
  <2> QED BY <1>18, <2>1, <2>3, <2>5 DEF SeenInstead
<1> HIDE DEF after
<1>21. Goes(Disk, disk, folders, after, writes)
  BY <1>18, <1>19, <1>20 DEF Goes
<1> HIDE DEF what
<1> QED BY <1>4, <1>5, <1>21 DEF BeginsWell, after, what
(***************************************************************************)
(* What is in a folder, as a list.                                         *)
(***************************************************************************)

\* Whatever the FAT holds, _chain() finds clusters.
LEMMA ChainListed ==
  ASSUME NEW fat \in Fat, NEW first \in 0 .. MaxCluster
  PROVE  Chain(fat, first) \in Seq(Clusters)
<1> DEFINE at == Walk(fat, first)
           hits == {i \in 0 .. MaxCluster : at[i] \in Clusters}
           length == Cardinality(hits)
<1>1. MaxCluster \in Nat /\ first \in 0 .. Eoc
  BY SizeAssumption DEF Eoc
<1>2. \A i \in 1 .. MaxCluster :
        at[i] = IF at[i - 1] \in Clusters THEN fat[at[i - 1]] ELSE at[i - 1]
  BY <1>1, WalkSteps
<1> HIDE DEF at
<1>3. ASSUME NEW i \in 0 .. MaxCluster, at[i] \notin Clusters
      PROVE  \A j \in 0 .. MaxCluster : i <= j => at[j] \notin Clusters
  <2> DEFINE T == {k \in 0 .. MaxCluster - i : at[i + k] \notin Clusters}
  <2>1. MaxCluster - i \in Nat /\ 0 \in T
    BY <1>1, <1>3
  <2>2. ASSUME NEW k \in 0 .. (MaxCluster - i) - 1, k \in T PROVE k + 1 \in T
    <3>1. i + k + 1 \in 1 .. MaxCluster /\ (i + k + 1) - 1 = i + k /\ k + 1 \in 0 .. MaxCluster - i
      BY <1>1
    <3>2. at[i + k] \notin Clusters
      BY <2>2
    <3>3. at[i + k + 1] \notin Clusters
      BY <1>2, <3>1, <3>2
    <3>4. at[i + (k + 1)] \notin Clusters
      BY <1>1, <3>3
    <3> QED BY <3>1, <3>4
  <2> HIDE DEF T
  <2>3. 0 .. MaxCluster - i \subseteq T
    BY <2>1, <2>2, UpTo
  <2>4. ASSUME NEW j \in 0 .. MaxCluster, i <= j PROVE at[j] \notin Clusters
    <3>1. j - i \in 0 .. MaxCluster - i /\ i + (j - i) = j
      BY <1>1, <2>4
    <3> QED BY <2>3, <3>1 DEF T
  <2> QED BY <2>4
<1>4. IsFiniteSet(0 .. MaxCluster) /\ Cardinality(0 .. MaxCluster) = MaxCluster + 1
  BY <1>1, FS_Interval
<1>5. length \in 0 .. MaxCluster + 1
  <2>1. hits \in SUBSET (0 .. MaxCluster)
    OBVIOUS
  <2> HIDE DEF hits
  <2>2. IsFiniteSet(hits) /\ Cardinality(hits) <= MaxCluster + 1
    BY <1>4, <2>1, FS_Subset
  <2>3. Cardinality(hits) \in Nat
    BY <2>2, FS_CardinalityType
  <2> QED BY <1>1, <2>2, <2>3
<1>6. ASSUME NEW i \in 1 .. length PROVE at[i - 1] \in Clusters
  <2> SUFFICES ASSUME at[i - 1] \notin Clusters PROVE FALSE
    OBVIOUS
  <2> HIDE DEF length
  <2>1. i - 1 \in 0 .. MaxCluster /\ i - 2 \in Int /\ 0 \in Int
    BY <1>1, <1>5
  <2>2. \A j \in hits : j <= i - 2
    <3>1. \A j \in 0 .. MaxCluster : ~(i - 1 <= j) => j <= i - 2
      BY <2>1
    <3> QED BY <1>3, <2>1, <3>1
  <2>3. hits \in SUBSET (0 .. i - 2)
    BY <2>1, <2>2
  <2>4. IsFiniteSet(0 .. i - 2) /\ Cardinality(0 .. i - 2) = IF 0 > i - 2 THEN 0 ELSE i - 2 - 0 + 1
    BY <2>1, FS_Interval
  <2> HIDE DEF hits
  <2>5. length <= Cardinality(0 .. i - 2)
    BY <2>3, <2>4, FS_Subset DEF length
  <2> QED BY <1>5, <2>1, <2>4, <2>5
<1>7. Chain(fat, first) = [i \in 1 .. length |-> at[i - 1]]
  BY DEF Chain, at
<1> HIDE DEF length
<1> QED BY <1>5, <1>6, <1>7

\* The places of whatever is listed as a directory hold records.
LEMMA AnyPlaces ==
  ASSUME NEW d \in Disk, NEW c \in 0 .. MaxCluster
  PROVE  Places(d, c) \in Seq(Place) /\ \A p \in ToSet(Places(d, c)) : At(d, p) \in Record
<1>1. CASE c = Root
  <2>1. \A p \in ToSet(Places(d, Root)) : \E i \in 1 .. RootEntries : p = <<Root, i>>
    BY RootPlaces
  <2>2. \A i \in 1 .. RootEntries : At(d, <<Root, i>>) \in Record
    BY DEF At, Disk
  <2> QED BY <1>1, <2>1, <2>2, RootPlaces
<1>2. CASE c # Root
  <2> DEFINE chain == Chain(Loaded(d), c)
  <2>1. chain \in Seq(Clusters)
    BY LoadedFat, ChainListed
  <2> HIDE DEF chain
  <2>2. /\ Places(d, c) \in Seq(Place)
        /\ \A p : p \in ToSet(Places(d, c)) <=>
               \E b \in ToSet(chain) : \E i \in Records(d.data[b]) : p = <<b, i>>
    BY <1>2, <2>1, FolderPlaces DEF chain
  <2>3. ASSUME NEW p \in ToSet(Places(d, c)) PROVE At(d, p) \in Record
    <3>1. PICK b \in ToSet(chain) : \E i \in Records(d.data[b]) : p = <<b, i>>
      BY <2>2
    <3>2. PICK i \in Records(d.data[b]) : p = <<b, i>>
      BY <3>1
    <3>3. b \in Clusters
      <4>1. PICK k \in DOMAIN chain : b = chain[k]
        BY DEF ToSet
      <4> QED BY <2>1, <4>1
    <3>4. d.data[b] \in Block
      BY <3>3 DEF Disk
    <3>5. b # Root
      BY <3>3 DEF Clusters, Root
    <3>6. d.data[b].records[i] \in Record
      <4>1. d.data[b].kind = "dir"
        BY <3>2 DEF Records
      <4>2. d.data[b].records \in Seq(Record) /\ Records(d.data[b]) = 1 .. Len(d.data[b].records)
        BY <3>4, <4>1, RecordsCounted
      <4> QED BY <3>2, <4>2
    <3>7. At(d, p) = d.data[b].records[i]
      BY <3>2, <3>5 DEF At
    <3> QED BY <3>6, <3>7
  <2> QED BY <2>2, <2>3
<1> QED BY <1>1, <1>2

\* One level of Inside(): the entries of a directory, each after what is in it.
Share(d, c, before, p) ==
    IF p \notin Entries(d, c) THEN <<>>
    ELSE IF At(d, p).dir THEN Append(before[At(d, p).first], p)
    ELSE <<p>>
Shares(d, c, before) == [k \in DOMAIN Places(d, c) |-> Share(d, c, before, Places(d, c)[k])]
Lists == [0 .. MaxCluster -> Seq(Place)]

\* One level of the walk gives each place of a directory its list.
LEMMA SharesAre ==
  ASSUME NEW d \in Disk, NEW c \in 0 .. MaxCluster, NEW before \in Lists
  PROVE  /\ Shares(d, c, before) \in Seq(Seq(Place))
         /\ Len(Shares(d, c, before)) = Len(Places(d, c))
         /\ \A k \in 1 .. Len(Places(d, c)) : Shares(d, c, before)[k] =
                Share(d, c, before, Places(d, c)[k])
         /\ FlattenSeq(Shares(d, c, before)) \in Seq(Place)
<1>1. Places(d, c) \in Seq(Place) /\ \A p \in ToSet(Places(d, c)) : At(d, p) \in Record
  BY AnyPlaces
<1>2. DOMAIN Places(d, c) = 1 .. Len(Places(d, c)) /\ Len(Places(d, c)) \in Nat
  BY <1>1
<1>3. ASSUME NEW k \in 1 .. Len(Places(d, c))
      PROVE  Share(d, c, before, Places(d, c)[k]) \in Seq(Place)
  <2> DEFINE p == Places(d, c)[k]
  <2>1. p \in Place /\ p \in ToSet(Places(d, c))
    BY <1>1, <1>2 DEF ToSet
  <2> HIDE DEF p
  <2>2. At(d, p).first \in 0 .. MaxCluster
    BY <1>1, <2>1 DEF Record
  <2>3. before[At(d, p).first] \in Seq(Place)
    BY <2>2 DEF Lists
  <2>4. <<>> \in Seq(Place) /\ <<p>> \in Seq(Place)
    BY <2>1
  <2>5. Append(before[At(d, p).first], p) \in Seq(Place)
    BY <2>1, <2>3
  <2>6. Share(d, c, before, p) \in Seq(Place)
    BY <2>4, <2>5 DEF Share
  <2> QED BY <2>6 DEF p
<1>4. Shares(d, c, before) \in [1 .. Len(Places(d, c)) -> Seq(Place)]
  BY <1>2, <1>3 DEF Shares
<1>5. Shares(d, c, before) \in Seq(Seq(Place)) /\ Len(Shares(d, c, before)) = Len(Places(d, c))
  BY <1>2, <1>4
<1>6. FlattenSeq(Shares(d, c, before)) \in Seq(Place)
  BY <1>5, FlattenedSet
<1>7. \A k \in 1 .. Len(Places(d, c)) : Shares(d, c, before)[k] =
          Share(d, c, before, Places(d, c)[k])
  BY <1>2 DEF Shares
<1> QED BY <1>5, <1>6, <1>7

\* Inside() goes down the folders level by level.
Levels(d, below) ==
    /\ below \in [0 .. MaxCluster -> Lists]
    /\ below[0] = [c \in 0 .. MaxCluster |-> <<>>]
    /\ \A n \in 1 .. MaxCluster :
          below[n] = [c \in 0 .. MaxCluster |-> FlattenSeq(Shares(d, c, below[n - 1]))]
    /\ \A c \in 0 .. MaxCluster : Inside(d, c) = below[MaxCluster][c]

\* The walk of a folder ends: level by level, at most as deep as there are clusters.
LEMMA InsideLevels ==
  ASSUME NEW d \in Disk
  PROVE  \E below : Levels(d, below)
<1> DEFINE level(before) == [c \in 0 .. MaxCluster |-> FlattenSeq(Shares(d, c, before))]
           none == [c \in 0 .. MaxCluster |-> <<>>]
           step == [nb \in (1 .. MaxCluster) \X Lists |-> level(nb[2])]
           Downward(g) == g = [n \in 0 .. MaxCluster |->
                [c \in 0 .. MaxCluster |->
                    IF n = 0 THEN <<>> ELSE FlattenSeq(Shares(d, c, g[n - 1]))]]
           below == CHOOSE g : Downward(g)
<1>1. MaxCluster \in Nat
  BY SizeAssumption
<1>2. none \in Lists
  BY DEF Lists
<1>3. \A before \in Lists : level(before) \in Lists
  BY SharesAre DEF Lists
<1> HIDE DEF level
<1>4. step \in [(1 .. MaxCluster) \X Lists -> Lists]
  BY <1>3
<1> HIDE DEF step, none
<1>5. PICK f \in [0 .. MaxCluster -> Lists] :
        f[0] = none /\ \A n \in 1 .. MaxCluster : f[n] = step[<<n, f[n - 1]>>]
  <2>1. HasSteps(MaxCluster, Lists, none, step)
    BY <1>1, <1>2, <1>4, StepsExist
  <2> QED BY <2>1 DEF HasSteps
<1>6. ASSUME NEW n \in 1 .. MaxCluster PROVE f[n] = level(f[n - 1])
  <2>1. f[n - 1] \in Lists
    BY <1>1, <1>5
  <2> QED BY <1>5, <2>1 DEF step
<1>7. \A c : Inside(d, c) = below[MaxCluster][c]
  BY DEF Inside, Shares, Share
<1> HIDE DEF Downward
<1>8. Downward(f)
  <2>1. ASSUME NEW n \in 0 .. MaxCluster
        PROVE  f[n] = [c \in 0 .. MaxCluster |->
                        IF n = 0 THEN <<>> ELSE FlattenSeq(Shares(d, c, f[n - 1]))]
    <3>1. CASE n = 0
      BY <1>5, <3>1 DEF none
    <3>2. CASE n # 0
      <4>1. n \in 1 .. MaxCluster
        BY <1>1, <3>2
      <4> QED BY <1>6, <3>2, <4>1 DEF level
    <3> QED BY <3>1, <3>2
  <2>2. f = [n \in 0 .. MaxCluster |->
                [c \in 0 .. MaxCluster |->
                    IF n = 0 THEN <<>> ELSE FlattenSeq(Shares(d, c, f[n - 1]))]]
    BY <1>5, <2>1
  <2> QED BY <2>2 DEF Downward
<1>9. Downward(below)
  BY <1>8
<1> HIDE DEF below
<1>10. below = [n \in 0 .. MaxCluster |->
                [c \in 0 .. MaxCluster |->
                    IF n = 0 THEN <<>> ELSE FlattenSeq(Shares(d, c, below[n - 1]))]]
  BY <1>9 DEF Downward
<1>11. below[0] = none
  <2>1. 0 \in 0 .. MaxCluster
    BY <1>1
  <2>2. below[0] = [c \in 0 .. MaxCluster |->
            IF 0 = 0 THEN <<>> ELSE FlattenSeq(Shares(d, c, below[0 - 1]))]
    BY <1>10, <2>1
  <2> QED BY <2>2 DEF none
<1>12. ASSUME NEW n \in 1 .. MaxCluster PROVE below[n] = level(below[n - 1])
  <2>1. n \in 0 .. MaxCluster /\ n # 0
    BY <1>1
  <2>2. below[n] = [c \in 0 .. MaxCluster |->
            IF n = 0 THEN <<>> ELSE FlattenSeq(Shares(d, c, below[n - 1]))]
    BY <1>10, <2>1
  <2> QED BY <2>1, <2>2 DEF level
<1>13. \A n \in 0 .. MaxCluster : f[n] = below[n]
  <2>1. f[0] = below[0]
    BY <1>5, <1>11
  <2>2. \A n \in 1 .. MaxCluster : f[n - 1] = below[n - 1] => f[n] = below[n]
    BY <1>6, <1>12
  <2> DEFINE T == {n \in 0 .. MaxCluster : f[n] = below[n]}
  <2>3. 0 \in T
    BY <1>1, <2>1
  <2>4. ASSUME NEW k \in 0 .. MaxCluster - 1, k \in T PROVE k + 1 \in T
    <3>1. k + 1 \in 1 .. MaxCluster /\ k + 1 \in 0 .. MaxCluster /\ (k + 1) - 1 = k
      BY <1>1
    <3>2. f[k] = below[k]
      BY <2>4
    <3>3. f[k + 1] = below[k + 1]
      BY <2>2, <3>1, <3>2
    <3> QED BY <3>1, <3>3
  <2> HIDE DEF T
  <2>5. \A n \in 0 .. MaxCluster : n \in T
    BY <1>1, <2>3, <2>4, UpTo
  <2> QED BY <2>5 DEF T
<1>14. below \in [0 .. MaxCluster -> Lists]
  BY <1>5, <1>10, <1>13
<1>15. Levels(d, below)
  BY <1>7, <1>11, <1>12, <1>14 DEF Levels, level, none
<1> QED BY <1>15

\* What is in a folder comes before the folder.
Before(d) == {x \in Place \X Place : At(d, x[2]).dir /\ x[1] \in Entries(d, At(d, x[2]).first)}

\* A list of what is in a folder and below it; where n levels are enough it has
\* everything, in an order in which it can be deleted.
Below(d, folders, paths, c, p) ==
    \E g \in folders : IsPrefix(paths[c], paths[g]) /\ p \in Entries(d, g)
Listed(d, folders, paths, c, n, list) ==
    /\ list \in Seq(Place)
    /\ \A i, j \in DOMAIN list : list[i] = list[j] => i = j
    /\ \A p \in ToSet(list) : Below(d, folders, paths, c, p)
    /\ Len(paths[c]) + n > MaxCluster =>
          Entries(d, c) \subseteq ToSet(list) /\ Ordered(list, Before(d))

\* An entry is not below the folder it is of.
LEMMA NotInItself ==
  ASSUME NEW d, NEW folders, NEW paths, LaidOut(d, folders, paths), NEW c \in folders,
         NEW p \in Entries(d, c), NEW q \in Entries(d, c), At(d, p).dir
  PROVE  ~ Below(d, folders, paths, At(d, p).first, q)
<1> SUFFICES ASSUME Below(d, folders, paths, At(d, p).first, q) PROVE FALSE
  OBVIOUS
<1>1. PICK g \in folders : IsPrefix(paths[At(d, p).first], paths[g]) /\ q \in Entries(d, g)
  BY DEF Below
<1>2. g = c
  BY <1>1, ObjectPlace
<1>3. paths[At(d, p).first] = Append(paths[c], At(d, p).name)
  BY ParentIs
<1>4. paths[c] \in Seq(Names) /\ At(d, p).name \in Names
  BY LaidEntry DEF LaidOut, EntryIs
<1> QED BY <1>1, <1>2, <1>3, <1>4, NotItsOwn

\* What is below a folder is below the one it is in.
LEMMA BelowAbove ==
  ASSUME NEW d, NEW folders, NEW paths, LaidOut(d, folders, paths), NEW c \in folders,
         NEW p \in Entries(d, c), At(d, p).dir, NEW q, Below(d, folders, paths, At(d, p).first, q)
  PROVE  Below(d, folders, paths, c, q)
<1>1. PICK g \in folders : IsPrefix(paths[At(d, p).first], paths[g]) /\ q \in Entries(d, g)
  BY DEF Below
<1>2. paths[At(d, p).first] = Append(paths[c], At(d, p).name)
  BY ParentIs
<1>3. paths[c] \in Seq(Names) /\ At(d, p).name \in Names /\ paths[g] \in Seq(Names)
  BY LaidEntry DEF LaidOut, EntryIs
<1> DEFINE s == paths[c]
           t == Append(s, At(d, p).name)
           u == paths[g]
<1>4. t \in Seq(Names) /\ Len(t) = Len(s) + 1 /\ \A i \in 1 .. Len(s) : t[i] = s[i]
  BY <1>3
<1>5. Len(t) <= Len(u) /\ \A i \in 1 .. Len(t) : t[i] = u[i]
  <2>1. IsPrefix(t, u) /\ u \in Seq(Names)
    BY <1>1, <1>2, <1>3
  <2> HIDE DEF t, u
  <2>2. t \in Seq(Names)
    BY <1>4
  <2> QED BY <2>1, <2>2, PrefixIs
<1> HIDE DEF t
<1>6. Len(s) <= Len(u) /\ \A i \in 1 .. Len(s) : s[i] = u[i]
  <2>1. Len(s) \in Nat /\ Len(u) \in Nat
    BY <1>3
  <2>2. Len(s) <= Len(u) /\ \A i \in 1 .. Len(s) : i \in 1 .. Len(t)
    BY <1>4, <1>5, <2>1
  <2> QED BY <1>4, <1>5, <2>2
<1>7. IsPrefix(s, u)
  BY <1>3, <1>6, PrefixIs
<1> QED BY <1>1, <1>7 DEF Below

\* Nothing is below two folders of one folder.
LEMMA BelowOne ==
  ASSUME NEW d, NEW folders, NEW paths, LaidOut(d, folders, paths), NEW c \in folders,
         NEW p \in Entries(d, c), NEW q \in Entries(d, c), At(d, p).dir, At(d, q).dir, p # q, NEW x,
         Below(d, folders, paths, At(d, p).first, x)
  PROVE  ~ Below(d, folders, paths, At(d, q).first, x)
<1> SUFFICES ASSUME Below(d, folders, paths, At(d, q).first, x) PROVE FALSE
  OBVIOUS
<1>1. PICK g \in folders : IsPrefix(paths[At(d, p).first], paths[g]) /\ x \in Entries(d, g)
  BY DEF Below
<1>2. PICK h \in folders : IsPrefix(paths[At(d, q).first], paths[h]) /\ x \in Entries(d, h)
  BY DEF Below
<1>3. g = h
  BY <1>1, <1>2, ObjectPlace
<1>4. /\ paths[At(d, p).first] = Append(paths[c], At(d, p).name)
      /\ paths[At(d, q).first] = Append(paths[c], At(d, q).name)
  BY ParentIs
<1>5. /\ paths[c] \in Seq(Names) /\ At(d, p).name \in Names /\ paths[g] \in Seq(Names)
      /\ At(d, q).name \in Names
  BY LaidEntry DEF LaidOut, EntryIs
<1> DEFINE s == paths[c]
           t == Append(s, At(d, p).name)
           v == Append(s, At(d, q).name)
<1>6. /\ t \in Seq(Names) /\ Len(t) = Len(s) + 1 /\ t[Len(s) + 1] = At(d, p).name
      /\ v \in Seq(Names) /\ Len(v) = Len(s) + 1 /\ v[Len(s) + 1] = At(d, q).name
      /\ Len(s) + 1 \in 1 .. Len(s) + 1
  BY <1>5
<1>7. /\ \A i \in 1 .. Len(t) : t[i] = paths[g][i]
      /\ \A i \in 1 .. Len(v) : v[i] = paths[g][i]
  <2>1. IsPrefix(t, paths[g]) /\ IsPrefix(v, paths[g]) /\ paths[g] \in Seq(Names)
    BY <1>1, <1>2, <1>3, <1>4, <1>5
  <2> HIDE DEF t, v
  <2> QED BY <1>6, <2>1, PrefixIs
<1> HIDE DEF t, v
<1>8. At(d, p).name = At(d, q).name
  BY <1>6, <1>7
<1> QED BY <1>8, LaidApart

\* What one entry adds to the list.
ShareListed(d, folders, paths, c, n, p, list) ==
    /\ list \in Seq(Place)
    /\ \A i, j \in DOMAIN list : list[i] = list[j] => i = j
    /\ \A x \in ToSet(list) : p \in Entries(d, c) /\ Below(d, folders, paths, c, x)
    /\ \A x \in ToSet(list) :
          x # p => At(d, p).dir /\ Below(d, folders, paths, At(d, p).first, x)
    /\ Len(paths[c]) + n > MaxCluster =>
          (p \in Entries(d, c) => p \in ToSet(list)) /\ Ordered(list, Before(d))

\* Nothing is in a list without elements twice, and it is ordered.
LEMMA EmptyShare ==
  ASSUME NEW d, NEW folders, NEW paths, NEW c, NEW n, NEW p, p \notin Entries(d, c)
  PROVE  ShareListed(d, folders, paths, c, n, p, <<>>)
<1>1. <<>> \in Seq(Place) /\ ToSet(<<>>) = {} /\ Len(<<>>) = 0
  BY EmptyList
<1> DEFINE list == <<>>
<1> HIDE DEF list
<1>2. list \in Seq(Place) /\ ToSet(list) = {} /\ Len(list) = 0
  BY <1>1 DEF list
<1>3. DOMAIN list = {} /\ 1 .. Len(list) = {}
  BY <1>2
<1>4. Ordered(list, Before(d))
  BY <1>3 DEF Ordered
<1>5. ShareListed(d, folders, paths, c, n, p, list)
  BY <1>2, <1>3, <1>4 DEF ShareListed
<1> QED BY <1>5 DEF list

\* A folder comes after what is in it.
LEMMA ShareIs ==
  ASSUME NEW d, NEW folders, NEW paths, LaidOut(d, folders, paths), NEW c \in folders,
         NEW n \in Nat, NEW before,
         \A a \in folders : Listed(d, folders, paths, a, n, before[a]),
         NEW p \in Place
  PROVE  ShareListed(d, folders, paths, c, n + 1, p, Share(d, c, before, p))
<1>1. CASE p \notin Entries(d, c)
  BY <1>1, EmptyShare DEF Share
<1>2. CASE p \in Entries(d, c) /\ ~ At(d, p).dir
  <2> DEFINE list == <<p>>
  <2>1. list \in Seq(Place) /\ Len(list) = 1 /\ list[1] = p /\ ToSet(list) = {p}
    BY OneListed
  <2>2. Share(d, c, before, p) = list
    BY <1>2 DEF Share
  <2> HIDE DEF list
  <2>3. \A i, j \in DOMAIN list : list[i] = list[j] => i = j
    BY <2>1
  <2>4. Below(d, folders, paths, c, p)
    <3>1. paths[c] \in Seq(Names)
      BY DEF LaidOut
    <3>2. IsPrefix(paths[c], paths[c])
      BY <3>1, PrefixIs
    <3> QED BY <1>2, <3>2 DEF Below
  <2>5. Ordered(list, Before(d))
    <3>1. \A x : <<x, p>> \notin Before(d)
      BY <1>2 DEF Before
    <3> QED BY <2>1, <3>1 DEF Ordered
  <2> QED BY <1>2, <2>1, <2>2, <2>3, <2>4, <2>5 DEF ShareListed
<1>3. CASE p \in Entries(d, c) /\ At(d, p).dir
  <2> DEFINE f == At(d, p).first
             inner == before[f]
             list == Append(inner, p)
  <2>1. f \in folders /\ paths[f] = Append(paths[c], At(d, p).name)
    BY <1>3, ParentIs
  <2>2. Listed(d, folders, paths, f, n, inner)
    BY <2>1
  <2> HIDE DEF inner
  <2>3. /\ inner \in Seq(Place)
        /\ \A i, j \in DOMAIN inner : inner[i] = inner[j] => i = j
        /\ \A x \in ToSet(inner) : Below(d, folders, paths, f, x)
        /\ Len(paths[f]) + n > MaxCluster =>
              Entries(d, f) \subseteq ToSet(inner) /\ Ordered(inner, Before(d))
    BY <2>2 DEF Listed
  <2>4. /\ list \in Seq(Place) /\ Len(list) = Len(inner) + 1 /\ list[Len(inner) + 1] = p
        /\ \A i \in 1 .. Len(inner) : list[i] = inner[i]
        /\ Len(inner) \in Nat /\ DOMAIN inner = 1 .. Len(inner)
    BY <2>3
  <2>5. Share(d, c, before, p) = list
    BY <1>3 DEF Share, inner
  <2>6. p \notin ToSet(inner)
    <3>1. ~ Below(d, folders, paths, f, p)
      BY <1>3, NotInItself
    <3> QED BY <2>3, <3>1
  <2> HIDE DEF list
  <2>7. \A x : x \in ToSet(list) <=> x = p \/ x \in ToSet(inner)
    <3>1. DOMAIN list = 1 .. Len(inner) + 1
      BY <2>4
    <3>2. \A i \in 1 .. Len(inner) + 1 : i = Len(inner) + 1 \/ i \in 1 .. Len(inner)
      BY <2>4
    <3>3. \A i \in 1 .. Len(inner) : i \in 1 .. Len(inner) + 1
      BY <2>4
    <3>4. Len(inner) + 1 \in 1 .. Len(inner) + 1
      BY <2>4
    <3> QED BY <2>4, <3>1, <3>2, <3>3, <3>4 DEF ToSet
  <2>8. ASSUME NEW i \in DOMAIN list, NEW j \in DOMAIN list, list[i] = list[j] PROVE i = j
    <3>1. \A k \in DOMAIN list : k = Len(inner) + 1 \/ k \in 1 .. Len(inner)
      BY <2>4
    <3>2. \A k \in 1 .. Len(inner) : list[k] # p
      BY <2>4, <2>6 DEF ToSet
    <3> QED BY <2>3, <2>4, <2>8, <3>1, <3>2
  <2>9. \A x \in ToSet(list) : Below(d, folders, paths, c, x)
    <3>1. paths[c] \in Seq(Names)
      BY DEF LaidOut
    <3>2. IsPrefix(paths[c], paths[c])
      BY <3>1, PrefixIs
    <3>3. Below(d, folders, paths, c, p)
      BY <1>3, <3>2 DEF Below
    <3> QED BY <1>3, <2>3, <2>7, <3>3, BelowAbove
  <2>10. ASSUME Len(paths[c]) + (n + 1) > MaxCluster PROVE Ordered(list, Before(d))
    <3>1. Len(paths[f]) = Len(paths[c]) + 1 /\ Len(paths[c]) \in Nat /\ MaxCluster \in Nat
      <4>1. paths[c] \in Seq(Names) /\ At(d, p).name \in Names
        BY <1>3, LaidEntry DEF LaidOut, EntryIs
      <4> QED BY <2>1, <4>1, SizeAssumption
    <3>2. Entries(d, f) \subseteq ToSet(inner) /\ Ordered(inner, Before(d))
      <4>1. Len(paths[f]) + n > MaxCluster
        <5>1. \A a, b \in Nat : a + (n + 1) > b => (a + 1) + n > b
          OBVIOUS
        <5> QED BY <2>10, <3>1, <5>1
      <4> QED BY <2>3, <4>1
    <3>3. \A x : <<x, p>> \in Before(d) => x \in ToSet(inner)
      BY <3>2 DEF Before
    <3> QED BY <2>3, <3>2, <3>3, AppendOrdered DEF list
  <2>11. ShareListed(d, folders, paths, c, n + 1, p, list)
    BY <1>3, <2>3, <2>4, <2>7, <2>8, <2>9, <2>10 DEF ShareListed
  <2> QED BY <2>5, <2>11
<1> QED BY <1>1, <1>2, <1>3

\* One more level of Inside().
LEMMA ListedLevel ==
  ASSUME NEW d, NEW folders, NEW paths, LaidOut(d, folders, paths), NEW c \in folders,
         NEW n \in Nat, NEW before \in Lists,
         \A a \in folders : Listed(d, folders, paths, a, n, before[a])
  PROVE  Listed(d, folders, paths, c, n + 1, FlattenSeq(Shares(d, c, before)))
<1> DEFINE lists == Shares(d, c, before)
           places == Places(d, c)
           flat == FlattenSeq(lists)
<1>1. d \in Disk /\ c \in 0 .. MaxCluster
  BY DEF LaidOut
<1>2. /\ lists \in Seq(Seq(Place)) /\ Len(lists) = Len(places)
      /\ \A k \in 1 .. Len(places) : lists[k] = Share(d, c, before, places[k])
      /\ flat \in Seq(Place)
  BY <1>1, SharesAre
<1>3. /\ places \in Seq(Place)
      /\ \A i, j \in DOMAIN places : places[i] = places[j] => i = j
  BY LaidPlaces DEF PlacesKnown
<1>4. \A p : p \in Entries(d, c) => p \in ToSet(places)
  BY LaidPlaces
<1> HIDE DEF lists, places
<1>5. Len(places) \in Nat /\ DOMAIN places = 1 .. Len(places)
  BY <1>3
<1>6. ASSUME NEW k \in 1 .. Len(places)
      PROVE  ShareListed(d, folders, paths, c, n + 1, places[k], lists[k])
  <2>1. places[k] \in Place
    BY <1>3, <1>5
  <2>2. ShareListed(d, folders, paths, c, n + 1, places[k], Share(d, c, before, places[k]))
    BY <2>1, ShareIs
  <2> QED BY <1>2, <2>2
<1>7. ASSUME NEW k \in 1 .. Len(places), NEW l \in 1 .. Len(places), k # l
      PROVE  ToSet(lists[k]) \cap ToSet(lists[l]) = {}
  <2> SUFFICES ASSUME NEW x \in ToSet(lists[k]), x \in ToSet(lists[l]) PROVE FALSE
    OBVIOUS
  <2> DEFINE p == places[k]
             q == places[l]
  <2>1. p # q
    BY <1>3, <1>5, <1>7
  <2>2. /\ p \in Entries(d, c)
        /\ x # p => At(d, p).dir /\ Below(d, folders, paths, At(d, p).first, x)
    BY <1>6 DEF ShareListed
  <2>3. /\ q \in Entries(d, c)
        /\ x # q => At(d, q).dir /\ Below(d, folders, paths, At(d, q).first, x)
    BY <1>6 DEF ShareListed
  <2> HIDE DEF p, q
  <2>4. CASE x = p
    BY <2>1, <2>2, <2>3, <2>4, NotInItself
  <2>5. CASE x = q
    BY <2>1, <2>2, <2>3, <2>5, NotInItself
  <2>6. CASE x # p /\ x # q
    BY <2>1, <2>2, <2>3, <2>6, BelowOne
  <2> QED BY <2>4, <2>5, <2>6
<1>8. ASSUME NEW k \in 1 .. Len(lists), NEW i \in 1 .. Len(lists[k]), NEW j \in 1 .. Len(lists[k]),
             lists[k][i] = lists[k][j]
      PROVE  i = j
  <2>1. ShareListed(d, folders, paths, c, n + 1, places[k], lists[k])
    BY <1>2, <1>6
  <2>2. lists[k] \in Seq(Place) /\ \A a, b \in DOMAIN lists[k] : lists[k][a] = lists[k][b] => a = b
    BY <2>1 DEF ShareListed
  <2>3. DOMAIN lists[k] = 1 .. Len(lists[k])
    BY <2>2
  <2> QED BY <1>8, <2>2, <2>3
<1>9. \A i, j \in DOMAIN flat : flat[i] = flat[j] => i = j
  BY <1>2, <1>7, <1>8, FlattenedOnce
<1>10. \A x : x \in ToSet(flat) <=> \E k \in 1 .. Len(lists) : x \in ToSet(lists[k])
  BY <1>2, FlattenedSet
<1>11. ASSUME NEW x \in ToSet(flat) PROVE Below(d, folders, paths, c, x)
  <2>1. PICK k \in 1 .. Len(lists) : x \in ToSet(lists[k])
    BY <1>10
  <2>2. ShareListed(d, folders, paths, c, n + 1, places[k], lists[k])
    BY <1>2, <1>6
  <2> QED BY <2>1, <2>2 DEF ShareListed
<1>12. ASSUME Len(paths[c]) + (n + 1) > MaxCluster
       PROVE  Entries(d, c) \subseteq ToSet(flat) /\ Ordered(flat, Before(d))
  <2>1. ASSUME NEW k \in 1 .. Len(lists)
        PROVE  (places[k] \in Entries(d, c) => places[k] \in ToSet(lists[k]))
                   /\ Ordered(lists[k], Before(d))
    <3>1. ShareListed(d, folders, paths, c, n + 1, places[k], lists[k])
      BY <1>2, <1>6
    <3> QED BY <1>12, <3>1 DEF ShareListed
  <2>2. Ordered(flat, Before(d))
    BY <1>2, <2>1, FlattenedOrdered
  <2>3. ASSUME NEW p \in Entries(d, c) PROVE p \in ToSet(flat)
    <3>1. PICK k \in DOMAIN places : p = places[k]
      BY <1>4 DEF ToSet
    <3> QED BY <1>2, <1>5, <1>10, <2>1, <3>1
  <2> QED BY <2>2, <2>3
<1> QED BY <1>2, <1>9, <1>11, <1>12 DEF Listed, lists

\* Inside() lists what is in a folder and below it, each once, and what is in a
\* folder before the folder.
LEMMA InsideListed ==
  ASSUME NEW d, NEW folders, NEW paths, LaidOut(d, folders, paths), NEW c \in folders
  PROVE  Listed(d, folders, paths, c, MaxCluster, Inside(d, c))
<1>1. d \in Disk /\ MaxCluster \in Nat /\ folders \subseteq 0 .. MaxCluster
  BY SizeAssumption DEF LaidOut
<1>2. PICK below : Levels(d, below)
  BY <1>1, InsideLevels
<1>3. /\ below \in [0 .. MaxCluster -> Lists]
      /\ below[0] = [a \in 0 .. MaxCluster |-> <<>>]
      /\ \A n \in 1 .. MaxCluster :
            below[n] = [a \in 0 .. MaxCluster |-> FlattenSeq(Shares(d, a, below[n - 1]))]
      /\ \A a \in 0 .. MaxCluster : Inside(d, a) = below[MaxCluster][a]
  BY <1>2 DEF Levels
<1> DEFINE T == {n \in 0 .. MaxCluster : \A a \in folders :
               Listed(d, folders, paths, a, n, below[n][a])}
<1>4. 0 \in T
  <2>1. ASSUME NEW a \in folders PROVE Listed(d, folders, paths, a, 0, below[0][a])
    <3>1. below[0][a] = <<>>
      BY <1>1, <1>3
    <3>2. Len(paths[a]) \in 0 .. MaxCluster
      BY PathsShort
    <3>3. ~(Len(paths[a]) + 0 > MaxCluster)
      BY <1>1, <3>2
    <3> DEFINE list == below[0][a]
    <3>4. list \in Seq(Place) /\ ToSet(list) = {} /\ Len(list) = 0
      <4>1. <<>> \in Seq(Place) /\ ToSet(<<>>) = {} /\ Len(<<>>) = 0
        BY EmptyList
      <4> QED BY <3>1, <4>1
    <3> HIDE DEF list
    <3>5. DOMAIN list = {}
      BY <3>4
    <3>6. Listed(d, folders, paths, a, 0, list)
      BY <3>3, <3>4, <3>5 DEF Listed
    <3> QED BY <3>6 DEF list
  <2> QED BY <1>1, <2>1
<1>5. ASSUME NEW n \in 0 .. MaxCluster - 1, n \in T PROVE n + 1 \in T
  <2>1. n \in Nat /\ n + 1 \in 1 .. MaxCluster /\ n + 1 \in 0 .. MaxCluster /\ (n + 1) - 1 = n
        /\ n \in 0 .. MaxCluster
    BY <1>1
  <2>2. below[n] \in Lists /\ \A a \in folders : Listed(d, folders, paths, a, n, below[n][a])
    BY <1>3, <1>5, <2>1
  <2>3. ASSUME NEW a \in folders PROVE Listed(d, folders, paths, a, n + 1, below[n + 1][a])
    <3>1. below[n + 1][a] = FlattenSeq(Shares(d, a, below[n]))
      BY <1>1, <1>3, <2>1
    <3>2. Listed(d, folders, paths, a, n + 1, FlattenSeq(Shares(d, a, below[n])))
      BY <2>1, <2>2, ListedLevel
    <3> QED BY <3>1, <3>2
  <2> QED BY <2>1, <2>3
<1> HIDE DEF T
<1>6. 0 .. MaxCluster \subseteq T
  BY <1>1, <1>4, <1>5, UpTo
<1>7. MaxCluster \in T
  BY <1>1, <1>6
<1> QED BY <1>1, <1>3, <1>7 DEF T

(***************************************************************************)
(* Defragmenting.                                                          *)
(***************************************************************************)

\* A file has its record, its chain and its content still.
Intact(d, e, p) ==
    /\ At(e, p) = At(d, p)
    /\ Chain(Loaded(e), At(d, p).first) = Chain(Loaded(d), At(d, p).first)
    /\ \A b \in Claimed(d, p) : e.data[b] = d.data[b]

\* A file that is intact after each of two changes is intact after both.
LEMMA IntactAfter ==
  ASSUME NEW d, NEW e, NEW f, NEW p, Intact(d, e, p), Intact(e, f, p)
  PROVE  Intact(d, f, p)
<1>1. At(e, p) = At(d, p) /\ At(f, p) = At(e, p)
  BY DEF Intact
<1>2. Claimed(e, p) = Claimed(d, p)
  BY <1>1 DEF Intact, Claimed
<1>3. \A b \in Claimed(d, p) : f.data[b] = d.data[b]
  BY <1>2 DEF Intact
<1> QED BY <1>1, <1>3 DEF Intact

\* A file is intact when another one got other clusters.
LEMMA RewriteKeeps ==
  ASSUME NEW d, NEW e, NEW folders, NEW paths, NEW dir, NEW place, NEW record, NEW chain,
         NEW blocks, NEW fat,
         Rewrites(d, e, folders, paths, dir, place, record, chain, blocks, fat),
         NEW home \in folders, NEW q \in Entries(d, home), ~ At(d, q).dir, q # place
  PROVE  Intact(d, e, q)
<1>1. /\ LaidOut(d, folders, paths) /\ dir \in folders /\ place \in Entries(d, dir)
             /\ ~ At(d, place).dir
      /\ chain \in Seq(Clusters)
      /\ \A c \in ToSet(chain) : c \in Used(d, folders) => c \in Claimed(d, place)
      /\ fat \in Fat
      /\ \A c \in Used(d, folders) : c \notin Claimed(d, place) => fat[c] = Loaded(d)[c]
  BY DEF Rewrites
<1>2. ContentIsSet(d, e, chain, blocks, fat, place, record)
  BY DEF Rewrites
<1>3. /\ Loaded(e) = fat
      /\ \A p : Spot(d, p) /\ p # place /\ p[1] \notin ToSet(chain) => At(e, p) = At(d, p)
      /\ DataLike(d, e, Clusters \ ToSet(chain))
  BY <1>2 DEF ContentIsSet
<1>4. d \in Disk /\ Loaded(d) \in Fat
  BY <1>1, LoadedFat DEF LaidOut
<1>5. q \in ToSet(Places(d, home)) /\ Spot(d, q)
  BY <1>1, EntryReached, SpotOf
<1>6. q[1] \notin ToSet(chain)
  <2>1. CASE q[1] = Root
    <3>1. \A c \in ToSet(chain) : c \in Clusters
      <4> SUFFICES ASSUME NEW c \in ToSet(chain) PROVE c \in Clusters
        OBVIOUS
      <4>1. PICK i \in DOMAIN chain : c = chain[i]
        BY DEF ToSet
      <4> QED BY <1>1, <4>1
    <3>2. Root \notin Clusters
      BY DEF Root, Clusters
    <3> QED BY <2>1, <3>1, <3>2
  <2>2. CASE q[1] # Root
    <3>1. q[1] \in Used(d, folders) /\ q[1] \notin Claimed(d, place)
      BY <1>1, <1>5, <2>2, PlaceApart
    <3> QED BY <1>1, <3>1
  <2> QED BY <2>1, <2>2
<1>7. At(e, q) = At(d, q)
  BY <1>3, <1>5, <1>6
<1>8. EntryIs(d, folders, q)
  BY <1>1, LaidEntry
<1>9. ASSUME NEW b \in Claimed(d, q)
      PROVE  b \in Clusters /\ b \notin ToSet(chain) /\ fat[b] = Loaded(d)[b]
  <2>1. b \in Used(d, folders) /\ b \in Clusters
    BY <1>8 DEF EntryIs
  <2>2. b \notin Claimed(d, place)
    BY <1>1, LaidApart
  <2> QED BY <1>1, <2>1, <2>2
<1>10. Chain(fat, At(d, q).first) = Chain(Loaded(d), At(d, q).first)
  <2>1. CASE At(d, q).first = 0
    BY <1>1, <1>4, <2>1, NoChain
  <2>2. CASE Chained(Loaded(d), At(d, q).first)
    <3>1. \A b \in ToSet(Chain(Loaded(d), At(d, q).first)) : fat[b] = Loaded(d)[b]
      BY <1>9 DEF Claimed
    <3> QED BY <1>1, <1>4, <2>2, <3>1, ChainKept
  <2> QED BY <1>8, <2>1, <2>2 DEF EntryIs
<1>11. ASSUME NEW b \in Claimed(d, q) PROVE e.data[b] = d.data[b]
  <2>1. FileSound(d, At(d, q))
    BY <1>1, LaidFile
  <2>2. PICK write \in 0 .. MaxCalls : Holds(d, At(d, q), write)
    BY <2>1 DEF FileSound
  <2>3. PICK i \in DOMAIN Chain(Loaded(d), At(d, q).first) : b = Chain(Loaded(d), At(d, q).first)[i]
    BY DEF Claimed, ToSet
  <2>4. d.data[b] = FileBlock(write, i, At(d, q).size)
    BY <2>2, <2>3 DEF Holds
  <2>5. d.data[b].kind = "file"
    BY <2>4 DEF FileBlock
  <2>6. b \in Clusters \ ToSet(chain)
    BY <1>9
  <2> QED BY <1>3, <2>5, <2>6 DEF DataLike
<1> QED BY <1>3, <1>7, <1>10, <1>11 DEF Intact

\* The blocks of a call are lists of blocks to be written.
LEMMA ContentList ==
  ASSUME NEW d \in Disk, NEW chain \in Seq(Clusters),
         NEW blocks, \A i \in 1 .. Len(chain) : blocks[i] \in Block,
         NEW fat \in Fat, NEW place, Spot(d, place), NEW record \in Record
  PROVE  /\ FillWrites(chain, blocks) \in Seq(Write) /\ Store(fat) \in Seq(Write)
         /\ <<WriteRecord(place, record)>> \in Seq(Write)
<1>1. \A i \in 1 .. Len(chain) : WriteCluster(chain[i], blocks[i]) \in Write
  <2> SUFFICES ASSUME NEW i \in 1 .. Len(chain) PROVE WriteCluster(chain[i], blocks[i]) \in Write
    OBVIOUS
  <2>1. chain[i] \in Clusters /\ blocks[i] \in Block
    OBVIOUS
  <2> QED BY <2>1, ClusterWritten
<1>2. FillWrites(chain, blocks) \in Seq(Write)
  BY <1>1 DEF FillWrites
<1>3. WriteFat(1, fat) \in Write /\ WriteFat(2, fat) \in Write
  BY FatWritten
<1>4. Store(fat) \in Seq(Write)
  BY <1>3 DEF Store
<1>5. WriteRecord(place, record) \in Write
  BY RecordWritten
<1> QED BY <1>2, <1>4, <1>5

\* Four lists of writes end to end.
Joined(s, t, u, v) == s \o t \o u \o v = s \o (t \o u \o v)

\* The writes of one file follow those of the files before it.
LEMMA WritesJoined ==
  ASSUME NEW s \in Seq(Write), NEW t \in Seq(Write), NEW u \in Seq(Write), NEW v \in Seq(Write)
  PROVE  Joined(s, t, u, v)
<1> DEFINE tu == t \o u
<1>1. ASSUME NEW a \in Seq(Write), NEW b \in Seq(Write), NEW c \in Seq(Write)
      PROVE  (a \o b) \o c = a \o (b \o c)
  BY ThreeLists, ZenonT(30)
<1>2. tu \in Seq(Write) /\ (s \o t) \o u = s \o tu
  BY <1>1
<1> HIDE DEF tu
<1>3. (s \o tu) \o v = s \o (tu \o v)
  BY <1>1, <1>2, Zenon
<1> QED BY <1>2, <1>3 DEF tu, Joined

\* A run is of clusters that are free, one after the other.
RunOf(first, count) == [i \in 1 .. count |-> first + i - 1]
LeastOf(runs) == CHOOSE c \in runs : \A other \in runs : c <= other

\* The first run of free clusters that is long enough.
LEMMA RunFound ==
  ASSUME NEW fat \in Fat, NEW count \in Nat, count # 0, NEW runs, runs # {},
         runs \subseteq Clusters,
         \A c \in runs : \A b \in c .. c + count - 1 : b \in FreeClusters(fat)
  PROVE  /\ AreFree(fat, RunOf(LeastOf(runs), count), count)
         /\ RunOf(LeastOf(runs), count)[1] = LeastOf(runs) /\ LeastOf(runs) \in Clusters
<1> DEFINE first == LeastOf(runs)
           run == RunOf(first, count)
<1>1. \E c \in runs : \A other \in runs : c <= other
  <2>1. runs \in SUBSET Nat
    BY DEF Clusters
  <2> QED BY <2>1, LeastNumber
<1>2. first \in runs
  BY <1>1 DEF LeastOf
<1> HIDE DEF first
<1>3. first \in Clusters /\ first \in Nat
  BY <1>2 DEF Clusters
<1>4. ASSUME NEW i \in 1 .. count
      PROVE  run[i] = first + i - 1 /\ run[i] \in Clusters /\ fat[run[i]] = Free
  <2>1. run[i] = first + i - 1 /\ run[i] \in first .. first + count - 1
    BY <1>3 DEF RunOf
  <2>2. run[i] \in FreeClusters(fat)
    BY <1>2, <2>1
  <2> QED BY <2>1, <2>2 DEF FreeClusters
<1>5. DOMAIN run = 1 .. count
  BY DEF RunOf
<1>6. run \in Seq(Clusters) /\ Len(run) = count
  <2>1. run \in [1 .. count -> Clusters]
    BY <1>4 DEF RunOf
  <2> QED BY <2>1
<1>7. \A i, j \in DOMAIN run : run[i] = run[j] => i = j
  <2> SUFFICES ASSUME NEW i \in 1 .. count, NEW j \in 1 .. count, run[i] = run[j] PROVE i = j
    BY <1>5
  <2>1. first + i - 1 = first + j - 1
    BY <1>4
  <2> QED BY <1>3, <2>1
<1>8. \A c \in ToSet(run) : c \in Clusters /\ fat[c] = Free
  BY <1>4, <1>5 DEF ToSet
<1>9. run[1] = first
  BY <1>3, <1>4
<1>10. AreFree(fat, run, count)
  BY <1>6, <1>7, <1>8 DEF AreFree
<1> QED BY <1>3, <1>9, <1>10 DEF first

\* What a loop over objects carries along: the FAT in memory, and the writes.
Work == [fat : Fat, writes : Seq(Write)]

\* What the disk is when a part of the files has been gathered; those of rest are
\* as they were.
Gathering(d, e, folders, paths, done, rest) ==
    /\ done \in Work
    /\ LaidOut(e, folders, paths)
    /\ Leads(Disk, d, done.writes, e)
    /\ Tidy(d, folders) => Tidy(e, folders)
    /\ Tree(e) = Tree(d)
    /\ Loaded(e) = done.fat
    /\ \A c \in folders : Entries(e, c) = Entries(d, c)
    /\ \A p \in rest : Intact(d, e, p)

\* The places of files.
FilesIn(d, folders, rest) ==
    \A p \in rest : ~ At(d, p).dir /\ \E c \in folders : p \in Entries(d, c)

\* One file gets a run.
GatheredTo(d, done, place, chain, run, record, fat) ==
    [fat |-> fat,
     writes |-> done.writes \o [i \in 1 .. Len(chain) |-> WriteCluster(run[i], d.data[chain[i]])] \o
                Store(fat) \o <<WriteRecord(place, record)>>]

\* The blocks for a run are those of a chain, which is that of a file.
Copies(e, chain, run, blocks) ==
    Len(run) = Len(chain) /\ \A i \in 1 .. Len(chain) : blocks[i] = e.data[chain[i]]
CopiesFile(e, folders, dir, place, record, run, blocks) ==
    /\ dir \in folders /\ place \in Entries(e, dir) /\ ~ At(e, place).dir
    /\ record.name = At(e, place).name /\ record.dir = FALSE
    /\ Copies(e, Chain(Loaded(e), At(e, place).first), run, blocks)

\* A file whose clusters are copied is seen as before.
LEMMA CopySeen ==
  ASSUME NEW e, NEW folders, NEW paths, LaidOut(e, folders, paths), NEW dir, NEW place,
         NEW record, NEW run, NEW blocks,
         CopiesFile(e, folders, dir, place, record, run, blocks),
         NEW f, SeenInstead(e, f, paths, dir, place, record, run, blocks)
  PROVE  Tree(f) = Tree(e)
<1> DEFINE item == Item(e, paths, dir, place)
           chain == Chain(Loaded(e), At(e, place).first)
<1>1. /\ dir \in folders /\ place \in Entries(e, dir) /\ ~ At(e, place).dir
      /\ record.name = At(e, place).name /\ record.dir = FALSE
      /\ Copies(e, chain, run, blocks)
  BY DEF CopiesFile
<1>2. chain \in Seq(Clusters)
  BY <1>1, LaidEntry DEF EntryIs
<1> HIDE DEF chain
<1>3. Data(e, At(e, place)) = [i \in 1 .. Len(run) |-> blocks[i]]
  <2>1. Data(e, At(e, place)) = [i \in DOMAIN chain |-> e.data[chain[i]]]
    BY <1>1 DEF Data, chain
  <2>2. DOMAIN chain = 1 .. Len(run)
    BY <1>1, <1>2 DEF Copies
  <2> QED BY <1>1, <2>1, <2>2 DEF Copies
<1>4. Newcomer(paths, dir, record, [i \in 1 .. Len(run) |-> blocks[i]]) = item
  <2>1. At(e, place).dir = FALSE
    <3>1. At(e, place) \in Record
      BY <1>1, LaidEntry DEF EntryIs
    <3> QED BY <1>1, <3>1, RecordIs
  <2> QED BY <1>1, <1>3, <2>1 DEF Newcomer, Item
<1>5. item \in Tree(e)
  <2>1. ItemOf(e, folders, paths, item)
    BY <1>1 DEF ItemOf
  <2> HIDE DEF item
  <2> QED BY <2>1, TreeIs
<1> QED BY <1>4, <1>5 DEF SeenInstead

\* The others are as they were.
LEMMA FileGathered ==
  ASSUME NEW d \in Disk, NEW e, NEW folders, NEW paths, NEW done, NEW rest,
         Gathering(d, e, folders, paths, done, rest), FilesIn(d, folders, rest),
         NEW place \in rest,
         NEW chain, chain = Chain(done.fat, At(d, place).first),
         NEW run, AreFree(Released(done.fat, chain), run, Len(chain)), chain # <<>>,
         NEW record, record = [At(d, place) EXCEPT !.first = run[1]],
         NEW fat, fat = Linked(Released(done.fat, chain), run)
  PROVE  \E f : Gathering(d, f, folders, paths, GatheredTo(d, done, place, chain, run, record, fat),
                         rest \ {place})
<1> DEFINE released == Released(done.fat, chain)
           count == Len(chain)
           blocks == [i \in 1 .. count |-> d.data[chain[i]]]
           entry == At(d, place)
<1>1. /\ LaidOut(e, folders, paths) /\ Leads(Disk, d, done.writes, e)
      /\ Tidy(d, folders) => Tidy(e, folders)
      /\ Loaded(e) = done.fat
      /\ \A c \in folders : Entries(e, c) = Entries(d, c)
      /\ \A p \in rest : Intact(d, e, p)
  BY DEF Gathering
<1>2. e \in Disk /\ done.fat \in Fat
  BY <1>1, LoadedFat DEF LaidOut
<1>3. ~ entry.dir /\ \E c \in folders : place \in Entries(d, c)
  BY DEF FilesIn
<1>4. PICK dir \in folders : place \in Entries(d, dir)
  BY <1>3
<1>5. /\ At(e, place) = entry /\ chain = Chain(Loaded(d), entry.first)
      /\ \A b \in Claimed(d, place) : e.data[b] = d.data[b]
  BY <1>1 DEF Intact
<1>6. place \in Entries(e, dir) /\ ~ At(e, place).dir
  BY <1>1, <1>3, <1>4, <1>5
<1>7. Claimed(e, place) = ToSet(chain) /\ Claimed(d, place) = ToSet(chain)
  BY <1>1, <1>5 DEF Claimed
<1>8. EntryIs(e, folders, place)
  BY <1>1, <1>6, LaidEntry
<1>9. /\ entry \in Record /\ entry.state = "live" /\ chain \in Seq(Clusters)
  BY <1>1, <1>5, <1>8 DEF EntryIs
<1>10. count \in Nat /\ count # 0 /\ DOMAIN chain = 1 .. count
  BY <1>9
<1>11. PICK write \in 0 .. MaxCalls : Holds(e, entry, write)
  <2>1. FileSound(e, entry)
    BY <1>1, <1>5, <1>6, LaidFile
  <2> QED BY <2>1 DEF FileSound
<1>12. entry.size = count /\ \A i \in 1 .. count : e.data[chain[i]] = FileBlock(write, i, count)
  BY <1>1, <1>10, <1>11 DEF Holds
<1>13. \A i \in 1 .. count : blocks[i] = FileBlock(write, i, count) /\ blocks[i] \in Block
  <2> SUFFICES ASSUME NEW i \in 1 .. count
               PROVE  d.data[chain[i]] = FileBlock(write, i, count) /\ d.data[chain[i]] \in Block
    OBVIOUS
  <2>1. chain[i] \in ToSet(chain) /\ chain[i] \in Clusters
    BY <1>9, <1>10 DEF ToSet
  <2>2. d.data[chain[i]] = e.data[chain[i]]
    BY <1>5, <1>7, <2>1
  <2>3. d.data[chain[i]] \in Block
    BY <2>1 DEF Disk
  <2> QED BY <1>12, <2>2, <2>3
<1>14. /\ run \in Seq(Clusters) /\ Len(run) = count
       /\ \A i, j \in DOMAIN run : run[i] = run[j] => i = j
       /\ \A c \in ToSet(run) : c \in Clusters /\ released[c] = Free
  BY DEF AreFree
<1>15. released \in Fat /\ \A c \in Clusters : released[c] =
           IF c \in ToSet(chain) THEN Free ELSE done.fat[c]
  BY <1>2, ReleasedIs
<1>16. OfOneWrite(run, blocks)
  BY <1>13, <1>14 DEF OfOneWrite
<1>17. FillWrites(run, blocks) = [i \in 1 .. count |-> WriteCluster(run[i], d.data[chain[i]])]
  BY <1>14 DEF FillWrites
<1>18. \A i \in 1 .. Len(run) : blocks[i] \in Block
  BY <1>13, <1>14
<1> HIDE DEF blocks, count, released
<1>19. IsLinked(released, run, fat)
  BY <1>14, <1>15, LinkedIs DEF released
<1>20. /\ fat \in Fat
       /\ \A c \in Clusters : c \notin ToSet(run) => fat[c] = released[c]
       /\ run # <<>> => Chained(fat, run[1]) /\ Chain(fat, run[1]) = run
  BY <1>19 DEF IsLinked
<1>21. Renews(e, place, run, fat)
  BY <1>1, <1>7, <1>14, <1>15, <1>20 DEF Renews
<1>22. run # <<>> /\ run[1] \in Clusters
  BY <1>10, <1>14
<1>23. Refers(e, place, run, record)
  <2>1. /\ record \in Record /\ record.state = "live" /\ ~ record.dir /\ record.name = entry.name
        /\ record.size = entry.size /\ record.first = run[1]
    <3>1. run[1] \in 0 .. MaxCluster
      BY <1>22 DEF Clusters
    <3> QED BY <1>3, <1>9, <3>1, RecordIs
  <2> QED BY <1>5, <1>12, <1>14, <1>22, <2>1 DEF Refers
<1>24. StoreOrNot(e, Store(fat), fat)
  BY <1>20 DEF StoreOrNot
<1>25. PICK f : Renewed(e, f, folders, paths, dir, place, record, run, blocks, fat, Store(fat))
  BY <1>1, <1>6, <1>14, <1>16, <1>21, <1>23, <1>24, FileRenewed
<1> DEFINE fill == FillWrites(run, blocks)
           store == Store(fat)
           last == <<WriteRecord(place, record)>>
           written == done.writes
<1>26. /\ Rewrites(e, f, folders, paths, dir, place, record, run, blocks, fat)
       /\ Leads(Disk, e, fill \o store \o last, f)
       /\ LaidOut(f, folders, paths)
       /\ \A c \in folders : Entries(f, c) = Entries(e, c)
       /\ Tidy(e, folders) => Tidy(f, folders)
  BY <1>25 DEF Renewed
<1>27. fill \in Seq(Write) /\ store \in Seq(Write) /\ last \in Seq(Write)
  <2>1. Spot(e, place)
    BY <1>1, <1>6, EntryReached, SpotOf
  <2>2. record \in Record
    BY <1>23 DEF Refers
  <2> QED BY <1>2, <1>14, <1>18, <1>20, <2>1, <2>2, ContentList
<1>28. written \in Seq(Write)
  BY <1>1, LeadsEnds DEF written
<1> HIDE DEF fill, store, last, written
<1>29. written \o fill \o store \o last = written \o (fill \o store \o last)
  <2>1. Joined(written, fill, store, last)
    BY <1>27, <1>28, WritesJoined
  <2> QED BY <2>1 DEF Joined
<1>30. Leads(Disk, d, written \o fill \o store \o last, f)
  <2>1. Leads(Disk, d, written \o (fill \o store \o last), f)
    BY <1>1, <1>26, LeadsOn DEF written
  <2> QED BY <1>29, <2>1
<1>31. Tree(f) = Tree(d)
  <2>1. SeenInstead(e, f, paths, dir, place, record, run, blocks)
    BY <1>25 DEF Renewed
  <2>2. chain = Chain(Loaded(e), At(e, place).first)
    BY <1>1, <1>5
  <2>3. Copies(e, chain, run, blocks)
    BY <1>12, <1>13, <1>14 DEF count, Copies
  <2>4. record.name = At(e, place).name /\ record.dir = FALSE
    BY <1>5, <1>23, RecordIs DEF Refers
  <2>5. Tree(f) = Tree(e)
    <3>1. CopiesFile(e, folders, dir, place, record, run, blocks)
      BY <1>4, <1>6, <2>2, <2>3, <2>4 DEF CopiesFile
    <3> QED BY <1>1, <2>1, <3>1, CopySeen
  <2>6. Tree(e) = Tree(d)
    BY DEF Gathering
  <2> QED BY <2>5, <2>6
<1>32. Loaded(f) = fat
  BY <1>26 DEF Rewrites, ContentIsSet
<1>33. ASSUME NEW p \in rest \ {place} PROVE Intact(d, f, p)
  <2>1. Intact(d, e, p)
    BY <1>1
  <2>2. ~ At(d, p).dir /\ \E c \in folders : p \in Entries(d, c)
    BY DEF FilesIn
  <2>3. PICK c \in folders : p \in Entries(d, c)
    BY <2>2
  <2>4. p \in Entries(e, c) /\ ~ At(e, p).dir
    BY <1>1, <2>1, <2>2, <2>3 DEF Intact
  <2>5. Intact(e, f, p)
    BY <1>26, <2>4, RewriteKeeps
  <2> QED BY <2>1, <2>5, IntactAfter
<1> DEFINE now == [fat |-> fat, writes |-> written \o fill \o store \o last]
<1>34. now.fat = fat /\ now.writes = written \o fill \o store \o last
  OBVIOUS
<1> HIDE DEF now
<1>35. now \in Work
  <2>1. written \o fill \o store \o last \in Seq(Write)
    BY <1>30, LeadsEnds
  <2> QED BY <1>20, <2>1 DEF Work, now
<1>36. Gathering(d, f, folders, paths, now, rest \ {place})
  BY <1>1, <1>26, <1>30, <1>31, <1>32, <1>33, <1>34, <1>35 DEF Gathering
<1> QED BY <1>17, <1>36 DEF now, fill, store, last, count, written, GatheredTo

\* One file: it is moved to a run, or it stays.
LEMMA GatheredGoes ==
  ASSUME NEW d \in Disk, NEW folders, NEW paths, NEW done, NEW rest,
         \E e : Gathering(d, e, folders, paths, done, rest), FilesIn(d, folders, rest),
         NEW place \in rest
  PROVE  \E f : Gathering(d, f, folders, paths, Gathered(d, done, place), rest \ {place})
<1>1. PICK e : Gathering(d, e, folders, paths, done, rest)
  OBVIOUS
<1>2. /\ LaidOut(e, folders, paths) /\ Loaded(e) = done.fat
      /\ \A c \in folders : Entries(e, c) = Entries(d, c)
      /\ \A p \in rest : Intact(d, e, p)
  BY <1>1 DEF Gathering
<1> DEFINE entry == At(d, place)
           chain == Chain(done.fat, entry.first)
           count == Len(chain)
           split == \E i \in 1 .. count - 1 : chain[i + 1] # chain[i] + 1
           released == Released(done.fat, chain)
           runs == IF Runs(done.fat, count) # {} THEN Runs(done.fat, count)
                   ELSE Runs(released, count)
           first == LeastOf(runs)
           run == RunOf(first, count)
           fat == Linked(released, run)
           record == [entry EXCEPT !.first = first]
           moved == GatheredTo(d, done, place, chain, run, record, fat)
<1>3. Gathered(d, done, place) = IF ~ split \/ runs = {} THEN done ELSE moved
  BY DEF Gathered, LeastOf, RunOf, GatheredTo
<1> HIDE DEF moved, record, fat, run, first, runs, released, split, count, chain
<1>4. CASE ~ split \/ runs = {}
  <2>1. Gathering(d, e, folders, paths, done, rest \ {place})
    BY <1>1 DEF Gathering
  <2> QED BY <1>3, <1>4, <2>1
<1>5. CASE ~ (~ split \/ runs = {})
  <2>1. e \in Disk /\ done.fat \in Fat
    BY <1>2, LoadedFat DEF LaidOut
  <2>2. entry.first \in 0 .. MaxCluster
    <3>1. \E c \in folders : place \in Entries(d, c)
      BY DEF FilesIn
    <3>2. PICK c \in folders : place \in Entries(e, c)
      BY <1>2, <3>1
    <3>3. EntryIs(e, folders, place) /\ At(e, place) = entry
      BY <1>2, <3>2, LaidEntry DEF Intact
    <3> QED BY <3>3, RecordIs DEF EntryIs
  <2>3. chain \in Seq(Clusters)
    BY <2>1, <2>2, ChainListed DEF chain
  <2>4. count \in Nat /\ count # 0 /\ chain # <<>>
    <3>1. count \in Nat
      BY <2>3 DEF count
    <3>2. PICK i \in 1 .. count - 1 : chain[i + 1] # chain[i] + 1
      BY <1>5 DEF split
    <3>3. count # 0
      BY <3>1, <3>2
    <3> QED BY <3>1, <3>3 DEF count
  <2>5. released \in Fat /\ \A c \in Clusters : done.fat[c] = Free => released[c] = Free
    BY <2>1, ReleasedIs DEF released
  <2>6. runs # {} /\ runs \subseteq Clusters
    BY <1>5 DEF runs, Runs
  <2>7. ASSUME NEW c \in runs, NEW b \in c .. c + count - 1 PROVE b \in FreeClusters(released)
    <3>1. b \in FreeClusters(done.fat) \/ b \in FreeClusters(released)
      BY DEF runs, Runs
    <3> QED BY <2>5, <3>1 DEF FreeClusters
  <2>8. AreFree(released, run, count) /\ run[1] = first
    BY <2>4, <2>5, <2>6, <2>7, RunFound DEF run, first
  <2>9. \E f : Gathering(d, f, folders, paths, moved, rest \ {place})
    <3>1. AreFree(Released(done.fat, chain), run, Len(chain))
      BY <2>8 DEF released, count
    <3>2. record = [At(d, place) EXCEPT !.first = run[1]]
      BY <2>8 DEF record
    <3>3. chain = Chain(done.fat, At(d, place).first)
              /\ fat = Linked(Released(done.fat, chain), run)
      BY DEF chain, fat, released
    <3> QED BY <1>1, <2>4, <3>1, <3>2, <3>3, FileGathered DEF moved
  <2> QED BY <1>3, <1>5, <2>9
<1> QED BY <1>4, <1>5

\* The loop of defragment().
GatherOne(d, done, place) == IF At(d, place).dir THEN done ELSE Gathered(d, done, place)
GatherRuns(d, places, g) ==
    g = [k \in 0 .. Len(places) |->
            IF k = 0 THEN [fat |-> Loaded(d), writes |-> <<>>]
            ELSE GatherOne(d, g[k - 1], places[k])]
Defragmented(d, places) == (CHOOSE g : GatherRuns(d, places, g))[Len(places)]

\* The files of a list from some place in it on.
FilesAfter(d, places, k) ==
    {places[i] : i \in {i \in k + 1 .. Len(places) : ~ At(d, places[i]).dir}}

\* defragment(), one file: it is gathered in one run, or left where it is, and the
\* files before and after it are what they were.
LEMMA OneGathered ==
  ASSUME NEW d \in Disk, NEW folders, NEW paths, LaidOut(d, folders, paths),
         NEW places \in Seq(Place),
         \A i, j \in DOMAIN places : places[i] = places[j] => i = j,
         \A i \in 1 .. Len(places) : \E c \in folders : places[i] \in Entries(d, c),
         NEW k \in 1 .. Len(places), NEW done,
         \E e : Gathering(d, e, folders, paths, done, FilesAfter(d, places, k - 1))
  PROVE  \E e : Gathering(d, e, folders, paths, GatherOne(d, done, places[k]),
                         FilesAfter(d, places, k))
<1> DEFINE rest == FilesAfter(d, places, k - 1)
           left == FilesAfter(d, places, k)
           place == places[k]
<1>1. k \in Nat /\ (k - 1) + 1 = k /\ Len(places) \in Nat
  OBVIOUS
<1>2. left \subseteq rest
  BY <1>1 DEF FilesAfter
<1>3. place \notin left
  <2> SUFFICES ASSUME place \in left PROVE FALSE
    OBVIOUS
  <2>1. PICK i \in k + 1 .. Len(places) : place = places[i]
    BY DEF FilesAfter
  <2> QED BY <1>1, <2>1
<1>4. CASE At(d, place).dir
  <2>1. PICK e : Gathering(d, e, folders, paths, done, rest)
    OBVIOUS
  <2>2. Gathering(d, e, folders, paths, done, left)
    BY <1>2, <2>1 DEF Gathering
  <2> QED BY <1>4, <2>2 DEF GatherOne
<1>5. CASE ~ At(d, place).dir
  <2>1. place \in rest
    BY <1>1, <1>5 DEF FilesAfter
  <2>2. FilesIn(d, folders, rest)
    <3> SUFFICES ASSUME NEW p \in rest
                 PROVE  ~ At(d, p).dir /\ \E c \in folders : p \in Entries(d, c)
      BY DEF FilesIn
    <3>1. PICK i \in k .. Len(places) : p = places[i] /\ ~ At(d, places[i]).dir
      BY <1>1 DEF FilesAfter
    <3>2. i \in 1 .. Len(places)
      BY <1>1
    <3> QED BY <3>1, <3>2
  <2> HIDE DEF rest, left, place
  <2>3. \E e : Gathering(d, e, folders, paths, done, rest)
    BY DEF rest
  <2>4. \E e : Gathering(d, e, folders, paths, Gathered(d, done, place), rest \ {place})
    BY <2>1, <2>2, <2>3, GatheredGoes
  <2>5. PICK e : Gathering(d, e, folders, paths, Gathered(d, done, place), rest \ {place})
    BY <2>4
  <2>6. left \subseteq rest \ {place}
    BY <1>2, <1>3
  <2>7. Gathering(d, e, folders, paths, Gathered(d, done, place), left)
    BY <2>5, <2>6 DEF Gathering
  <2> QED BY <1>5, <2>7 DEF GatherOne, place, left
<1> QED BY <1>4, <1>5

\* The whole loop: the volume is sound when it ends, and nothing is lost.
LEMMA AllGathered ==
  ASSUME NEW d \in Disk, NEW folders, NEW paths, LaidOut(d, folders, paths),
         NEW places \in Seq(Place),
         \A i, j \in DOMAIN places : places[i] = places[j] => i = j,
         \A i \in 1 .. Len(places) : \E c \in folders : places[i] \in Entries(d, c)
  PROVE  \E e : Gathering(d, e, folders, paths, Defragmented(d, places), {})
<1> DEFINE n == Len(places)
           one(k, v) == GatherOne(d, v, places[k])
           begin == [fat |-> Loaded(d), writes |-> <<>>]
           step == [kv \in (1 .. n) \X Work |-> one(kv[1], kv[2])]
           good(k, v) == \E e : Gathering(d, e, folders, paths, v, FilesAfter(d, places, k))
           G == {kv \in (0 .. n) \X Work : good(kv[1], kv[2])}
<1>1. n \in Nat
  OBVIOUS
<1>2. begin \in Work /\ good(0, begin)
  <2>1. Loaded(d) \in Fat /\ <<>> \in Seq(Write) /\ begin.fat = Loaded(d) /\ begin.writes = <<>>
    BY LoadedFat
  <2>2. begin \in Work
    BY <2>1 DEF Work
  <2> HIDE DEF begin
  <2>3. Leads(Disk, d, begin.writes, d)
    BY <2>1, LeadsNowhere
  <2>4. Gathering(d, d, folders, paths, begin, FilesAfter(d, places, 0))
    BY <2>1, <2>2, <2>3 DEF Gathering, Intact
  <2> QED BY <2>2, <2>4
<1>3. ASSUME NEW k \in 1 .. n, NEW v, good(k - 1, v) PROVE good(k, one(k, v)) /\ one(k, v) \in Work
  <2>1. good(k, one(k, v))
    BY <1>3, OneGathered
  <2> QED BY <2>1 DEF Gathering
<1>4. \A k \in 1 .. n : \A v \in Work : step[<<k, v>>] = one(k, v)
  OBVIOUS
<1> HIDE DEF step, one, good, begin
<1>5. G \in SUBSET ((0 .. n) \X Work) /\ \A k \in 0 .. n : \A v \in Work : <<k, v>> \in G
          <=> good(k, v)
  OBVIOUS
<1> HIDE DEF G
<1>6. <<0, begin>> \in G
  BY <1>1, <1>2, <1>5
<1>7. \A k \in 1 .. n : \A v \in Work : <<k - 1, v>> \in G => <<k, step[<<k, v>>]>> \in G
  <2> SUFFICES ASSUME NEW k \in 1 .. n, NEW v \in Work, <<k - 1, v>> \in G
               PROVE  <<k, step[<<k, v>>]>> \in G
    OBVIOUS
  <2>1. k - 1 \in 0 .. n /\ k \in 0 .. n
    BY <1>1
  <2>2. good(k - 1, v)
    BY <1>5, <2>1
  <2>3. good(k, one(k, v)) /\ one(k, v) \in Work
    BY <1>3, <2>2
  <2> QED BY <1>4, <1>5, <2>1, <2>3
<1>8. PICK f :
        /\ f \in [0 .. n -> Work] /\ f[0] = begin
        /\ \A k \in 1 .. n : f[k] = step[<<k, f[k - 1]>>]
        /\ \A k \in 0 .. n : <<k, f[k]>> \in G
  <2>1. KeepsSteps(n, Work, begin, step, G)
    BY <1>1, <1>5, <1>6, <1>7, StepsKept
  <2> QED BY <2>1 DEF KeepsSteps
<1>9. \A k \in 1 .. n : f[k] = one(k, f[k - 1])
  <2> SUFFICES ASSUME NEW k \in 1 .. n PROVE f[k] = one(k, f[k - 1])
    OBVIOUS
  <2>1. k - 1 \in 0 .. n
    BY <1>1
  <2> QED BY <1>4, <1>8, <2>1
<1> DEFINE g == CHOOSE h : GatherRuns(d, places, h)
<1>10. GatherRuns(d, places, g)
  <2>1. \A k \in 0 .. n : f[k] = IF k = 0 THEN begin ELSE GatherOne(d, f[k - 1], places[k])
    BY <1>1, <1>8, <1>9 DEF one
  <2>2. f = [k \in 0 .. n |-> IF k = 0 THEN begin ELSE GatherOne(d, f[k - 1], places[k])]
    BY <1>8, <2>1
  <2>3. GatherRuns(d, places, f)
    BY <2>2 DEF GatherRuns, begin
  <2> QED BY <2>3
<1> HIDE DEF g
<1>11. g = [k \in 0 .. n |-> IF k = 0 THEN begin ELSE GatherOne(d, g[k - 1], places[k])]
  BY <1>10 DEF GatherRuns, begin
<1> HIDE DEF n
<1>12. g[0] = begin /\ \A k \in 1 .. n : g[k] = one(k, g[k - 1])
  <2>1. \A k \in 0 .. n : g[k] = IF k = 0 THEN begin ELSE GatherOne(d, g[k - 1], places[k])
    BY <1>11
  <2>2. 0 \in 0 .. n /\ \A k \in 1 .. n : k \in 0 .. n /\ k # 0
    BY <1>1
  <2> QED BY <2>1, <2>2 DEF one
<1>13. f[n] = g[n]
  <2>1. f[0] = g[0]
    BY <1>8, <1>12
  <2>2. \A k \in 1 .. n : f[k - 1] = g[k - 1] => f[k] = g[k]
    BY <1>9, <1>12
  <2>3. \A k \in 0 .. n : f[k] = g[k]
    BY <1>1, <2>1, <2>2, SameSteps
  <2> QED BY <1>1, <2>3
<1>14. good(n, f[n])
  <2>1. n \in 0 .. n
    BY <1>1
  <2> QED BY <1>5, <1>8, <2>1
<1>15. FilesAfter(d, places, n) = {}
  BY <1>1 DEF FilesAfter, n
<1> QED BY <1>13, <1>14, <1>15 DEF good, g, n, Defragmented

\* defragment().
LEMMA DefragmentGoes ==
  ASSUME NEW folders, NEW paths, Begins(folders, paths), Defragment
  PROVE  BeginsWell(folders)
<1> DEFINE places == Inside(disk, Root)
           done == Defragmented(disk, places)
<1>1. LaidOut(disk, folders, paths)
  BY DEF Begins
<1>2. disk \in Disk /\ Root \in folders
  BY <1>1 DEF LaidOut
<1>3. Begin([kind |-> "defragment"], done.writes)
  BY DEF Defragment, Defragmented, GatherRuns, GatherOne
<1>4. Listed(disk, folders, paths, Root, MaxCluster, places)
  BY <1>1, <1>2, InsideListed
<1> HIDE DEF places
<1>5. /\ places \in Seq(Place)
      /\ \A i, j \in DOMAIN places : places[i] = places[j] => i = j
      /\ \A p \in ToSet(places) : Below(disk, folders, paths, Root, p)
  BY <1>4 DEF Listed
<1>6. ASSUME NEW i \in 1 .. Len(places) PROVE \E c \in folders : places[i] \in Entries(disk, c)
  <2>1. places[i] \in ToSet(places)
    BY <1>5 DEF ToSet
  <2>2. Below(disk, folders, paths, Root, places[i])
    BY <1>5, <2>1
  <2> QED BY <2>2 DEF Below
<1>7. PICK e : Gathering(disk, e, folders, paths, done, {})
  BY <1>1, <1>2, <1>5, <1>6, AllGathered
<1> HIDE DEF done
<1>8. /\ LaidOut(e, folders, paths) /\ Leads(Disk, disk, done.writes, e)
      /\ Tidy(disk, folders) => Tidy(e, folders)
  BY <1>7 DEF Gathering
<1>9. call' = [kind |-> "defragment"] /\ todo' = done.writes /\ base' = disk
  BY <1>3 DEF Begin
<1> DEFINE what == [kind |-> "defragment"]
           after == PromisedBy(calls + 1, Tree(disk), what)
<1>10. what.kind = "defragment"
  OBVIOUS
<1> HIDE DEF what
<1>11. Through(calls + 1, what, disk) = Disk
  BY <1>10 DEF Through, Overwrites
<1>12. after = Tree(disk)
  BY <1>10 DEF PromisedBy
<1> HIDE DEF after
<1>13. Goes(Disk, disk, folders, after, done.writes)
  <2>1. Tree(e) = Tree(disk)
    BY <1>7 DEF Gathering
  <2> QED BY <1>8, <1>12, <2>1 DEF Goes
<1>14. call' = what
  BY <1>9 DEF what
<1> QED BY <1>9, <1>11, <1>13, <1>14 DEF BeginsWell, after

(***************************************************************************)
(* Deleting.                                                               *)
(***************************************************************************)

\* What remove() makes of one object: its record is marked.
DeletedRecord(d, p) == [At(d, p) EXCEPT !.state = "deleted"]

\* The record goes first: what the entry claimed is used by nobody then.
Unlinks(T, d, e, folders, paths, dir, folders2, paths2, p) ==
    /\ LaidOut(e, folders2, paths2) /\ e.fat = d.fat
    /\ Leads(Within(T), d, <<WriteRecord(p, DeletedRecord(d, p))>>, e)
    /\ Tree(e) = Tree(d) \ {Item(d, paths, dir, p)}
    /\ \A c \in folders2 : paths2[c] = paths[c]
    /\ folders2 = Without(d, folders, p)
    /\ Used(e, folders2) = Used(d, folders) \ Claimed(d, p)
    /\ \A c \in folders2 : Entries(e, c) = Entries(d, c) \ {p}
    /\ \A c \in folders : \A q \in Entries(d, c) : q # p => At(e, q) = At(d, q)

\* delete() marks the record of a file or of an empty folder: the volume is laid out
\* without it.
LEMMA RecordUnlinked ==
  ASSUME NEW d, NEW folders, NEW paths, LaidOut(d, folders, paths), NEW dir \in folders,
         NEW p \in Entries(d, dir), At(d, p).dir => Entries(d, At(d, p).first) = {},
         NEW T, Tree(d) \in T, Tree(d) \ {Item(d, paths, dir, p)} \in T
  PROVE  \E e, folders2, paths2 : Unlinks(T, d, e, folders, paths, dir, folders2, paths2, p)
<1> DEFINE record == DeletedRecord(d, p)
           w == WriteRecord(p, record)
           e == Written(d, w)
           folders2 == Without(d, folders, p)
           paths2 == [c \in folders2 |-> paths[c]]
<1>1. d \in Disk /\ d \in Within(T)
  BY IsWithin
<1>2. Reached(d, dir, p) /\ p \in ToSet(Places(d, dir))
  BY EntryReached
<1>3. Spot(d, p)
  BY <1>2, SpotOf
<1>4. EntryIs(d, folders, p)
  BY LaidEntry
<1>5. record \in Record /\ record.state = "deleted"
  <2>1. At(d, p) \in Record
    BY <1>4 DEF EntryIs
  <2> QED BY <2>1, RecordIs DEF DeletedRecord
<1> HIDE DEF record
<1>6. w \in Write /\ RecordIsSet(d, e, p, record)
  BY <1>1, <1>3, <1>5, RecordWritten
<1> HIDE DEF e
<1>7. Edits(d, e, folders, {p}) /\ SameParents(d, e, folders) /\ At(e, p) = record
  BY <1>2, <1>5, <1>6, RecordEdits
<1>8. Deletes(d, e, folders, dir, p)
  BY <1>5, <1>7 DEF Deletes
<1>9. /\ LaidOut(e, folders2, paths2)
      /\ Used(e, folders2) = Used(d, folders) \ Claimed(d, p)
      /\ \A c \in folders2 : Entries(e, c) = Entries(d, c) \ {p}
  BY <1>8, Deleted
<1> HIDE DEF folders2, paths2
<1>10. e.fat = d.fat
  BY <1>6 DEF RecordIsSet
<1>11. Tree(e) = Tree(d) \ {Item(d, paths, dir, p)} /\ \A c \in folders2 : paths2[c] = paths[c]
  <2>1. Tree(e) = Tree(d) \ {Item(d, paths, dir, p)}
    BY <1>8, DeletedTree
  <2> QED BY <2>1 DEF paths2
<1>12. Leads(Within(T), d, <<w>>, e)
  <2>1. Tree(e) \in T
    BY <1>11
  <2>2. e \in Within(T)
    BY <1>9, <2>1, IsWithin
  <2> QED BY <1>1, <1>6, <2>2, LeadsOne DEF e
<1>13. ASSUME NEW c \in folders, NEW q \in Entries(d, c), q # p PROVE At(e, q) = At(d, q)
  BY <1>7, <1>13, EditLeaves
<1>14. Unlinks(T, d, e, folders, paths, dir, folders2, paths2, p)
  BY <1>9, <1>10, <1>11, <1>12, <1>13 DEF Unlinks, folders2, record, w
<1> QED BY <1>14

\* Then the clusters that nobody uses are released.
Releases(T, d, e, folders, paths, fat, writes) ==
    /\ LaidOut(e, folders, paths) /\ Loaded(e) = fat
    /\ Leads(Within(T), d, writes, e) /\ Tree(e) = Tree(d)
    /\ d.fat[1] = d.fat[2] => e.fat[1] = e.fat[2]
    /\ Used(e, folders) = Used(d, folders)
    /\ \A c \in folders : /\ Entries(e, c) = Entries(d, c)
                          /\ \A q \in Entries(d, c) : At(e, q) = At(d, q)

\* Releasing clusters that nothing uses leaves the volume laid out.
LEMMA ClustersReleased ==
  ASSUME NEW d, NEW folders, NEW paths, LaidOut(d, folders, paths),
         NEW chain \in Seq(Clusters), ToSet(chain) \cap Used(d, folders) = {},
         NEW fat, fat = Released(Loaded(d), chain),
         NEW writes, writes = IF chain = <<>> THEN <<>> ELSE Store(fat),
         NEW T, Tree(d) \in T
  PROVE  \E e : Releases(T, d, e, folders, paths, fat, writes)
<1>1. d \in Disk /\ d \in Within(T)
  BY IsWithin
<1>2. Loaded(d) \in Fat
  BY <1>1, LoadedFat
<1>3. fat \in Fat /\ \A c \in Clusters : fat[c] = IF c \in ToSet(chain) THEN Free ELSE Loaded(d)[c]
  BY <1>2, ReleasedIs
<1>4. ASSUME NEW e \in Disk, e.root = d.root, e.data = d.data, Loaded(e) = fat
      PROVE  Leaves(d, e, folders)
  <2>1. ASSUME NEW c \in Used(d, folders)
        PROVE  Loaded(e)[c] = Loaded(d)[c] /\ e.data[c] = d.data[c]
    <3>1. c \in Clusters /\ c \notin ToSet(chain)
      BY UsedIsTaken
    <3> QED BY <1>3, <1>4, <3>1
  <2>2. LikeUsed(d, e, folders)
    BY <1>4, <2>1 DEF LikeUsed
  <2> QED BY <2>2, UnusedLeaves
<1>5. CASE chain = <<>>
  <2>1. fat = Loaded(d)
    <3>1. \A c \in Clusters : fat[c] = Loaded(d)[c]
      <4>1. ToSet(chain) = {}
        BY <1>5, EmptyList
      <4> QED BY <1>3, <4>1
    <3> QED BY <1>2, <1>3, <3>1 DEF Fat
  <2>2. Leads(Within(T), d, writes, d)
    BY <1>1, <1>5, LeadsNowhere
  <2>3. Releases(T, d, d, folders, paths, fat, writes)
    BY <2>1, <2>2 DEF Releases
  <2> QED BY <2>3
<1>6. CASE chain # <<>>
  <2>1. FatDiffers(Within(T), d, fat)
    <3>1. ASSUME NEW e \in Disk, e.root = d.root, e.data = d.data, Loaded(e) = fat
          PROVE  e \in Within(T)
      <4>1. Leaves(d, e, folders)
        BY <1>4, <3>1
      <4>2. LaidOut(e, folders, paths)
        BY <4>1, Untouched
      <4>3. Tree(e) = Tree(d)
        BY <4>1, LeftTree
      <4>4. Tree(e) \in T
        BY <4>3
      <4> QED BY <4>2, <4>4, IsWithin
    <3> QED BY <3>1 DEF FatDiffers
  <2>2. PICK e : FatsAre(d, e, fat) /\ e \in Within(T) /\ Leads(Within(T), d, Store(fat), e)
    BY <1>1, <1>3, <2>1, Stored
  <2>3. /\ e \in Disk /\ e.root = d.root /\ e.data = d.data
        /\ Loaded(e) = fat /\ e.fat[1] = fat /\ e.fat[2] = fat
    BY <2>2 DEF FatsAre
  <2>4. Leaves(d, e, folders)
    BY <1>4, <2>3
  <2>5. LaidOut(e, folders, paths) /\ Used(e, folders) = Used(d, folders)
    BY <2>4, Untouched
  <2>6. ASSUME NEW c \in folders
        PROVE  Entries(e, c) = Entries(d, c) /\ \A q \in Entries(d, c) : At(e, q) = At(d, q)
    <3>1. Edits(d, e, folders, {})
      BY <2>4 DEF Leaves
    <3>2. Edited(d, e, c, {})
      BY <3>1, EditedFolder
    <3>3. Entries(e, c) = Entries(d, c)
      BY <3>2 DEF Edited
    <3>4. \A q \in Entries(d, c) : At(e, q) = At(d, q)
      BY <3>1, EditLeaves
    <3> QED BY <3>3, <3>4
  <2>7. Tree(e) = Tree(d)
    BY <2>4, LeftTree
  <2>8. Releases(T, d, e, folders, paths, fat, writes)
    BY <1>6, <2>2, <2>3, <2>5, <2>6, <2>7 DEF Releases
  <2> QED BY <2>8
<1> QED BY <1>5, <1>6

\* What the disk may show while a path is removed: everything that is not under it, and
\* nothing new.
Removals(d, path) == Possible(Tree(d), Leaving(d, path))
Shrinks(d, e, path) == Leaving(d, path) \subseteq Tree(e) /\ Tree(e) \subseteq Tree(d)

\* Such a tree is a possible one.
LEMMA ShrinksTo ==
  ASSUME NEW d, NEW path, NEW tree, Leaving(d, path) \subseteq tree, tree \subseteq Tree(d)
  PROVE  tree \in Removals(d, path)
BY DEF Removals, Possible

\* An entry under a path.
Under(d, folders, paths, path, p) ==
    \E c \in folders : p \in Entries(d, c) /\ IsPrefix(path, Append(paths[c], At(d, p).name))

\* The entry at a path is under it.
LEMMA UnderItself ==
  ASSUME NEW d, NEW folders, NEW paths, LaidOut(d, folders, paths), NEW dir \in folders,
         NEW p \in Entries(d, dir), NEW path, path = Append(paths[dir], At(d, p).name)
  PROVE  Under(d, folders, paths, path, p)
<1>1. path \in Seq(Names)
  <2>1. paths[dir] \in Seq(Names)
    BY DEF LaidOut
  <2>2. At(d, p).name \in Names
    BY LaidEntry DEF EntryIs
  <2> QED BY <2>1, <2>2
<1>2. IsPrefix(path, path) /\ Len(path) \in Nat
  BY <1>1 DEF IsPrefix
<1> QED BY <1>2 DEF Under

\* What the disk is when a part of the objects is gone; those of left are still
\* there.
Removing(d, e, folders, paths, path, now, nowPaths, done, gone, left) ==
    /\ done \in Work
    /\ LaidOut(e, now, nowPaths) /\ now \subseteq folders
    /\ \A c \in now : nowPaths[c] = paths[c]
    /\ Shrinks(d, e, path)
    /\ Leads(Within(Removals(d, path)), d, done.writes, e)
    /\ Tidy(d, folders) => Tidy(e, now)
    /\ Loaded(e) = done.fat
    /\ \A c \in now : /\ Entries(e, c) = Entries(d, c) \ gone
                      /\ \A p \in Entries(e, c) : At(e, p) = At(d, p)
    /\ \A p \in left : \E c \in now : p \in Entries(e, c)
Removes(d, folders, paths, path, done, gone, left) ==
    \E e, now, nowPaths : Removing(d, e, folders, paths, path, now, nowPaths, done, gone, left)

\* remove() of one object.
LEMMA ObjectRemoved ==
  ASSUME NEW d \in Disk, NEW folders, NEW paths, LaidOut(d, folders, paths), NEW path,
         NEW done, NEW gone, NEW left, Removes(d, folders, paths, path, done, gone, left),
         NEW place \in left, At(d, place).dir => Entries(d, At(d, place).first) \subseteq gone,
         Under(d, folders, paths, path, place)
  PROVE  Removes(d, folders, paths, path, Removed(d, done, place),
                 gone \cup {place}, left \ {place})
<1> DEFINE entry == At(d, place)
           chain == Chain(done.fat, entry.first)
           fat == Released(done.fat, chain)
           mark == <<WriteRecord(place, DeletedRecord(d, place))>>
           store == IF chain = <<>> THEN <<>> ELSE Store(fat)
           written == done.writes
           after == [fat |-> fat, writes |-> written \o mark \o store]
           T == Removals(d, path)
           S == Within(T)
<1>1. Removed(d, done, place) = after
  BY DEF Removed, DeletedRecord
<1>2. after.fat = fat /\ after.writes = written \o mark \o store
  OBVIOUS
<1>3. PICK e, now, nowPaths : Removing(d, e, folders, paths, path, now, nowPaths, done, gone, left)
  BY DEF Removes
<1> HIDE DEF after, store, mark, fat
<1>4. /\ done \in Work /\ LaidOut(e, now, nowPaths) /\ now \subseteq folders
      /\ \A c \in now : nowPaths[c] = paths[c]
      /\ Shrinks(d, e, path)
      /\ Leads(S, d, written, e)
      /\ Tidy(d, folders) => Tidy(e, now)
      /\ Loaded(e) = done.fat
      /\ \A c \in now : /\ Entries(e, c) = Entries(d, c) \ gone
                        /\ \A p \in Entries(e, c) : At(e, p) = At(d, p)
      /\ \A p \in left : \E c \in now : p \in Entries(e, c)
  BY <1>3 DEF Removing
<1> HIDE DEF written
<1>5. PICK dir \in now : place \in Entries(e, dir)
  BY <1>4
<1>6. At(e, place) = entry
  BY <1>4, <1>5
<1>7. At(e, place).dir => Entries(e, At(e, place).first) = {}
  <2> SUFFICES ASSUME entry.dir PROVE Entries(e, entry.first) = {}
    BY <1>6
  <2>1. entry.first \in now
    BY <1>4, <1>5, <1>6, ParentIs
  <2>2. Entries(e, entry.first) = Entries(d, entry.first) \ gone
    BY <1>4, <2>1
  <2> QED BY <2>2
<1> DEFINE item == Item(e, nowPaths, dir, place)
<1>8. Leaving(d, path) \subseteq Tree(e) \ {item} /\ Tree(e) \ {item} \subseteq Tree(d)
       /\ Tree(e) \subseteq Tree(d) /\ Leaving(d, path) \subseteq Tree(e)
  <2>1. PICK c \in folders : /\ place \in Entries(d, c)
                             /\ IsPrefix(path, Append(paths[c], At(d, place).name))
    BY DEF Under
  <2>2. place \in Entries(d, dir) /\ dir \in folders
    BY <1>4, <1>5
  <2>3. c = dir
    BY <2>1, <2>2, ObjectPlace
  <2>4. item.path = Append(paths[dir], At(d, place).name)
    BY <1>4, <1>5, <1>6 DEF Item
  <2>5. IsPrefix(path, item.path)
    BY <2>1, <2>3, <2>4
  <2> HIDE DEF item
  <2>6. item \notin Leaving(d, path)
    BY <2>5 DEF Leaving
  <2> QED BY <1>4, <2>6 DEF Shrinks
<1>9. Tree(e) \in T /\ Tree(e) \ {item} \in T
  <2> HIDE DEF item
  <2> QED BY <1>8, ShrinksTo
<1> HIDE DEF T, S
<1>10. PICK b, then, thenPaths : Unlinks(T, e, b, now, nowPaths, dir, then, thenPaths, place)
  BY <1>4, <1>5, <1>7, <1>9, RecordUnlinked
<1>11. /\ LaidOut(b, then, thenPaths) /\ b.fat = e.fat
       /\ Leads(S, e, <<WriteRecord(place, DeletedRecord(e, place))>>, b)
       /\ Tree(b) = Tree(e) \ {item}
       /\ \A c \in then : thenPaths[c] = nowPaths[c]
       /\ then = Without(e, now, place)
       /\ Used(b, then) = Used(e, now) \ Claimed(e, place)
       /\ \A c \in then : Entries(b, c) = Entries(e, c) \ {place}
       /\ \A c \in now : \A q \in Entries(e, c) : q # place => At(b, q) = At(e, q)
  BY <1>10 DEF Unlinks, S
<1> HIDE DEF item
<1>12. Leads(S, e, mark, b)
  <2>1. DeletedRecord(e, place) = DeletedRecord(d, place)
    BY <1>6 DEF DeletedRecord
  <2> QED BY <1>11, <2>1 DEF mark
<1>13. Claimed(e, place) = ToSet(chain)
  BY <1>4, <1>6 DEF Claimed
<1>14. chain \in Seq(Clusters)
  <2>1. EntryIs(e, now, place)
    BY <1>4, <1>5, LaidEntry
  <2> QED BY <1>4, <1>6, <2>1 DEF EntryIs
<1> HIDE DEF chain
<1>15. ToSet(chain) \cap Used(b, then) = {}
  BY <1>11, <1>13
<1>16. Loaded(b) = done.fat
  BY <1>4, <1>11 DEF Loaded
<1>17. fat = Released(Loaded(b), chain)
  BY <1>16 DEF fat
<1>18. PICK f : Releases(T, b, f, then, thenPaths, fat, store)
  <2>1. store = IF chain = <<>> THEN <<>> ELSE Store(fat)
    BY DEF store
  <2>2. Tree(b) \in T
    BY <1>9, <1>11
  <2> QED BY <1>11, <1>14, <1>15, <1>17, <2>1, <2>2, ClustersReleased
<1>19. /\ LaidOut(f, then, thenPaths) /\ Loaded(f) = fat
       /\ Leads(S, b, store, f) /\ Tree(f) = Tree(b)
       /\ b.fat[1] = b.fat[2] => f.fat[1] = f.fat[2]
       /\ Used(f, then) = Used(b, then)
       /\ \A c \in then : /\ Entries(f, c) = Entries(b, c)
                          /\ \A q \in Entries(b, c) : At(f, q) = At(b, q)
  BY <1>18 DEF Releases, S
<1>20. then \subseteq now
  BY <1>11 DEF Without
<1>21. Leads(S, d, after.writes, f)
  <2>1. Leads(S, d, written \o mark, b)
    BY <1>4, <1>12, LeadsOn
  <2>2. Leads(S, d, written \o mark \o store, f)
    BY <1>19, <2>1, LeadsOn
  <2> QED BY <1>2, <2>2
<1>22. after \in Work
  <2>1. fat \in Fat
    <3>1. f \in Disk
      BY <1>19 DEF LaidOut
    <3> QED BY <1>19, <3>1, LoadedFat
  <2>2. written \o mark \o store \in Seq(Write)
    BY <1>2, <1>21, LeadsEnds
  <2> QED BY <2>1, <2>2 DEF Work, after
<1>23. ASSUME Tidy(d, folders) PROVE Tidy(f, then)
  <2>1. /\ e.fat[1] = e.fat[2]
        /\ \A c \in Clusters : Loaded(e)[c] # Free => c \in Used(e, now)
    BY <1>4, <1>23, TidyIs
  <2>2. f.fat[1] = f.fat[2]
    BY <1>11, <1>19, <2>1
  <2>3. ASSUME NEW c \in Clusters, Loaded(f)[c] # Free PROVE c \in Used(f, then)
    <3>1. Loaded(b) \in Fat
      <4>1. b \in Disk
        BY <1>11 DEF LaidOut
      <4> QED BY <4>1, LoadedFat
    <3>2. fat[c] = IF c \in ToSet(chain) THEN Free ELSE Loaded(b)[c]
      BY <1>17, <3>1, ReleasedIs
    <3>3. c \notin ToSet(chain) /\ Loaded(e)[c] # Free
      BY <1>4, <1>16, <1>19, <2>3, <3>2
    <3> QED BY <1>11, <1>13, <1>19, <2>1, <3>3
  <2> QED BY <2>2, <2>3, TidyIs
<1>24. ASSUME NEW c \in then
       PROVE  /\ Entries(f, c) = Entries(d, c) \ (gone \cup {place})
              /\ \A p \in Entries(f, c) : At(f, p) = At(d, p)
  <2>1. Entries(f, c) = Entries(e, c) \ {place} /\ Entries(f, c) = Entries(b, c)
    BY <1>11, <1>19
  <2>2. Entries(e, c) = Entries(d, c) \ gone
    BY <1>4, <1>20
  <2>3. ASSUME NEW p \in Entries(f, c) PROVE At(f, p) = At(d, p)
    <3>1. At(f, p) = At(b, p)
      BY <1>19, <2>1
    <3>2. At(b, p) = At(e, p)
      BY <1>11, <1>20, <2>1
    <3>3. At(e, p) = At(d, p)
      BY <1>4, <1>20, <2>1
    <3> QED BY <3>1, <3>2, <3>3
  <2> QED BY <2>1, <2>2, <2>3
<1>25. ASSUME NEW p \in left \ {place}
       PROVE  \E c \in then : p \in Entries(f, c)
  <2>1. PICK c \in now : p \in Entries(e, c)
    BY <1>4
  <2>2. c \in then
    BY <1>7, <1>11, <2>1 DEF Without
  <2>3. p \in Entries(b, c)
    BY <1>11, <2>1, <2>2
  <2>4. p \in Entries(f, c)
    BY <1>19, <2>2, <2>3
  <2> QED BY <2>2, <2>4
<1>26. Shrinks(d, f, path)
  BY <1>8, <1>11, <1>19 DEF Shrinks
<1>27. \A c \in then : thenPaths[c] = paths[c]
  BY <1>4, <1>11, <1>20
<1>28. Removing(d, f, folders, paths, path, then, thenPaths, after, gone \cup {place},
                left \ {place})
  <2>1. Leads(Within(Removals(d, path)), d, after.writes, f)
    BY <1>21 DEF S, T
  <2>2. then \subseteq folders /\ Loaded(f) = after.fat /\ LaidOut(f, then, thenPaths)
    BY <1>2, <1>4, <1>19, <1>20
  <2> QED BY <1>22, <1>23, <1>24, <1>25, <1>26, <1>27, <2>1, <2>2 DEF Removing
<1> QED BY <1>1, <1>28 DEF Removes

\* The loop of remove().
RemoveRuns(d, places, g) ==
    g = [k \in 0 .. Len(places) |->
            IF k = 0 THEN [fat |-> Loaded(d), writes |-> <<>>]
            ELSE Removed(d, g[k - 1], places[k])]
RemovedAll(d, places) == (CHOOSE g : RemoveRuns(d, places, g))[Len(places)]

\* What a list has up to some place in it, and after that.
UpToPlace(places, k) == {places[i] : i \in 1 .. k}
AfterPlace(places, k) == {places[i] : i \in k + 1 .. Len(places)}

\* An order in which what is under a path can be removed: what is in a folder before
\* the folder.
CanRemove(d, folders, paths, path, places) ==
    /\ places \in Seq(Place)
    /\ \A i, j \in DOMAIN places : places[i] = places[j] => i = j
    /\ \A i \in 1 .. Len(places) : Under(d, folders, paths, path, places[i])
    /\ \A k \in 1 .. Len(places) :
          At(d, places[k]).dir =>
              Entries(d, At(d, places[k]).first) \subseteq UpToPlace(places, k - 1)

\* One turn of the loop.
LEMMA OneRemoved ==
  ASSUME NEW d \in Disk, NEW folders, NEW paths, LaidOut(d, folders, paths), NEW path,
         NEW places, CanRemove(d, folders, paths, path, places),
         NEW k \in 1 .. Len(places), NEW done,
         Removes(d, folders, paths, path, done, UpToPlace(places, k - 1), AfterPlace(places, k - 1))
  PROVE  Removes(d, folders, paths, path, Removed(d, done, places[k]),
                 UpToPlace(places, k), AfterPlace(places, k))
<1> DEFINE gone == UpToPlace(places, k - 1)
           left == AfterPlace(places, k - 1)
           place == places[k]
<1>1. /\ places \in Seq(Place)
      /\ \A i, j \in DOMAIN places : places[i] = places[j] => i = j
      /\ At(d, place).dir => Entries(d, At(d, place).first) \subseteq gone
      /\ Under(d, folders, paths, path, place)
  BY DEF CanRemove
<1>2. k \in Nat /\ (k - 1) + 1 = k /\ Len(places) \in Nat
  BY <1>1
<1>3. place \in left
  BY <1>2 DEF AfterPlace
<1>4. gone \cup {place} = UpToPlace(places, k)
  <2>1. 1 .. k = (1 .. k - 1) \cup {k}
    BY <1>2
  <2> QED BY <2>1 DEF UpToPlace
<1>5. left \ {place} = AfterPlace(places, k)
  <2>1. k .. Len(places) = {k} \cup (k + 1 .. Len(places))
    BY <1>2
  <2>2. \A i \in k + 1 .. Len(places) : places[i] # place
    BY <1>1, <1>2
  <2> QED BY <1>2, <2>1, <2>2 DEF AfterPlace
<1> HIDE DEF gone, left, place
<1>6. Removes(d, folders, paths, path, done, gone, left)
  BY DEF gone, left
<1>7. Removes(d, folders, paths, path, Removed(d, done, place), gone \cup {place},
              left \ {place})
  BY <1>1, <1>3, <1>6, ObjectRemoved
<1> QED BY <1>4, <1>5, <1>7 DEF place

\* The whole loop: everything in the list is gone.
LEMMA AllRemoved ==
  ASSUME NEW d \in Disk, NEW folders, NEW paths, LaidOut(d, folders, paths),
         NEW path, NEW places, CanRemove(d, folders, paths, path, places)
  PROVE  Removes(d, folders, paths, path, RemovedAll(d, places), UpToPlace(places, Len(places)),
                 {})
<1> DEFINE n == Len(places)
           one(k, v) == Removed(d, v, places[k])
           begin == [fat |-> Loaded(d), writes |-> <<>>]
           step == [kv \in (1 .. n) \X Work |-> one(kv[1], kv[2])]
           good(k, v) == Removes(d, folders, paths, path, v,
                                 UpToPlace(places, k), AfterPlace(places, k))
           G == {kv \in (0 .. n) \X Work : good(kv[1], kv[2])}
<1>1. n \in Nat
  BY DEF CanRemove
<1>2. begin \in Work /\ good(0, begin)
  <2>1. Loaded(d) \in Fat /\ <<>> \in Seq(Write) /\ begin.fat = Loaded(d) /\ begin.writes = <<>>
    BY LoadedFat
  <2>2. begin \in Work
    BY <2>1 DEF Work
  <2> HIDE DEF begin
  <2>3. Shrinks(d, d, path) /\ Leads(Within(Removals(d, path)), d, begin.writes, d)
    <3> DEFINE T == Removals(d, path)
    <3>1. Leaving(d, path) \subseteq Tree(d)
      BY DEF Leaving
    <3>2. Tree(d) \in T
      BY <3>1, ShrinksTo
    <3> HIDE DEF T
    <3>3. d \in Within(T)
      BY <3>2, IsWithin
    <3>4. Leads(Within(T), d, begin.writes, d)
      BY <2>1, <3>3, LeadsNowhere
    <3> QED BY <3>1, <3>4 DEF T, Shrinks
  <2>4. UpToPlace(places, 0) = {}
    BY DEF UpToPlace
  <2>5. \A p \in AfterPlace(places, 0) : \E c \in folders : p \in Entries(d, c)
    BY DEF AfterPlace, CanRemove, Under
  <2>6. Removing(d, d, folders, paths, path, folders, paths, begin, UpToPlace(places, 0),
                 AfterPlace(places, 0))
    BY <2>1, <2>2, <2>3, <2>4, <2>5 DEF Removing
  <2> QED BY <2>2, <2>6 DEF Removes
<1>3. ASSUME NEW k \in 1 .. n, NEW v, good(k - 1, v) PROVE good(k, one(k, v)) /\ one(k, v) \in Work
  <2>1. good(k, one(k, v))
    BY <1>3, OneRemoved
  <2> QED BY <2>1 DEF Removes, Removing
<1>4. \A k \in 1 .. n : \A v \in Work : step[<<k, v>>] = one(k, v)
  OBVIOUS
<1> HIDE DEF step, one, good, begin
<1>5. G \in SUBSET ((0 .. n) \X Work) /\ \A k \in 0 .. n : \A v \in Work : <<k, v>> \in G
          <=> good(k, v)
  OBVIOUS
<1> HIDE DEF G
<1>6. <<0, begin>> \in G
  BY <1>1, <1>2, <1>5
<1>7. \A k \in 1 .. n : \A v \in Work : <<k - 1, v>> \in G => <<k, step[<<k, v>>]>> \in G
  <2> SUFFICES ASSUME NEW k \in 1 .. n, NEW v \in Work, <<k - 1, v>> \in G
               PROVE  <<k, step[<<k, v>>]>> \in G
    OBVIOUS
  <2>1. k - 1 \in 0 .. n /\ k \in 0 .. n
    BY <1>1
  <2>2. good(k - 1, v)
    BY <1>5, <2>1
  <2>3. good(k, one(k, v)) /\ one(k, v) \in Work
    BY <1>3, <2>2
  <2> QED BY <1>4, <1>5, <2>1, <2>3
<1>8. PICK f :
        /\ f \in [0 .. n -> Work] /\ f[0] = begin
        /\ \A k \in 1 .. n : f[k] = step[<<k, f[k - 1]>>]
        /\ \A k \in 0 .. n : <<k, f[k]>> \in G
  <2>1. KeepsSteps(n, Work, begin, step, G)
    BY <1>1, <1>5, <1>6, <1>7, StepsKept
  <2> QED BY <2>1 DEF KeepsSteps
<1>9. \A k \in 1 .. n : f[k] = one(k, f[k - 1])
  <2> SUFFICES ASSUME NEW k \in 1 .. n PROVE f[k] = one(k, f[k - 1])
    OBVIOUS
  <2>1. k - 1 \in 0 .. n
    BY <1>1
  <2> QED BY <1>4, <1>8, <2>1
<1> DEFINE g == CHOOSE h : RemoveRuns(d, places, h)
<1>10. RemoveRuns(d, places, g)
  <2>1. \A k \in 0 .. n : f[k] = IF k = 0 THEN begin ELSE Removed(d, f[k - 1], places[k])
    BY <1>1, <1>8, <1>9 DEF one
  <2>2. f = [k \in 0 .. n |-> IF k = 0 THEN begin ELSE Removed(d, f[k - 1], places[k])]
    BY <1>8, <2>1
  <2>3. RemoveRuns(d, places, f)
    BY <2>2 DEF RemoveRuns, begin
  <2> QED BY <2>3
<1> HIDE DEF g
<1>11. g = [k \in 0 .. n |-> IF k = 0 THEN begin ELSE Removed(d, g[k - 1], places[k])]
  BY <1>10 DEF RemoveRuns, begin
<1> HIDE DEF n
<1>12. g[0] = begin /\ \A k \in 1 .. n : g[k] = one(k, g[k - 1])
  <2>1. \A k \in 0 .. n : g[k] = IF k = 0 THEN begin ELSE Removed(d, g[k - 1], places[k])
    BY <1>11
  <2>2. 0 \in 0 .. n /\ \A k \in 1 .. n : k \in 0 .. n /\ k # 0
    BY <1>1
  <2> QED BY <2>1, <2>2 DEF one
<1>13. f[n] = g[n]
  <2>1. f[0] = g[0]
    BY <1>8, <1>12
  <2>2. \A k \in 1 .. n : f[k - 1] = g[k - 1] => f[k] = g[k]
    BY <1>9, <1>12
  <2>3. \A k \in 0 .. n : f[k] = g[k]
    BY <1>1, <2>1, <2>2, SameSteps
  <2> QED BY <1>1, <2>3
<1>14. good(n, f[n])
  <2>1. n \in 0 .. n
    BY <1>1
  <2> QED BY <1>5, <1>8, <2>1
<1>15. AfterPlace(places, n) = {}
  BY <1>1 DEF AfterPlace, n
<1> QED BY <1>13, <1>14, <1>15 DEF good, g, n, RemovedAll

\* Inside(), and then the object itself: an order in which they can be removed.
LEMMA FolderOrder ==
  ASSUME NEW d \in Disk, NEW folders, NEW paths, LaidOut(d, folders, paths), NEW dir \in folders,
         NEW p \in Entries(d, dir), At(d, p).dir,
         NEW path, path = Append(paths[dir], At(d, p).name)
  PROVE  CanRemove(d, folders, paths, path, Append(Inside(d, At(d, p).first), p))
<1> DEFINE first == At(d, p).first
           inside == Inside(d, first)
           places == Append(inside, p)
           n == Len(inside)
<1>1. /\ first \in folders /\ paths[first] = Append(paths[dir], At(d, p).name)
  BY ParentIs
<1>2. Listed(d, folders, paths, first, MaxCluster, inside)
  BY <1>1, InsideListed
<1>3. p \in Place
  <2>1. p \in ToSet(Places(d, dir)) /\ Places(d, dir) \in Seq(Place)
    BY EntryReached, LaidPlaces DEF PlacesKnown
  <2>2. PICK i \in DOMAIN Places(d, dir) : p = Places(d, dir)[i]
    BY <2>1 DEF ToSet
  <2> QED BY <2>1, <2>2
<1> HIDE DEF inside, first
<1>4. Len(paths[first]) + MaxCluster > MaxCluster
  <2>1. paths[dir] \in Seq(Names)
    BY DEF LaidOut
  <2>2. At(d, p).name \in Names
    BY LaidEntry DEF EntryIs
  <2>3. Len(paths[first]) = Len(paths[dir]) + 1
    BY <1>1, <2>1, <2>2, AppendLast
  <2>4. Len(paths[dir]) \in Nat /\ MaxCluster \in Nat
    BY <2>1, SizeAssumption
  <2> QED BY <2>3, <2>4
<1>5. /\ inside \in Seq(Place)
      /\ \A i, j \in DOMAIN inside : inside[i] = inside[j] => i = j
      /\ \A x \in ToSet(inside) : Below(d, folders, paths, first, x)
      /\ Entries(d, first) \subseteq ToSet(inside) /\ Ordered(inside, Before(d))
  BY <1>2, <1>4 DEF Listed
<1>6. p \notin ToSet(inside)
  BY <1>5, NotInItself DEF first
<1>7. n \in Nat /\ Len(places) = n + 1 /\ places \in Seq(Place)
      /\ places[n + 1] = p /\ \A i \in 1 .. n : places[i] = inside[i]
  BY <1>3, <1>5
<1>8. \A i \in 1 .. n : inside[i] \in ToSet(inside)
  BY <1>5 DEF ToSet
<1> HIDE DEF places
<1>9. ASSUME NEW i \in 1 .. n + 1, NEW j \in 1 .. n + 1, places[i] = places[j] PROVE i = j
  <2>1. CASE i \in 1 .. n /\ j \in 1 .. n
    BY <1>5, <1>7, <1>9, <2>1
  <2>2. CASE i = n + 1 /\ j \in 1 .. n
    BY <1>6, <1>7, <1>8, <1>9, <2>2
  <2>3. CASE i \in 1 .. n /\ j = n + 1
    BY <1>6, <1>7, <1>8, <1>9, <2>3
  <2>4. \A k \in 1 .. n + 1 : k \in 1 .. n \/ k = n + 1
    BY <1>7
  <2> QED BY <2>1, <2>2, <2>3, <2>4
<1>10. ASSUME NEW i \in 1 .. n + 1 PROVE Under(d, folders, paths, path, places[i])
  <2>1. CASE i = n + 1
    <3>1. Under(d, folders, paths, path, p)
      BY UnderItself
    <3> QED BY <1>7, <2>1, <3>1
  <2>2. CASE i \in 1 .. n
    <3>1. Below(d, folders, paths, first, inside[i])
      BY <1>5, <1>8, <2>2
    <3>2. PICK g \in folders : IsPrefix(paths[first], paths[g]) /\ inside[i] \in Entries(d, g)
      BY <3>1 DEF Below
    <3>3. paths[g] \in Seq(Names) /\ path \in Seq(Names) /\ IsPrefix(path, paths[g])
      BY <1>1, <3>2 DEF LaidOut
    <3>4. At(d, inside[i]).name \in Names
      BY <3>2, LaidEntry DEF EntryIs
    <3>5. IsPrefix(path, Append(paths[g], At(d, inside[i]).name))
      BY <3>3, <3>4, PrefixOfMore
    <3> QED BY <1>7, <2>2, <3>2, <3>5 DEF Under
  <2> QED BY <1>7, <2>1, <2>2
<1>11. Ordered(places, Before(d))
  <2>1. \A x : <<x, p>> \in Before(d) => x \in ToSet(inside)
    BY <1>5 DEF Before, first
  <2> QED BY <1>3, <1>5, <2>1, AppendOrdered DEF places
<1>12. ASSUME NEW k \in 1 .. n + 1, At(d, places[k]).dir,
              NEW x \in Entries(d, At(d, places[k]).first)
       PROVE  x \in UpToPlace(places, k - 1)
  <2> DEFINE q == places[k]
             c == At(d, q).first
  <2>1. PICK home \in folders : q \in Entries(d, home)
    BY <1>10 DEF Under
  <2>2. c \in folders
    BY <1>12, <2>1, ParentIs
  <2>3. x \in ToSet(Places(d, c)) /\ Places(d, c) \in Seq(Place)
    BY <1>12, <2>2, EntryReached, LaidPlaces DEF PlacesKnown
  <2>4. PICK i \in DOMAIN Places(d, c) : x = Places(d, c)[i]
    BY <2>3 DEF ToSet
  <2>5. x \in Place
    BY <2>3, <2>4
  <2>6. q \in Place
    BY <1>7
  <2>7. <<x, q>> \in Before(d)
    BY <1>12, <2>5, <2>6 DEF Before
  <2>8. PICK j \in 1 .. k - 1 : places[j] = x
    BY <1>7, <1>11, <2>7 DEF Ordered
  <2> QED BY <2>8 DEF UpToPlace
<1>13. DOMAIN places = 1 .. n + 1
  BY <1>7
<1>14. CanRemove(d, folders, paths, path, places)
  BY <1>7, <1>9, <1>10, <1>12, <1>13 DEF CanRemove
<1> QED BY <1>14 DEF places, inside, first

\* A file is removed alone.
LEMMA FileOrder ==
  ASSUME NEW d \in Disk, NEW folders, NEW paths, LaidOut(d, folders, paths), NEW dir \in folders,
         NEW p \in Entries(d, dir), ~ At(d, p).dir,
         NEW path, path = Append(paths[dir], At(d, p).name)
  PROVE  CanRemove(d, folders, paths, path, <<p>>)
<1>1. p \in Place
  <2>1. p \in ToSet(Places(d, dir)) /\ Places(d, dir) \in Seq(Place)
    BY EntryReached, LaidPlaces DEF PlacesKnown
  <2>2. PICK i \in DOMAIN Places(d, dir) : p = Places(d, dir)[i]
    BY <2>1 DEF ToSet
  <2> QED BY <2>1, <2>2
<1>2. <<p>> \in Seq(Place) /\ Len(<<p>>) = 1 /\ <<p>>[1] = p
  BY <1>1, OneListed
<1>3. \A i \in 1 .. 1 : i = 1
  OBVIOUS
<1>4. DOMAIN <<p>> = 1 .. 1
  BY <1>2
<1>5. Under(d, folders, paths, path, p)
  BY UnderItself
<1> QED BY <1>2, <1>3, <1>4, <1>5 DEF CanRemove

\* remove() of a file, or of a folder with everything in it.
LEMMA DeleteGoes ==
  ASSUME NEW folders, NEW paths, Begins(folders, paths), NEW path \in Paths, Delete(path)
  PROVE  BeginsWell(folders)
<1>1. LaidOut(disk, folders, paths)
  BY DEF Begins
<1>2. disk \in Disk
  BY <1>1 DEF LaidOut
<1> DEFINE list(place) ==
             (IF At(disk, place).dir THEN Inside(disk, At(disk, place).first) ELSE <<>>)
                 \o <<place>>
<1>3. PICK place \in Object(disk, path) :
        Begin([kind |-> "remove", path |-> path], RemovedAll(disk, list(place)).writes)
  BY DEF Delete, RemovedAll, RemoveRuns
<1> DEFINE places == list(place)
           done == RemovedAll(disk, places)
<1>4. PICK dir : EntryAt(folders, paths, path, dir, place)
  BY EntryOf
<1>5. dir \in folders /\ place \in Entries(disk, dir)
  BY <1>4 DEF EntryAt, PlaceOf
<1>6. path = Append(paths[dir], At(disk, place).name) /\ path \in Seq(Names) /\ path # <<>>
  BY <1>4, PathIs DEF EntryAt, PlaceOf
<1>7. CanRemove(disk, folders, paths, path, places)
  <2>1. CASE At(disk, place).dir
    <3> DEFINE inside == Inside(disk, At(disk, place).first)
    <3>1. CanRemove(disk, folders, paths, path, Append(inside, place))
      BY <1>1, <1>2, <1>5, <1>6, <2>1, FolderOrder
    <3>2. inside \in Seq(Place)
      <4>1. At(disk, place).first \in folders
        BY <1>1, <1>5, <2>1, ParentIs
      <4> QED BY <1>1, <4>1, InsideListed DEF Listed
    <3>3. places = inside \o <<place>>
      BY <2>1
    <3> HIDE DEF inside
    <3>4. inside \o <<place>> = Append(inside, place)
      BY <3>2
    <3> QED BY <3>1, <3>3, <3>4
  <2>2. CASE ~ At(disk, place).dir
    <3>1. places = <<>> \o <<place>>
      BY <2>2
    <3>2. <<>> \o <<place>> = <<place>>
      OBVIOUS
    <3>3. CanRemove(disk, folders, paths, path, <<place>>)
      BY <1>1, <1>2, <1>5, <1>6, <2>2, FileOrder
    <3> QED BY <3>1, <3>2, <3>3
  <2> QED BY <2>1, <2>2
<1>8. place \in UpToPlace(places, Len(places))
  <2> DEFINE inside == IF At(disk, place).dir THEN Inside(disk, At(disk, place).first) ELSE <<>>
  <2>1. inside \in Seq(Place)
    <3>1. At(disk, place).dir => At(disk, place).first \in folders
      BY <1>1, <1>5, ParentIs
    <3> QED BY <1>1, <3>1, InsideListed DEF Listed
  <2>2. places = inside \o <<place>>
    OBVIOUS
  <2> HIDE DEF inside, places
  <2>3. Len(inside) + 1 \in 1 .. Len(places) /\ places[Len(inside) + 1] = place
    BY <2>1, <2>2
  <2> QED BY <2>3 DEF UpToPlace
<1> HIDE DEF places
<1> DEFINE gone == UpToPlace(places, Len(places))
<1>9. Removes(disk, folders, paths, path, done, gone, {})
  BY <1>1, <1>2, <1>7, AllRemoved
<1>10. PICK e, now, nowPaths :
        Removing(disk, e, folders, paths, path, now, nowPaths, done, gone, {})
  BY <1>9 DEF Removes
<1>11. call' = [kind |-> "remove", path |-> path] /\ todo' = done.writes /\ base' = disk
  BY <1>3 DEF Begin, places
<1> HIDE DEF done
<1>12. /\ LaidOut(e, now, nowPaths) /\ now \subseteq folders
       /\ Leads(Within(Removals(disk, path)), disk, done.writes, e)
       /\ Tidy(disk, folders) => Tidy(e, now)
       /\ Shrinks(disk, e, path)
       /\ \A c \in now : nowPaths[c] = paths[c]
       /\ \A c \in now : /\ Entries(e, c) = Entries(disk, c) \ gone
                         /\ \A p \in Entries(e, c) : At(e, p) = At(disk, p)
  BY <1>10 DEF Removing
<1>13. ~ EntryWith(e, now, nowPaths, path)
  <2> SUFFICES ASSUME NEW c \in now, NEW q \in Entries(e, c),
                      path = Append(nowPaths[c], At(e, q).name)
               PROVE  FALSE
    BY DEF EntryWith
  <2>1. q \in Entries(disk, c) /\ q \notin gone /\ c \in folders
    BY <1>12
  <2>2. Append(paths[c], At(disk, q).name) = Append(paths[dir], At(disk, place).name)
    BY <1>6, <1>12
  <2>3. q = place
    BY <1>1, <1>5, <2>1, <2>2, OnePath
  <2> QED BY <1>8, <2>1, <2>3
<1>14. Tree(e) = Leaving(disk, path)
  <2>1. \A t \in Tree(e) : ~ IsPrefix(path, t.path)
    BY <1>6, <1>12, <1>13, NothingUnder
  <2> QED BY <1>12, <2>1 DEF Leaving, Shrinks
<1> DEFINE what == [kind |-> "remove", path |-> path]
           after == PromisedBy(calls + 1, Tree(disk), what)
<1>15. what.kind = "remove" /\ what.path = path
  OBVIOUS
<1>16. call' = what
  BY <1>11
<1> HIDE DEF what
<1>17. after = Leaving(disk, path)
  BY <1>15 DEF PromisedBy, Leaving
<1>18. Through(calls + 1, what, disk) = Within(Removals(disk, path))
  BY <1>15, <1>17 DEF Through, Overwrites, Trees, Removals
<1> HIDE DEF after
<1>19. Goes(Within(Removals(disk, path)), disk, folders, after, done.writes)
  BY <1>12, <1>14, <1>17 DEF Goes
<1> QED BY <1>11, <1>16, <1>18, <1>19 DEF BeginsWell, after
(***************************************************************************)
(* The session: calls follow one another, and may be interrupted.          *)
(***************************************************************************)

\* What the blocks that are still to be written lead to, and through what.
Awaits(e, folders, paths) ==
    /\ LaidOut(e, folders, paths)
    /\ ~ crashed => Tidy(e, folders)
    /\ ~ Quiet => Tree(e) = PromisedBy(calls, Tree(base), call)
    /\ Leads(Through(calls, call, base), disk, todo, e)
Ahead == \E e, folders, paths : Awaits(e, folders, paths)

\* The inductive invariant.  Whoever opened the volume or mounted it again after
\* an interruption: the rest of the call leads to a sound volume with the tree that
\* the call promises.  On the way there are sound volumes with a tree between the old
\* and the new one; when an object moves, the volumes need not be sound, and when a
\* call overwrites clusters in use, they can be anything.
IInv ==
    /\ TypeOK
    /\ torn => Quiet /\ crashed
    /\ ~ torn => Ahead

\* Between two calls the disk itself is what they lead to.
LEMMA AtRest ==
  ASSUME IInv, Quiet, ~ torn
  PROVE  \E folders, paths : LaidOut(disk, folders, paths) /\ (~ crashed => Tidy(disk, folders))
<1>1. PICK e, folders, paths : Awaits(e, folders, paths)
  BY DEF IInv, Ahead
<1>2. disk = e
  BY <1>1, LeadsEnds DEF Quiet, Awaits
<1> QED BY <1>1, <1>2 DEF Awaits

\* A disk through which a call may lead is a disk.
LEMMA ThroughDisks == \A n, what, before : Through(n, what, before) \subseteq Disk
BY DEF Through, Safe, Within, Holding

\* The volumes a session opens are sound.
LEMMA OpensWell == Init => IInv
<1> SUFFICES ASSUME Init PROVE IInv
  OBVIOUS
<1>1. /\ disk \in Volumes /\ todo = <<>> /\ call = [kind |-> "none"] /\ base = disk
      /\ calls = 0 /\ crashed = FALSE /\ torn = FALSE
  BY DEF Init
<1> DEFINE folders == FoldersOf(disk)
           paths == PathsOf(disk)
<1>2. LaidOut(disk, folders, paths) /\ Tidy(disk, folders)
  BY <1>1, VolumesAssumption
<1> HIDE DEF folders, paths
<1>3. disk \in Disk
  BY <1>2 DEF LaidOut
<1>4. Leads(Through(calls, call, base), disk, todo, disk)
  <2> DEFINE T == Trees(calls, call, base)
  <2>1. call.kind = "none"
    BY <1>1
  <2>2. Through(calls, call, base) = Within(T)
    BY <2>1 DEF Through, Overwrites
  <2>3. Tree(disk) \in T
    BY <1>1, PossibleEnds DEF Trees
  <2> HIDE DEF T
  <2>4. disk \in Within(T)
    BY <1>2, <2>3, IsWithin
  <2> QED BY <1>1, <1>3, <2>2, <2>4, LeadsNowhere
<1>5. Ahead
  BY <1>1, <1>2, <1>4 DEF Ahead, Awaits, Quiet
<1>6. TypeOK
  <2>1. todo \in Seq(Write)
    BY <1>1
  <2>2. calls \in 0 .. MaxCalls
    BY <1>1, BoundAssumption
  <2> QED BY <1>1, <1>3, <2>1, <2>2 DEF TypeOK
<1> QED BY <1>1, <1>5, <1>6 DEF IInv

\* A call that begins.
Starts == calls' = calls + 1 /\ UNCHANGED <<disk, crashed, torn>> /\ base' = disk

\* A call starts when the volume is open, with nothing left to write; it changes no
\* block itself.
LEMMA CallStarts ==
  ASSUME Call
  PROVE  Ready /\ Starts
<1>1. ASSUME NEW path \in Paths, NEW size \in 0 .. MaxSize, Create(path, size)
      PROVE  Ready /\ Starts
  BY <1>1 DEF Create, Begin, Starts
<1>2. ASSUME NEW path \in Paths, NEW size \in 0 .. MaxSize, Replace(path, size)
      PROVE  Ready /\ Starts
  BY <1>2 DEF Replace, Begin, Starts
<1>3. ASSUME NEW path \in Paths, MakeFolder(path) PROVE Ready /\ Starts
  BY <1>3 DEF MakeFolder, Begin, Starts
<1>4. ASSUME NEW path \in Paths, Delete(path) PROVE Ready /\ Starts
  BY <1>4 DEF Delete, Begin, Starts
<1>5. ASSUME NEW from \in Paths, NEW to \in Paths, Move(from, to) PROVE Ready /\ Starts
  BY <1>5 DEF Move, Begin, Starts
<1>6. ASSUME NEW from \in Paths, NEW to \in Paths, Rename(from, to) PROVE Ready /\ Starts
  BY <1>6 DEF Rename, Begin, Starts
<1>7. CASE Defragment
  BY <1>7 DEF Defragment, Begin, Starts
<1> QED BY <1>1, <1>2, <1>3, <1>4, <1>5, <1>6, <1>7 DEF Call

\* Whatever is called on a sound volume, its writes lead to a sound one.
LEMMA CallGoes ==
  ASSUME NEW folders, NEW paths, Begins(folders, paths), Call
  PROVE  BeginsWell(folders)
<1>1. ASSUME NEW path \in Paths, NEW size \in 0 .. MaxSize, Create(path, size)
      PROVE  BeginsWell(folders)
  BY <1>1, CreateGoes
<1>2. ASSUME NEW path \in Paths, NEW size \in 0 .. MaxSize, Replace(path, size)
      PROVE  BeginsWell(folders)
  BY <1>2, ReplaceGoes
<1>3. ASSUME NEW path \in Paths, MakeFolder(path) PROVE BeginsWell(folders)
  BY <1>3, MakeFolderGoes
<1>4. ASSUME NEW path \in Paths, Delete(path) PROVE BeginsWell(folders)
  BY <1>4, DeleteGoes
<1>5. ASSUME NEW from \in Paths, NEW to \in Paths, Move(from, to) PROVE BeginsWell(folders)
  BY <1>5, MoveGoes
<1>6. ASSUME NEW from \in Paths, NEW to \in Paths, Rename(from, to) PROVE BeginsWell(folders)
  BY <1>6, RenameGoes
<1>7. CASE Defragment
  BY <1>7, DefragmentGoes
<1> QED BY <1>1, <1>2, <1>3, <1>4, <1>5, <1>6, <1>7 DEF Call

\* Every step keeps the invariant: a call that begins,
LEMMA CallKeeps ==
  ASSUME IInv, Call
  PROVE  IInv'
<1>1. /\ Quiet /\ ~ torn /\ calls < MaxCalls
      /\ calls' = calls + 1 /\ disk' = disk /\ crashed' = crashed /\ torn' = torn /\ base' = disk
  BY CallStarts DEF Ready, Starts
<1>2. TypeOK
  BY DEF IInv
<1>3. PICK folders, paths : LaidOut(disk, folders, paths) /\ (~ crashed => Tidy(disk, folders))
  BY <1>1, AtRest
<1>4. Begins(folders, paths)
  BY <1>2, <1>3 DEF Begins, TypeOK
<1>5. BeginsWell(folders)
  BY <1>4, CallGoes
<1>6. PICK e, folders2, paths2 :
        /\ LaidOut(e, folders2, paths2) /\ Tree(e) = PromisedBy(calls + 1, Tree(disk), call')
        /\ Tidy(disk, folders) => Tidy(e, folders2)
        /\ Leads(Through(calls + 1, call', base'), disk, todo', e)
  BY <1>5 DEF BeginsWell, Goes
<1>7. Ahead'
  <2>1. ~ crashed' => Tidy(e, folders2)
    BY <1>1, <1>3, <1>6
  <2>2. Leads(Through(calls', call', base'), disk', todo', e)
    BY <1>1, <1>6
  <2>3. Tree(e) = PromisedBy(calls', Tree(base'), call')
    BY <1>1, <1>6
  <2>4. Awaits(e, folders2, paths2)'
    BY <1>6, <2>1, <2>2, <2>3 DEF Awaits
  <2> QED BY <2>4 DEF Ahead
<1>8. TypeOK'
  <2>1. todo' \in Seq(Write)
    BY <1>6, LeadsEnds
  <2>2. calls' \in 0 .. MaxCalls
    BY <1>1, <1>2, BoundAssumption DEF TypeOK
  <2> QED BY <1>1, <1>2, <2>1, <2>2 DEF TypeOK
<1> QED BY <1>1, <1>7, <1>8 DEF IInv

\* a block that is written,
LEMMA WriteKeeps ==
  ASSUME IInv, WriteBlock
  PROVE  IInv'
<1>1. /\ todo # <<>> /\ disk' = Written(disk, Head(todo)) /\ todo' = Tail(todo)
      /\ call' = call /\ base' = base /\ calls' = calls /\ crashed' = crashed /\ torn' = torn
  BY DEF WriteBlock, Quiet
<1>2. TypeOK /\ ~ torn /\ Ahead
  BY <1>1 DEF IInv, Quiet
<1>3. PICK e, folders, paths : Awaits(e, folders, paths)
  BY <1>2 DEF Ahead
<1>4. Leads(Through(calls, call, base), disk', todo', e)
  BY <1>1, <1>3, LeadsNext DEF Awaits
<1>5. Ahead'
  <2>1. Leads(Through(calls', call', base'), disk', todo', e)
    BY <1>1, <1>4
  <2>2. (~ crashed' => Tidy(e, folders)) /\ LaidOut(e, folders, paths)
    BY <1>1, <1>3 DEF Awaits
  <2>3. Tree(e) = PromisedBy(calls', Tree(base'), call')
    BY <1>1, <1>3 DEF Awaits, Quiet
  <2>4. Awaits(e, folders, paths)'
    BY <2>1, <2>2, <2>3 DEF Awaits
  <2> QED BY <2>4 DEF Ahead
<1>6. TypeOK'
  <2>1. disk' \in Disk /\ todo' \in Seq(Write)
    BY <1>4, LeadsEnds, ThroughDisks
  <2> QED BY <1>1, <1>2, <2>1 DEF TypeOK
<1> QED BY <1>1, <1>2, <1>5, <1>6 DEF IInv

\* and an interruption.
LEMMA CrashKeeps ==
  ASSUME IInv, Crash
  PROVE  IInv'
<1>1. /\ todo # <<>> /\ todo' = <<>> /\ crashed' = TRUE /\ torn' = Unsafe(call, base)
      /\ disk' = disk /\ call' = call /\ base' = base /\ calls' = calls
  BY DEF Crash, Quiet, Unsafe
<1>2. TypeOK /\ ~ torn /\ Ahead
  BY <1>1 DEF IInv, Quiet
<1>3. PICK e, folders, paths : Awaits(e, folders, paths)
  BY <1>2 DEF Ahead
<1>4. TypeOK'
  <2>1. todo' \in Seq(Write)
    BY <1>1
  <2>2. torn' \in BOOLEAN
    BY <1>1 DEF Unsafe
  <2> QED BY <1>1, <1>2, <2>1, <2>2 DEF TypeOK
<1>5. ASSUME ~ torn' PROVE Ahead'
  <2> DEFINE S == Through(calls, call, base)
  <2>1. S = Within(Trees(calls, call, base))
    BY <1>1, <1>5 DEF Through, Unsafe, Overwrites
  <2>2. disk \in S
    BY <1>3, LeadsEnds DEF Awaits
  <2>3. disk \in Safe /\ disk \in Disk
    BY <2>1, <2>2 DEF Within, Safe
  <2> HIDE DEF S
  <2>4. PICK folders2, paths2 : LaidOut(disk, folders2, paths2)
    BY <2>3 DEF Safe
  <2>5. Leads(S, disk, <<>>, disk)
    BY <2>2, <2>3, LeadsNowhere
  <2>6. Leads(Through(calls', call', base'), disk', todo', disk)
    BY <1>1, <2>5 DEF S
  <2>7. Awaits(disk, folders2, paths2)'
    BY <1>1, <2>4, <2>6 DEF Awaits, Quiet
  <2> QED BY <2>7 DEF Ahead
<1> QED BY <1>1, <1>4, <1>5 DEF IInv, Quiet

\* Every step keeps the invariant: a call, a block that is written, a crash.
LEMMA StepKeeps ==
  ASSUME IInv, [Next]_vars
  PROVE  IInv'
<1>1. CASE Call
  BY <1>1, CallKeeps
<1>2. CASE WriteBlock
  BY <1>2, WriteKeeps
<1>3. CASE Crash
  BY <1>3, CrashKeeps
<1>4. CASE UNCHANGED vars
  BY <1>4 DEF IInv, TypeOK, Quiet, Ahead, Awaits, vars
<1> QED BY <1>1, <1>2, <1>3, <1>4 DEF Next, NoMoreCalls

\* What is left to write always leads to a laid out volume with what the call promises,
\* and between two blocks the volume is one that a crash may leave.
THEOREM VolumeInvariant == Spec => []IInv
<1>1. Init => IInv
  BY OpensWell
<1>2. IInv /\ [Next]_vars => IInv'
  BY StepKeeps
<1> QED BY <1>1, <1>2, PTL DEF Spec

\* The copies of the FAT, the directories and the clusters hold what they can
\* hold, and so do the blocks to be written.
THEOREM VolumeTyped == Spec => []TypeOK
<1>1. IInv => TypeOK
  BY DEF IInv
<1> QED BY <1>1, VolumeInvariant, PTL

\* validate() finds nothing on a volume on which every call came to its end, and
\* the parent record of every folder names the folder it is in.
THEOREM VolumeStaysValid == Spec => []VolumeValid
<1>1. IInv => VolumeValid
  <2> SUFFICES ASSUME IInv, Quiet, ~ crashed PROVE Problems(disk) = {} /\ ParentsTrue(disk)
    BY DEF VolumeValid
  <2>1. ~ torn
    BY DEF IInv
  <2>2. PICK folders, paths : LaidOut(disk, folders, paths) /\ Tidy(disk, folders)
    BY <2>1, AtRest
  <2> QED BY <2>2, LaidOutProblems, LaidOutParents
<1> QED BY <1>1, VolumeInvariant, PTL

\* Wherever calls are interrupted, unless one replaces, moves or defragments:
\* validate() finds no more than lost clusters and an old copy of the FAT, and
\* every file is whole.
THEOREM CrashesOnlyLeak == Spec => []CrashLeavesOnlyLeaks
<1>1. IInv => CrashLeavesOnlyLeaks
  <2> SUFFICES ASSUME IInv, Quiet, ~ torn
               PROVE  Problems(disk) \subseteq {"copies", "lost"} /\ FilesWhole(disk)
    BY DEF CrashLeavesOnlyLeaks
  <2>1. PICK folders, paths : LaidOut(disk, folders, paths)
    BY AtRest
  <2> QED BY <2>1, LaidOutProblems, LaidOutWhole
<1> QED BY <1>1, VolumeInvariant, PTL

\* What the invariant says of the call that is being carried out.
LEMMA CallAwaits ==
  ASSUME IInv, todo # <<>>
  PROVE  \E e : /\ Tree(e) = Promised(Tree(base), call)
               /\ Leads(Through(calls, call, base), disk, todo, e)
<1>1. PICK e, folders, paths : Awaits(e, folders, paths)
  BY DEF IInv, Ahead, Quiet
<1> QED BY <1>1 DEF Awaits, Quiet, Promised, PromisedBy

\* A call that comes to its end leaves what it promises: the new file, the folder, the
\* object under its new path, nothing at the path it deleted, and every other object
\* with the path and the content it had.
THEOREM CallsDoAsPromised == Spec => EffectAsPromised
<1>1. IInv => [Finishes => Tree(disk') = Promised(Tree(base), call)]_vars
  <2> SUFFICES ASSUME IInv, Finishes PROVE Tree(disk') = Promised(Tree(base), call)
    OBVIOUS
  <2>1. Len(todo) = 1 /\ disk' = Written(disk, Head(todo)) /\ todo \in Seq(Write)
    BY DEF Finishes, IInv, TypeOK
  <2>2. todo # <<>> /\ Tail(todo) = <<>>
    <3>1. Len(<<>>) = 0
      OBVIOUS
    <3>2. todo # <<>>
      BY <2>1, <3>1
    <3>3. Tail(todo) \in Seq(Write) /\ Len(Tail(todo)) = 0
      BY <2>1, <3>2
    <3> QED BY <3>2, <3>3, NoneIn
  <2>3. PICK e : /\ Tree(e) = Promised(Tree(base), call)
                 /\ Leads(Through(calls, call, base), disk, todo, e)
    BY <2>2, CallAwaits
  <2>4. Leads(Through(calls, call, base), disk', <<>>, e)
    BY <2>1, <2>2, <2>3, LeadsNext
  <2>5. disk' = e
    BY <2>4, LeadsEnds
  <2> QED BY <2>3, <2>5
<1> QED BY <1>1, VolumeInvariant, PTL DEF EffectAsPromised

\* A call that dies half-way leaves a part of what was there and of what it promises,
\* and all of one of them: nothing else is gone.  A file that is replaced and a
\* volume that is defragmented are excepted.
THEOREM CrashesLeaveBetween == Spec => CrashBetween
<1>1. IInv => [Dies /\ ~ InPlace =>
                  Between(Tree(base), Promised(Tree(base), call), Tree(disk))]_vars
  <2> SUFFICES ASSUME IInv, Dies, ~ InPlace
               PROVE  Between(Tree(base), Promised(Tree(base), call), Tree(disk))
    OBVIOUS
  <2>1. PICK e : Leads(Through(calls, call, base), disk, todo, e)
    BY CallAwaits DEF Dies, Quiet
  <2>2. disk \in Through(calls, call, base)
    BY <2>1, LeadsEnds
  <2>3. ~ Overwrites(call, base)
    BY DEF InPlace, Overwrites
  <2>4. Tree(disk) \in Trees(calls, call, base)
    BY <2>2, <2>3 DEF Through, Holding, Within
  <2>5. PromisedBy(calls, Tree(base), call) = Promised(Tree(base), call)
    BY DEF PromisedBy, Promised
  <2> QED BY <2>4, <2>5 DEF Trees, Possible, Between
<1> QED BY <1>1, VolumeInvariant, PTL DEF CrashBetween

=============================================================================
