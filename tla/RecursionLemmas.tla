-------------------------- MODULE RecursionLemmas --------------------------
(***************************************************************************)
(* Facts about numbers, recursive functions and sequences of sequences     *)
(* that proofs about the algorithms of the application rest on.  They are  *)
(* stated for sets and functions instead of operators: a set of numbers    *)
(* stands for what is proved by induction, a function for one step of a    *)
(* recursion.                                                              *)
(***************************************************************************)
EXTENDS Integers, SequencesExt, FiniteSetTheorems, WellFoundedInduction, TLAPS

\* Some number of a set is the least: of the places of a directory where a
\* record may go there is a first one.
LEMMA LeastNumber ==
  ASSUME NEW T \in SUBSET Nat, T # {}
  PROVE  \E m \in T : \A k \in T : m <= k
<1> DEFINE R == {ss \in Nat \X Nat : ss[1] < ss[2]}
<1>1. IsWellFoundedOn(R, Nat)
  BY NatLessThanWellFounded DEF OpToRel
<1> HIDE DEF R
<1>2. PICK x \in T : \A y \in T : ~(<<y, x>> \in R)
  BY <1>1, WFMin
<1>3. \A y \in T : ~(y < x)
  BY <1>2 DEF R
<1> QED BY <1>2, <1>3

\* What holds of 0 and goes from each number below n to the next holds of all
\* numbers up to n: walks along a chain, loops over a list.
LEMMA UpTo ==
  ASSUME NEW n \in Nat, NEW T, 0 \in T,
         \A k \in 0 .. n - 1 : k \in T => k + 1 \in T
  PROVE  0 .. n \subseteq T
<1> SUFFICES ASSUME NEW b \in 0 .. n, b \notin T PROVE FALSE
  OBVIOUS
<1> DEFINE U == {k \in 0 .. n : k \notin T}
<1>1. PICK m \in U : \A k \in U : m <= k
  <2>1. U \in SUBSET Nat /\ U # {}
    OBVIOUS
  <2> HIDE DEF U
  <2> QED BY <2>1, LeastNumber
<1>2. m # 0 /\ m - 1 \in 0 .. n - 1
  BY <1>1
<1>3. m - 1 \in T
  BY <1>1, <1>2
<1>4. (m - 1) + 1 \in T
  BY <1>2, <1>3
<1> QED BY <1>1, <1>2, <1>4

\* The same without an upper end.
LEMMA Always ==
  ASSUME NEW T, 0 \in T, \A k \in Nat : k \in T => k + 1 \in T
  PROVE  Nat \subseteq T
<1> SUFFICES ASSUME NEW n \in Nat PROVE n \in T
  OBVIOUS
<1>1. 0 .. n \subseteq T
  BY UpTo
<1> QED BY <1>1

\* A function on 0 .. n that starts with a value and makes n steps.
HasSteps(n, V, first, step) ==
    \E f \in [0 .. n -> V] : f[0] = first /\ \A k \in 1 .. n : f[k] = step[<<k, f[k - 1]>>]

\* There is a function that goes from a first value to the next by given steps:
\* the recursive functions of the model are well defined.
LEMMA StepsExist ==
  ASSUME NEW n \in Nat, NEW V, NEW first \in V, NEW step \in [(1 .. n) \X V -> V]
  PROVE  HasSteps(n, V, first, step)
<1> DEFINE Until(f, m) == /\ f \in [0 .. n -> V]
                          /\ f[0] = first
                          /\ \A k \in 1 .. m : f[k] = step[<<k, f[k - 1]>>]
           T == {m \in 0 .. n : \E f : Until(f, m)}
<1>1. 0 \in T
  <2> DEFINE f == [k \in 0 .. n |-> first]
  <2>1. Until(f, 0)
    OBVIOUS
  <2> HIDE DEF f
  <2> QED BY <2>1
<1>2. ASSUME NEW m \in 0 .. n - 1, m \in T
      PROVE  m + 1 \in T
  <2>1. PICK f : Until(f, m)
    BY <1>2
  <2> DEFINE g == [f EXCEPT ![m + 1] = step[<<m + 1, f[m]>>]]
  <2>2. m \in 0 .. n /\ m + 1 \in 1 .. n /\ m + 1 \in 0 .. n
    OBVIOUS
  <2>3. f[m] \in V /\ step[<<m + 1, f[m]>>] \in V
    BY <2>1, <2>2
  <2>4. g \in [0 .. n -> V]
    BY <2>1, <2>3
  <2>5. \A k \in 1 .. m : g[k] = f[k] /\ g[k - 1] = f[k - 1]
    BY <2>1
  <2>6. g[0] = first /\ g[m + 1] = step[<<m + 1, g[m]>>]
    <3>1. 0 \in 0 .. n /\ m + 1 # 0 /\ m + 1 # m
      BY <2>2
    <3>2. g[0] = f[0] /\ g[m] = f[m] /\ g[m + 1] = step[<<m + 1, f[m]>>]
      BY <2>1, <2>2, <3>1
    <3> QED BY <2>1, <3>2
  <2> HIDE DEF g
  <2>7. \A k \in 1 .. m : g[k] = step[<<k, g[k - 1]>>]
    BY <2>1, <2>5
  <2>8. \A k \in 1 .. m + 1 : k = m + 1 \/ k \in 1 .. m
    OBVIOUS
  <2>9. \A k \in 1 .. m + 1 : g[k] = step[<<k, g[k - 1]>>]
    BY <2>6, <2>7, <2>8
  <2>10. Until(g, m + 1)
    BY <2>4, <2>6, <2>9
  <2> QED BY <2>2, <2>10
<1> HIDE DEF T
<1>3. n \in T
  <2>1. 0 .. n \subseteq T
    BY <1>1, <1>2, UpTo
  <2> QED BY <2>1
<1>4. PICK f : Until(f, n)
  BY <1>3 DEF T
<1> QED BY <1>4 DEF HasSteps

\* Where lists of these lengths begin when they are laid end to end.
Offsets(n, len, off) ==
    /\ n \in Nat /\ len \in [1 .. n -> Nat] /\ off \in [0 .. n -> Nat]
    /\ off[0] = 0 /\ \A k \in 1 .. n : off[k] = off[k - 1] + len[k]

\* Which of them a place falls into.
Falls(n, len, off, m) == \E k \in 1 .. n : \E i \in 1 .. len[k] : m = off[k - 1] + i

\* Each begins after the one before.
LEMMA Grows ==
  ASSUME NEW n, NEW len, NEW off, Offsets(n, len, off)
  PROVE  \A j \in 0 .. n : \A k \in j .. n : off[j] <= off[k]
<1> USE DEF Offsets
<1> SUFFICES ASSUME NEW j \in 0 .. n PROVE \A k \in j .. n : off[j] <= off[k]
  OBVIOUS
<1> DEFINE T == {m \in 0 .. n - j : off[j] <= off[j + m]}
<1>1. 0 \in T
  OBVIOUS
<1>2. ASSUME NEW m \in 0 .. (n - j) - 1, m \in T PROVE m + 1 \in T
  <2>1. j + (m + 1) \in 1 .. n /\ (j + (m + 1)) - 1 = j + m /\ j + m \in 0 .. n
    OBVIOUS
  <2>2. off[j + (m + 1)] = off[j + m] + len[j + (m + 1)] /\ off[j + m] \in Nat
    BY <2>1
  <2>3. len[j + (m + 1)] \in Nat /\ off[j] \in Nat
    BY <2>1
  <2> QED BY <1>2, <2>2, <2>3
<1> HIDE DEF T
<1>3. 0 .. n - j \subseteq T
  <2>1. n - j \in Nat
    OBVIOUS
  <2> QED BY <1>1, <1>2, <2>1, UpTo
<1>4. ASSUME NEW k \in j .. n PROVE off[j] <= off[k]
  <2>1. k - j \in 0 .. n - j /\ j + (k - j) = k
    OBVIOUS
  <2>2. k - j \in T
    BY <1>3, <2>1
  <2> QED BY <2>1, <2>2 DEF T
<1> QED BY <1>4

\* What is in a list stands at some place in it.
LEMMA InList ==
  ASSUME NEW S, NEW s \in Seq(S)
  PROVE  \A x : x \in ToSet(s) <=> \E i \in 1 .. Len(s) : s[i] = x
BY DEF ToSet

\* Two lists are the same if the same stands at every place of both.
LEMMA SameList ==
  ASSUME NEW S, NEW s \in Seq(S), NEW t \in Seq(S), Len(s) = Len(t),
         \A i \in 1 .. Len(s) : s[i] = t[i]
  PROVE  s = t
<1>1. s = [i \in 1 .. Len(s) |-> s[i]] /\ t = [i \in 1 .. Len(t) |-> t[i]]
  OBVIOUS
<1> QED BY <1>1

\* What stands where in two lists laid end to end.
EndToEnd(S, one, two) ==
    /\ one \o two \in Seq(S)
    /\ Len(one \o two) = Len(one) + Len(two)
    /\ \A i \in 1 .. Len(one) : (one \o two)[i] = one[i]
    /\ \A i \in 1 .. Len(two) : (one \o two)[Len(one) + i] = two[i]

\* Two lists laid end to end are as long as both, and nothing changes its order.
LEMMA TwoLists ==
  ASSUME NEW S, NEW one \in Seq(S), NEW two \in Seq(S)
  PROVE  EndToEnd(S, one, two)
BY DEF EndToEnd

\* Where the elements of each list are when lists are laid end to end.
LaidFrom(S, lists, off) ==
    /\ off \in [0 .. Len(lists) -> Nat]
    /\ off[0] = 0
    /\ \A k \in 1 .. Len(lists) : off[k] = off[k - 1] + Len(lists[k])
    /\ FlattenSeq(lists) \in Seq(S)
    /\ Len(FlattenSeq(lists)) = off[Len(lists)]
    /\ \A k \in 1 .. Len(lists) : \A i \in 1 .. Len(lists[k]) :
          FlattenSeq(lists)[off[k - 1] + i] = lists[k][i]

\* A list of lists laid end to end: where the elements of each of them begin.
LEMMA Flattened ==
  ASSUME NEW S, NEW lists \in Seq(Seq(S))
  PROVE  \E off : LaidFrom(S, lists, off)
<1> USE DEF LaidFrom
<1> DEFINE n == Len(lists)
<1>1. n \in Nat /\ \A k \in 1 .. n : lists[k] \in Seq(S) /\ Len(lists[k]) \in Nat
  OBVIOUS
<1> DEFINE more == [kv \in (1 .. n) \X Nat |-> kv[2] + Len(lists[kv[1]])]
<1>2. more \in [(1 .. n) \X Nat -> Nat]
  BY <1>1
<1>3. PICK off \in [0 .. n -> Nat] :
         off[0] = 0 /\ \A k \in 1 .. n : off[k] = more[<<k, off[k - 1]>>]
  <2> HIDE DEF more, n
  <2>1. n \in Nat /\ 0 \in Nat
    BY <1>1
  <2>2. HasSteps(n, Nat, 0, more)
    BY <1>2, <2>1, StepsExist
  <2> QED BY <2>2 DEF HasSteps
<1>4. off[0] = 0 /\ \A k \in 1 .. n : off[k] = off[k - 1] + Len(lists[k])
  <2>1. ASSUME NEW k \in 1 .. n PROVE off[k - 1] \in Nat
    <3>1. k - 1 \in 0 .. n
      BY <1>1
    <3> QED BY <3>1
  <2> QED BY <1>1, <1>3, <2>1
<1> HIDE DEF more, n
<1>5. CASE n = 0
  <2>1. FlattenSeq(lists) = <<>> /\ lists = <<>>
    BY <1>5 DEF FlattenSeq, n
  <2> QED BY <1>4, <1>5, <2>1 DEF n
<1>6. CASE n # 0
  <2> DEFINE step == [kv \in (1 .. n) \X Seq(S) |->
                         IF kv[1] = 1 THEN lists[1] ELSE kv[2] \o lists[kv[1]]]
  <2>1. step \in [(1 .. n) \X Seq(S) -> Seq(S)] /\ <<>> \in Seq(S) /\ 1 \in 1 .. n
    BY <1>1, <1>6
  <2>2. PICK f \in [0 .. n -> Seq(S)] :
           f[0] = <<>> /\ \A k \in 1 .. n : f[k] = step[<<k, f[k - 1]>>]
    <3> HIDE DEF step
    <3>1. HasSteps(n, Seq(S), <<>>, step)
      BY <1>1, <2>1, StepsExist
    <3> QED BY <3>1 DEF HasSteps
  <2>3. f[1] = lists[1] /\ \A k \in 2 .. n : f[k] = f[k - 1] \o lists[k]
    <3>1. ASSUME NEW k \in 1 .. n
          PROVE  f[k] = step[<<k, f[k - 1]>>] /\ f[k - 1] \in Seq(S)
      <4>1. k - 1 \in 0 .. n
        BY <1>1
      <4> QED BY <2>2, <4>1
    <3>2. \A k \in 1 .. n : f[k] = IF k = 1 THEN lists[1] ELSE f[k - 1] \o lists[k]
      BY <3>1
    <3>3. \A k \in 2 .. n : k \in 1 .. n /\ k # 1
      BY <1>1
    <3> QED BY <2>1, <3>2, <3>3
  <2> HIDE DEF step
  <2> DEFINE Laid(g) == g = [i \in 1 .. n |-> IF i = 1 THEN lists[i] ELSE g[i - 1] \o lists[i]]
             flat == CHOOSE g : Laid(g)
  <2>4. Laid([i \in 1 .. n |-> f[i]])
    <3> DEFINE g == [i \in 1 .. n |-> f[i]]
    <3>1. ASSUME NEW i \in 1 .. n
          PROVE  g[i] = IF i = 1 THEN lists[i] ELSE g[i - 1] \o lists[i]
      <4>1. CASE i = 1
        BY <2>3, <4>1
      <4>2. CASE i # 1
        <5>1. i \in 2 .. n /\ i - 1 \in 1 .. n
          BY <1>1, <4>2
        <5> QED BY <2>3, <4>2, <5>1
      <4> QED BY <4>1, <4>2
    <3> QED BY <3>1
  <2>5. Laid(flat)
    <3> HIDE DEF Laid
    <3> QED BY <2>4
  <2>6. FlattenSeq(lists) = flat[n]
    BY <1>6 DEF FlattenSeq, n
  <2> HIDE DEF flat
  <2> DEFINE Good(k) ==
         /\ flat[k] \in Seq(S) /\ Len(flat[k]) = off[k]
         /\ \A j \in 1 .. k : \A i \in 1 .. Len(lists[j]) : flat[k][off[j - 1] + i] = lists[j][i]
  <2>7. \A j \in 1 .. n : \A k \in j .. n : off[j] <= off[k]
    <3> DEFINE len == [k \in 1 .. n |-> Len(lists[k])]
    <3>1. len \in [1 .. n -> Nat] /\ \A k \in 1 .. n : len[k] = Len(lists[k])
      BY <1>1
    <3> HIDE DEF len
    <3>2. Offsets(n, len, off)
      BY <1>1, <1>4, <3>1 DEF Offsets
    <3>4. \A j \in 0 .. n : \A k \in j .. n : off[j] <= off[k]
      BY <3>2, Grows
    <3>3. \A j \in 1 .. n : j \in 0 .. n
      BY <1>1
    <3> QED BY <3>3, <3>4
  <2>8. Good(1)
    <3>1. flat[1] = lists[1]
      BY <2>1, <2>5
    <3>2. off[1] = Len(lists[1]) /\ lists[1] \in Seq(S)
      BY <1>1, <1>4, <2>1
    <3>3. flat[1] \in Seq(S) /\ Len(flat[1]) = off[1]
      BY <3>1, <3>2
    <3>4. ASSUME NEW j \in 1 .. 1, NEW i \in 1 .. Len(lists[j])
          PROVE  flat[1][off[j - 1] + i] = lists[j][i]
      <4>1. j = 1 /\ off[j - 1] = 0 /\ 0 + i = i
        BY <1>4
      <4> QED BY <3>1, <4>1
    <3> QED BY <3>3, <3>4
  <2>9. ASSUME NEW k \in 1 .. n - 1, Good(k) PROVE Good(k + 1)
    <3>1. k + 1 \in 1 .. n /\ k + 1 # 1 /\ (k + 1) - 1 = k /\ k \in 1 .. n /\ k \in Nat
      BY <1>1
    <3>2. flat[k + 1] = flat[k] \o lists[k + 1]
      BY <2>5, <3>1
    <3>3. off[k + 1] = off[k] + Len(lists[k + 1]) /\ off[k] \in Nat /\ Len(lists[k + 1]) \in Nat
      <4>1. off[k + 1] = off[(k + 1) - 1] + Len(lists[k + 1])
        BY <1>4, <3>1
      <4> QED BY <1>1, <3>1, <4>1
    <3>4. flat[k] \in Seq(S) /\ Len(flat[k]) = off[k] /\ lists[k + 1] \in Seq(S)
      BY <1>1, <2>9, <3>1
    <3>5. /\ flat[k + 1] \in Seq(S) /\ Len(flat[k + 1]) = off[k + 1]
          /\ \A i \in 1 .. off[k] : flat[k + 1][i] = flat[k][i]
          /\ \A i \in 1 .. Len(lists[k + 1]) : flat[k + 1][off[k] + i] = lists[k + 1][i]
      <4> DEFINE one == flat[k]
                 two == lists[k + 1]
      <4>1. one \in Seq(S) /\ two \in Seq(S)
        BY <3>4
      <4> HIDE DEF one, two
      <4>2. /\ one \o two \in Seq(S) /\ Len(one \o two) = Len(one) + Len(two)
            /\ \A i \in 1 .. Len(one) : (one \o two)[i] = one[i]
            /\ \A i \in 1 .. Len(two) : (one \o two)[Len(one) + i] = two[i]
        BY <4>1, TwoLists DEF EndToEnd
      <4>3. flat[k + 1] = one \o two /\ Len(one) = off[k] /\ Len(two) = Len(lists[k + 1])
        BY <3>2, <3>4 DEF one, two
      <4>4. \A i : one[i] = flat[k][i] /\ two[i] = lists[k + 1][i]
        BY DEF one, two
      <4> QED BY <3>3, <4>2, <4>3, <4>4
    <3>6. ASSUME NEW j \in 1 .. k + 1, NEW i \in 1 .. Len(lists[j])
          PROVE  flat[k + 1][off[j - 1] + i] = lists[j][i]
      <4>1. CASE j = k + 1
        BY <3>1, <3>5, <4>1
      <4>2. CASE j # k + 1
        <5>1. j \in 1 .. k /\ j \in 1 .. n /\ k \in j .. n
          BY <1>1, <3>1, <4>2
        <5>2. off[j] = off[j - 1] + Len(lists[j]) /\ off[j] <= off[k]
          BY <1>4, <2>7, <5>1
        <5>3. off[j - 1] \in Nat /\ off[j] \in Nat /\ Len(lists[j]) \in Nat
          <6>1. j - 1 \in 0 .. n /\ j \in 0 .. n
            BY <1>1, <5>1
          <6> QED BY <1>1, <5>1, <6>1
        <5>4. off[j - 1] + i \in 1 .. off[k]
          <6>1. \A a, l, o \in Nat : \A b \in 1 .. l : a + l <= o => a + b \in 1 .. o
            OBVIOUS
          <6>2. off[k] \in Nat /\ off[j - 1] + Len(lists[j]) <= off[k]
            BY <3>3, <5>2
          <6> QED BY <5>3, <6>1, <6>2
        <5>5. flat[k][off[j - 1] + i] = lists[j][i]
          BY <2>9, <5>1
        <5> QED BY <3>5, <5>4, <5>5
      <4> QED BY <4>1, <4>2
    <3> QED BY <3>5, <3>6
  <2>10. Good(n)
    <3> DEFINE T == {m \in 0 .. n - 1 : Good(m + 1)}
    <3> HIDE DEF Good
    <3>1. 0 \in T
      <4>1. 0 \in 0 .. n - 1 /\ 0 + 1 = 1
        BY <1>1, <1>6
      <4> QED BY <2>8, <4>1
    <3>2. ASSUME NEW m \in 0 .. (n - 1) - 1, m \in T PROVE m + 1 \in T
      <4>1. m + 1 \in 1 .. n - 1 /\ m + 1 \in 0 .. n - 1
        BY <1>1
      <4>2. Good((m + 1) + 1)
        BY <2>9, <3>2, <4>1
      <4> QED BY <4>1, <4>2
    <3> HIDE DEF T
    <3>3. 0 .. n - 1 \subseteq T
      <4>1. n - 1 \in Nat
        BY <1>1, <1>6
      <4> QED BY <3>1, <3>2, <4>1, UpTo
    <3>4. n - 1 \in T
      BY <1>1, <1>6, <3>3
    <3>5. Good((n - 1) + 1)
      BY <3>4 DEF T
    <3>6. (n - 1) + 1 = n
      BY <1>1
    <3> HIDE DEF Good
    <3> QED BY <3>5, <3>6
  <2>11. LaidFrom(S, lists, off)
    BY <1>4, <2>6, <2>10 DEF n
  <2> QED BY <2>11
<1> QED BY <1>1, <1>5, <1>6

\* Every place of lists laid end to end is one of one of them.
LEMMA Covered ==
  ASSUME NEW n, NEW len, NEW off, Offsets(n, len, off)
  PROVE  \A m \in 1 .. off[n] : Falls(n, len, off, m)
<1> USE DEF Offsets
<1> DEFINE In(m, k) == \E l \in 1 .. k : \E i \in 1 .. len[l] : m = off[l - 1] + i
           T == {k \in 0 .. n : \A m \in 1 .. off[k] : In(m, k)}
<1>1. 0 \in T
  OBVIOUS
<1>2. ASSUME NEW k \in 0 .. n - 1, k \in T PROVE k + 1 \in T
  <2>1. k + 1 \in 1 .. n /\ k + 1 \in 0 .. n /\ k \in 0 .. n /\ (k + 1) - 1 = k
    OBVIOUS
  <2>2. off[k + 1] = off[k] + len[k + 1] /\ off[k] \in Nat /\ len[k + 1] \in Nat
    BY <2>1
  <2>3. ASSUME NEW m \in 1 .. off[k + 1] PROVE In(m, k + 1)
    <3>1. CASE m <= off[k]
      <4>1. In(m, k)
        BY <1>2, <2>2, <3>1
      <4>2. \A l \in 1 .. k : l \in 1 .. k + 1
        BY <2>1
      <4> QED BY <4>1, <4>2
    <3>2. CASE ~(m <= off[k])
      <4>1. m - off[k] \in 1 .. len[k + 1] /\ m = off[k] + (m - off[k])
        BY <2>2, <3>2
      <4>2. k + 1 \in 1 .. k + 1
        BY <2>1
      <4> QED BY <2>1, <4>1, <4>2
    <3> QED BY <3>1, <3>2
  <2> HIDE DEF In
  <2> QED BY <2>1, <2>3
<1> HIDE DEF T
<1>3. 0 .. n \subseteq T
  BY <1>1, <1>2, UpTo
<1>4. n \in T
  BY <1>3
<1> QED BY <1>4 DEF T, Falls

\* What is in lists laid end to end.
LEMMA FlattenedSet ==
  ASSUME NEW S, NEW lists \in Seq(Seq(S))
  PROVE  /\ FlattenSeq(lists) \in Seq(S)
         /\ \A x : x \in ToSet(FlattenSeq(lists)) <=>
                \E k \in 1 .. Len(lists) : x \in ToSet(lists[k])
<1> DEFINE n == Len(lists)
           flat == FlattenSeq(lists)
           len == [k \in 1 .. n |-> Len(lists[k])]
<1>1. n \in Nat /\ \A k \in 1 .. n : lists[k] \in Seq(S) /\ Len(lists[k]) \in Nat
  OBVIOUS
<1>2. PICK off \in [0 .. n -> Nat] :
         /\ off[0] = 0
         /\ \A k \in 1 .. n : off[k] = off[k - 1] + Len(lists[k])
         /\ flat \in Seq(S)
         /\ Len(flat) = off[n]
         /\ \A k \in 1 .. n : \A i \in 1 .. Len(lists[k]) : flat[off[k - 1] + i] = lists[k][i]
  <2>1. \E off : LaidFrom(S, lists, off)
    BY Flattened
  <2> QED BY <2>1 DEF LaidFrom
<1>3. len \in [1 .. n -> Nat] /\ \A k \in 1 .. n : len[k] = Len(lists[k])
  BY <1>1
<1> HIDE DEF flat, n, len
<1>4. \A m \in 1 .. off[n] : Falls(n, len, off, m)
  <2>1. Offsets(n, len, off)
    BY <1>1, <1>2, <1>3 DEF Offsets
  <2> QED BY <2>1, Covered
<1>5. ASSUME NEW x, x \in ToSet(flat) PROVE \E k \in 1 .. n : x \in ToSet(lists[k])
  <2>1. PICK m \in 1 .. Len(flat) : flat[m] = x
    BY <1>2, <1>5 DEF ToSet
  <2>2. PICK k \in 1 .. n : \E i \in 1 .. len[k] : m = off[k - 1] + i
    BY <1>2, <1>4, <2>1 DEF Falls
  <2>3. PICK i \in 1 .. len[k] : m = off[k - 1] + i
    BY <2>2
  <2>4. i \in 1 .. Len(lists[k])
    BY <1>3
  <2>5. flat[off[k - 1] + i] = lists[k][i] /\ i \in DOMAIN lists[k]
    BY <1>1, <1>2, <2>4
  <2>6. lists[k][i] = x /\ i \in DOMAIN lists[k]
    BY <2>1, <2>3, <2>5
  <2> QED BY <2>6 DEF ToSet
<1>6. ASSUME NEW k \in 1 .. n, NEW x \in ToSet(lists[k]) PROVE x \in ToSet(flat)
  <2>1. PICK i \in 1 .. Len(lists[k]) : lists[k][i] = x
    <3>1. lists[k] \in Seq(S)
      BY <1>1
    <3> QED BY <1>6, <3>1, InList
  <2>2. flat[off[k - 1] + i] = x
    BY <1>2, <2>1
  <2>3. off[k - 1] + i \in 1 .. off[n]
    <3>4. k - 1 \in 0 .. n /\ k \in 0 .. n /\ n \in 0 .. n /\ n \in k .. n
      BY <1>1
    <3>5. off[k] <= off[n]
      <4>1. Offsets(n, len, off)
        BY <1>1, <1>2, <1>3 DEF Offsets
      <4> QED BY <3>4, <4>1, Grows
    <3>6. off[k] = off[k - 1] + Len(lists[k]) /\ off[k - 1] \in Nat /\ off[n] \in Nat
      BY <1>2, <3>4
    <3>7. Len(lists[k]) \in Nat
      BY <1>1
    <3> QED BY <3>5, <3>6, <3>7
  <2>4. off[k - 1] + i \in DOMAIN flat
    BY <1>2, <2>3
  <2> QED BY <2>2, <2>4 DEF ToSet
<1> QED BY <1>2, <1>5, <1>6 DEF n, flat

\* Nothing is in lists laid end to end twice that was not in one of them twice or
\* in two of them.
LEMMA FlattenedOnce ==
  ASSUME NEW S, NEW lists \in Seq(Seq(S)),
         \A k \in 1 .. Len(lists) : \A i, j \in 1 .. Len(lists[k]) :
            lists[k][i] = lists[k][j] => i = j,
         \A k, l \in 1 .. Len(lists) : k # l => ToSet(lists[k]) \cap ToSet(lists[l]) = {}
  PROVE  \A i, j \in DOMAIN FlattenSeq(lists) :
            FlattenSeq(lists)[i] = FlattenSeq(lists)[j] => i = j
<1> DEFINE n == Len(lists)
           flat == FlattenSeq(lists)
           len == [k \in 1 .. n |-> Len(lists[k])]
<1>1. n \in Nat /\ \A k \in 1 .. n : lists[k] \in Seq(S) /\ Len(lists[k]) \in Nat
  OBVIOUS
<1>2. PICK off \in [0 .. n -> Nat] :
         /\ off[0] = 0
         /\ \A k \in 1 .. n : off[k] = off[k - 1] + Len(lists[k])
         /\ flat \in Seq(S)
         /\ Len(flat) = off[n]
         /\ \A k \in 1 .. n : \A i \in 1 .. Len(lists[k]) : flat[off[k - 1] + i] = lists[k][i]
  <2>1. \E off : LaidFrom(S, lists, off)
    BY Flattened
  <2> QED BY <2>1 DEF LaidFrom
<1>3. len \in [1 .. n -> Nat] /\ \A k \in 1 .. n : len[k] = Len(lists[k])
  BY <1>1
<1> HIDE DEF flat, n, len
<1>4. \A m \in 1 .. off[n] : Falls(n, len, off, m)
  <2>1. Offsets(n, len, off)
    BY <1>1, <1>2, <1>3 DEF Offsets
  <2> QED BY <2>1, Covered
<1>5. ASSUME NEW p \in DOMAIN flat, NEW q \in DOMAIN flat, flat[p] = flat[q] PROVE p = q
  <2>1. p \in 1 .. off[n] /\ q \in 1 .. off[n]
    BY <1>2
  <2>2. PICK k \in 1 .. n : \E i \in 1 .. len[k] : p = off[k - 1] + i
    BY <1>4, <2>1 DEF Falls
  <2>3. PICK i \in 1 .. len[k] : p = off[k - 1] + i
    BY <2>2
  <2>4. PICK l \in 1 .. n : \E j \in 1 .. len[l] : q = off[l - 1] + j
    BY <1>4, <2>1 DEF Falls
  <2>5. PICK j \in 1 .. len[l] : q = off[l - 1] + j
    BY <2>4
  <2>6. i \in 1 .. Len(lists[k]) /\ j \in 1 .. Len(lists[l])
    BY <1>3
  <2>7. flat[p] = lists[k][i] /\ flat[q] = lists[l][j]
    BY <1>2, <2>3, <2>5, <2>6
  <2>8. lists[k][i] \in ToSet(lists[k]) /\ lists[l][j] \in ToSet(lists[l])
    <3>1. lists[k] \in Seq(S) /\ lists[l] \in Seq(S)
      BY <1>1
    <3> QED BY <2>6, <3>1, InList
  <2>9. k = l
    BY <1>5, <2>7, <2>8 DEF n
  <2>10. i = j
    BY <1>5, <2>6, <2>7, <2>9 DEF n
  <2> QED BY <2>3, <2>5, <2>9, <2>10
<1> QED BY <1>5 DEF flat

\* One more list at the end.
LEMMA FlattenedMore ==
  ASSUME NEW S, NEW lists \in Seq(Seq(S)), NEW more \in Seq(S)
  PROVE  FlattenSeq(Append(lists, more)) = FlattenSeq(lists) \o more
<1> DEFINE n == Len(lists)
           flat == FlattenSeq(lists)
           longer == Append(lists, more)
           all == FlattenSeq(longer)
           len == [k \in 1 .. n |-> Len(lists[k])]
<1>1. /\ n \in Nat /\ \A k \in 1 .. n : lists[k] \in Seq(S) /\ Len(lists[k]) \in Nat
      /\ longer \in Seq(Seq(S)) /\ Len(longer) = n + 1 /\ longer[n + 1] = more
      /\ \A k \in 1 .. n : longer[k] = lists[k]
  OBVIOUS
<1>2. PICK off \in [0 .. n -> Nat] :
         /\ off[0] = 0
         /\ \A k \in 1 .. n : off[k] = off[k - 1] + Len(lists[k])
         /\ flat \in Seq(S)
         /\ Len(flat) = off[n]
         /\ \A k \in 1 .. n : \A i \in 1 .. Len(lists[k]) : flat[off[k - 1] + i] = lists[k][i]
  <2>1. \E off : LaidFrom(S, lists, off)
    BY Flattened
  <2> QED BY <2>1 DEF LaidFrom
<1> HIDE DEF flat
<1> HIDE DEF longer
<1>3. PICK off2 \in [0 .. Len(longer) -> Nat] :
         /\ off2[0] = 0
         /\ \A k \in 1 .. Len(longer) : off2[k] = off2[k - 1] + Len(longer[k])
         /\ all \in Seq(S)
         /\ Len(all) = off2[Len(longer)]
         /\ \A k \in 1 .. Len(longer) : \A i \in 1 .. Len(longer[k]) :
               all[off2[k - 1] + i] = longer[k][i]
  <2>1. \E off2 : LaidFrom(S, longer, off2)
    BY <1>1, Flattened
  <2> QED BY <2>1 DEF LaidFrom
<1>4. len \in [1 .. n -> Nat] /\ \A k \in 1 .. n : len[k] = Len(lists[k])
  BY <1>1
<1> HIDE DEF all, len, n
<1>5. \A k \in 0 .. n : off2[k] = off[k]
  <2> DEFINE T == {k \in 0 .. n : off2[k] = off[k]}
  <2>1. 0 \in T
    BY <1>1, <1>2, <1>3
  <2>2. ASSUME NEW k \in 0 .. n - 1, k \in T PROVE k + 1 \in T
    <3>1. k + 1 \in 1 .. n /\ k + 1 \in 1 .. Len(longer) /\ (k + 1) - 1 = k /\ k + 1 \in 0 .. n
      BY <1>1
    <3>2. off[k + 1] = off[k] + Len(lists[k + 1]) /\ off2[k + 1] = off2[k] + Len(longer[k + 1])
      BY <1>2, <1>3, <3>1
    <3>3. longer[k + 1] = lists[k + 1]
      BY <1>1, <3>1
    <3> QED BY <2>2, <3>1, <3>2, <3>3
  <2> HIDE DEF T
  <2>3. 0 .. n \subseteq T
    BY <1>1, <2>1, <2>2, UpTo
  <2> QED BY <2>3 DEF T
<1>6. off2[n] = off[n] /\ off2[n + 1] = off[n] + Len(more) /\ off[n] \in Nat
  <2>1. n + 1 \in 1 .. Len(longer) /\ (n + 1) - 1 = n /\ n \in 0 .. n
    BY <1>1
  <2>2. off2[n + 1] = off2[n] + Len(longer[n + 1])
    BY <1>3, <2>1
  <2>3. off2[n] = off[n] /\ off[n] \in Nat
    BY <1>5, <2>1
  <2>4. longer[n + 1] = more
    BY <1>1
  <2> QED BY <2>2, <2>3, <2>4
<1>7. ASSUME NEW m \in 1 .. off[n] PROVE all[m] = flat[m]
  <2>1. \A j \in 1 .. off[n] : Falls(n, len, off, j)
    <3>1. Offsets(n, len, off)
      BY <1>1, <1>2, <1>4 DEF Offsets
    <3> QED BY <3>1, Covered
  <2>2. PICK k \in 1 .. n : \E i \in 1 .. len[k] : m = off[k - 1] + i
    BY <2>1 DEF Falls
  <2>3. PICK i \in 1 .. len[k] : m = off[k - 1] + i
    BY <2>2
  <2>4. k \in 1 .. Len(longer) /\ k - 1 \in 0 .. n /\ longer[k] = lists[k]
            /\ i \in 1 .. Len(lists[k])
    <3>1. len[k] = Len(lists[k]) /\ k - 1 \in 0 .. n
      BY <1>1, <1>4
    <3> QED BY <1>1, <3>1
  <2>5. all[off2[k - 1] + i] = longer[k][i] /\ flat[off[k - 1] + i] = lists[k][i]
    BY <1>2, <1>3, <2>4
  <2> QED BY <1>5, <2>3, <2>4, <2>5
<1>8. ASSUME NEW i \in 1 .. Len(more) PROVE all[off[n] + i] = more[i]
  <2>1. n + 1 \in 1 .. Len(longer) /\ (n + 1) - 1 = n
    BY <1>1
  <2> QED BY <1>1, <1>3, <1>6, <2>1
<1>9. all = flat \o more
  <2>1. /\ flat \o more \in Seq(S) /\ Len(flat \o more) = Len(all) /\ Len(flat) = off[n]
        /\ \A i \in 1 .. Len(flat) : (flat \o more)[i] = flat[i]
        /\ \A i \in 1 .. Len(more) : (flat \o more)[Len(flat) + i] = more[i]
    <3>1. flat \in Seq(S) /\ Len(flat) = off[n] /\ Len(all) = off[n] + Len(more)
      BY <1>1, <1>2, <1>3, <1>6
    <3>2. EndToEnd(S, flat, more)
      BY <3>1, TwoLists
    <3> QED BY <3>1, <3>2 DEF EndToEnd
  <2>2. ASSUME NEW m \in 1 .. Len(all) PROVE all[m] = (flat \o more)[m]
    <3>1. CASE m <= off[n]
      <4>1. m \in 1 .. off[n]
        BY <1>6, <3>1
      <4> QED BY <1>7, <2>1, <4>1
    <3>2. CASE ~(m <= off[n])
      <4>1. m - off[n] \in 1 .. Len(more) /\ off[n] + (m - off[n]) = m
        BY <1>1, <1>3, <1>6, <3>2
      <4>2. all[m] = more[m - off[n]]
        BY <1>8, <4>1
      <4> QED BY <2>1, <4>1, <4>2
    <3> QED BY <3>1, <3>2
  <2>3. all \in Seq(S)
    BY <1>3
  <2> HIDE DEF flat
  <2> DEFINE joined == flat \o more
  <2>4. joined \in Seq(S) /\ Len(joined) = Len(all)
    BY <2>1
  <2>5. \A m \in 1 .. Len(all) : all[m] = joined[m]
    BY <2>2
  <2> HIDE DEF joined
  <2>6. all = joined
    BY <2>3, <2>4, <2>5, SameList
  <2> QED BY <2>6 DEF joined
<1> QED BY <1>9 DEF all, flat, longer

\* The places of a list where something stands are numbered in their order.
LEMMA PlacesNumbered ==
  ASSUME NEW m \in Nat, NEW hits \in SUBSET (1 .. m)
  PROVE  /\ Cardinality(hits) \in Nat
         /\ \A n \in 1 .. Cardinality(hits) : \E k \in hits :
               Cardinality({j \in hits : j < k}) = n - 1
         /\ \A k \in hits : Cardinality({j \in hits : j < k}) \in 0 .. Cardinality(hits) - 1
         /\ \A k, l \in hits :
               Cardinality({j \in hits : j < k}) = Cardinality({j \in hits : j < l}) => k = l
<1> DEFINE Before(k) == {j \in hits : j < k}
           R == [k \in hits |-> Cardinality(Before(k))]
           n == Cardinality(hits)
<1>1. IsFiniteSet(hits) /\ n \in Nat
  <2>1. IsFiniteSet(1 .. m)
    BY FS_Interval
  <2> QED BY <2>1, FS_Subset, FS_CardinalityType
<1>2. \A k \in hits : IsFiniteSet(Before(k)) /\ Cardinality(Before(k)) \in Nat
  BY <1>1, FS_Subset, FS_CardinalityType
<1>3. ASSUME NEW k \in hits, NEW l \in hits, k < l
      PROVE  Cardinality(Before(k)) < Cardinality(Before(l))
  <2>1. Before(k) \subseteq Before(l) /\ k \in Before(l) /\ k \notin Before(k)
    <3>1. \A j \in hits : j \in Nat
      OBVIOUS
    <3>2. \A j \in hits : j < k => j < l
      BY <1>3, <3>1
    <3>3. ~(k < k)
      BY <3>1
    <3> QED BY <1>3, <3>2, <3>3
  <2>2. Before(k) # Before(l)
    BY <2>1
  <2> HIDE DEF Before
  <2>3. /\ Cardinality(Before(k)) <= Cardinality(Before(l))
        /\ Cardinality(Before(k)) = Cardinality(Before(l)) => Before(k) = Before(l)
    BY <1>2, <2>1, FS_Subset
  <2> QED BY <1>2, <2>2, <2>3
<1>4. ASSUME NEW k \in hits PROVE Cardinality(Before(k)) \in 0 .. n - 1
  <2>1. Before(k) \subseteq hits \ {k}
    OBVIOUS
  <2>2. IsFiniteSet(hits \ {k}) /\ Cardinality(hits \ {k}) = n - 1
    BY <1>1, FS_RemoveElement
  <2> HIDE DEF Before
  <2>3. Cardinality(Before(k)) <= n - 1
    BY <2>1, <2>2, FS_Subset
  <2> QED BY <1>1, <1>2, <2>3
<1>5. ASSUME NEW k \in hits, NEW l \in hits, Cardinality(Before(k)) = Cardinality(Before(l))
      PROVE  k = l
  <2>1. k \in Nat /\ l \in Nat
    OBVIOUS
  <2> HIDE DEF Before
  <2>2. ~(k < l) /\ ~(l < k)
    BY <1>2, <1>3, <1>5
  <2> QED BY <2>1, <2>2
<1>6. IsFiniteSet(0 .. n - 1) /\ Cardinality(0 .. n - 1) = n
  <2>1. 0 \in Int /\ n - 1 \in Int
    BY <1>1
  <2>2. /\ IsFiniteSet(0 .. n - 1)
        /\ Cardinality(0 .. n - 1) = IF 0 > n - 1 THEN 0 ELSE (n - 1) - 0 + 1
    BY <2>1, FS_Interval
  <2> QED BY <1>1, <2>2
<1>7. ASSUME NEW i \in 1 .. n, \A k \in hits : Cardinality(Before(k)) # i - 1
      PROVE  FALSE
  <2> DEFINE Others == (0 .. n - 1) \ {i - 1}
  <2>1. i - 1 \in 0 .. n - 1
    BY <1>1
  <2>2. IsFiniteSet(Others) /\ Cardinality(Others) = n - 1
    <3> DEFINE all == 0 .. n - 1
    <3> HIDE DEF all
    <3>1. IsFiniteSet(all \ {i - 1}) /\ Cardinality(all \ {i - 1}) = Cardinality(all) - 1
      BY <1>6, <2>1, FS_RemoveElement DEF all
    <3> QED BY <1>6, <3>1 DEF all
  <2>3. R \in [hits -> Others]
    BY <1>4, <1>7
  <2> HIDE DEF Others, R
  <2>4. \E k, l \in hits : k # l /\ R[k] = R[l]
    <3>1. Cardinality(Others) < Cardinality(hits)
      BY <1>1, <2>2
    <3> QED BY <1>1, <2>2, <2>3, <3>1, FS_PigeonHole
  <2> QED BY <1>5, <2>4 DEF R
<1> QED BY <1>1, <1>4, <1>5, <1>7
\* A function that makes n steps through good values: G has the pairs of a number
\* of steps made and of a value that is good then.
KeepsSteps(n, V, first, step, G) ==
    \E f \in [0 .. n -> V] :
        /\ f[0] = first
        /\ \A k \in 1 .. n : f[k] = step[<<k, f[k - 1]>>]
        /\ \A k \in 0 .. n : <<k, f[k]>> \in G

\* What every step of a loop keeps holds throughout: what is good after k steps
\* is good after one more.
LEMMA StepsKept ==
  ASSUME NEW n \in Nat, NEW V, NEW first, NEW step, NEW G \in SUBSET ((0 .. n) \X V),
         <<0, first>> \in G,
         \A k \in 1 .. n : \A v \in V : <<k - 1, v>> \in G => <<k, step[<<k, v>>]>> \in G
  PROVE  KeepsSteps(n, V, first, step, G)
<1> DEFINE next == [kv \in (1 .. n) \X V |-> IF <<kv[1] - 1, kv[2]>> \in G THEN step[kv] ELSE first]
<1>1. first \in V
  OBVIOUS
<1>2. \A k \in 1 .. n : \A v \in V :
        next[<<k, v>>] = IF <<k - 1, v>> \in G THEN step[<<k, v>>] ELSE first
  OBVIOUS
<1>3. next \in [(1 .. n) \X V -> V]
  <2>1. \A k \in 1 .. n : \A v \in V : <<k - 1, v>> \in G => step[<<k, v>>] \in V
    OBVIOUS
  <2>2. \A kv \in (1 .. n) \X V : next[kv] \in V
    BY <1>1, <2>1
  <2> QED BY <2>2
<1> HIDE DEF next
<1>4. PICK f \in [0 .. n -> V] : f[0] = first /\ \A k \in 1 .. n : f[k] = next[<<k, f[k - 1]>>]
  <2>1. HasSteps(n, V, first, next)
    BY <1>1, <1>3, StepsExist
  <2> QED BY <2>1 DEF HasSteps
<1> DEFINE T == {k \in 0 .. n : <<k, f[k]>> \in G}
<1>5. 0 \in T
  BY <1>4
<1>6. ASSUME NEW k \in 0 .. n - 1, k \in T PROVE k + 1 \in T
  <2>1. k + 1 \in 1 .. n /\ k + 1 \in 0 .. n /\ (k + 1) - 1 = k /\ k \in 0 .. n
    OBVIOUS
  <2>2. f[k] \in V /\ <<k, f[k]>> \in G
    BY <1>4, <1>6, <2>1
  <2>3. f[k + 1] = step[<<k + 1, f[k]>>]
    BY <1>2, <1>4, <2>1, <2>2
  <2>4. <<k + 1, f[k + 1]>> \in G
    BY <2>1, <2>2, <2>3
  <2> QED BY <2>1, <2>4
<1> HIDE DEF T
<1>7. \A k \in 0 .. n : <<k, f[k]>> \in G
  <2>1. 0 .. n \subseteq T
    BY <1>5, <1>6, UpTo
  <2> QED BY <2>1 DEF T
<1>8. ASSUME NEW k \in 1 .. n PROVE f[k] = step[<<k, f[k - 1]>>]
  <2>1. k - 1 \in 0 .. n
    OBVIOUS
  <2>2. f[k - 1] \in V /\ <<k - 1, f[k - 1]>> \in G
    BY <1>4, <1>7, <2>1
  <2> QED BY <1>2, <1>4, <2>2
<1> QED BY <1>4, <1>7, <1>8 DEF KeepsSteps

\* Two functions with the same beginning and the same steps are the same.
LEMMA SameSteps ==
  ASSUME NEW n \in Nat, NEW f, NEW g, f[0] = g[0],
         \A k \in 1 .. n : f[k - 1] = g[k - 1] => f[k] = g[k]
  PROVE  \A k \in 0 .. n : f[k] = g[k]
<1> DEFINE T == {k \in 0 .. n : f[k] = g[k]}
<1>1. 0 \in T
  OBVIOUS
<1>2. ASSUME NEW k \in 0 .. n - 1, k \in T PROVE k + 1 \in T
  <2>1. k + 1 \in 1 .. n /\ k + 1 \in 0 .. n /\ (k + 1) - 1 = k
    OBVIOUS
  <2> QED BY <1>2, <2>1
<1> HIDE DEF T
<1>3. 0 .. n \subseteq T
  BY <1>1, <1>2, UpTo
<1> QED BY <1>3 DEF T

\* Whatever R has before an element comes before it in the list.
Ordered(list, R) ==
    \A i \in 1 .. Len(list) : \A x : <<x, list[i]>> \in R => \E j \in 1 .. i - 1 : list[j] = x

\* Ordered lists laid end to end are ordered.
LEMMA FlattenedOrdered ==
  ASSUME NEW S, NEW lists \in Seq(Seq(S)), NEW R,
         \A k \in 1 .. Len(lists) : Ordered(lists[k], R)
  PROVE  Ordered(FlattenSeq(lists), R)
<1> DEFINE n == Len(lists)
           flat == FlattenSeq(lists)
           len == [k \in 1 .. n |-> Len(lists[k])]
<1>1. n \in Nat /\ \A k \in 1 .. n : lists[k] \in Seq(S) /\ Len(lists[k]) \in Nat
  OBVIOUS
<1>2. PICK off \in [0 .. n -> Nat] :
         /\ off[0] = 0
         /\ \A k \in 1 .. n : off[k] = off[k - 1] + Len(lists[k])
         /\ flat \in Seq(S)
         /\ Len(flat) = off[n]
         /\ \A k \in 1 .. n : \A i \in 1 .. Len(lists[k]) : flat[off[k - 1] + i] = lists[k][i]
  <2>1. \E off : LaidFrom(S, lists, off)
    BY Flattened
  <2> QED BY <2>1 DEF LaidFrom
<1>3. len \in [1 .. n -> Nat] /\ \A k \in 1 .. n : len[k] = Len(lists[k])
  BY <1>1
<1> HIDE DEF flat, len
<1>4. \A m \in 1 .. off[n] : Falls(n, len, off, m)
  <2>1. Offsets(n, len, off)
    BY <1>1, <1>2, <1>3 DEF Offsets
  <2> QED BY <2>1, Covered
<1>5. ASSUME NEW p \in 1 .. Len(flat), NEW x, <<x, flat[p]>> \in R
      PROVE  \E q \in 1 .. p - 1 : flat[q] = x
  <2>1. PICK k \in 1 .. n : \E i \in 1 .. len[k] : p = off[k - 1] + i
    BY <1>2, <1>4 DEF Falls
  <2>2. PICK i \in 1 .. len[k] : p = off[k - 1] + i
    BY <2>1
  <2>3. i \in 1 .. Len(lists[k]) /\ off[k - 1] \in Nat /\ Len(lists[k]) \in Nat
    <3>1. k - 1 \in 0 .. n /\ len[k] = Len(lists[k])
      BY <1>1, <1>3
    <3> QED BY <1>1, <1>2, <3>1
  <2>4. flat[p] = lists[k][i]
    BY <1>2, <2>2, <2>3
  <2>5. PICK j \in 1 .. i - 1 : lists[k][j] = x
    BY <1>5, <2>3, <2>4 DEF Ordered
  <2>6. j \in 1 .. Len(lists[k]) /\ off[k - 1] + j \in 1 .. p - 1
    <3>1. \A a, l \in Nat : \A b \in 1 .. l : \A c \in 1 .. b - 1 : c \in 1 .. l
              /\ a + c \in 1 .. (a + b) - 1
      OBVIOUS
    <3> QED BY <2>2, <2>3, <3>1
  <2> QED BY <1>2, <2>5, <2>6
<1> QED BY <1>5 DEF Ordered, flat

\* An element at the end of an ordered list that has everything before it.
LEMMA AppendOrdered ==
  ASSUME NEW S, NEW s \in Seq(S), NEW a \in S, NEW R, Ordered(s, R),
         \A x : <<x, a>> \in R => x \in ToSet(s)
  PROVE  Ordered(Append(s, a), R)
<1> DEFINE t == Append(s, a)
<1>1. t \in Seq(S) /\ Len(t) = Len(s) + 1 /\ t[Len(s) + 1] = a /\ Len(s) \in Nat
      /\ \A i \in 1 .. Len(s) : t[i] = s[i]
  OBVIOUS
<1> HIDE DEF t
<1>2. ASSUME NEW i \in 1 .. Len(t), NEW x, <<x, t[i]>> \in R
      PROVE  \E j \in 1 .. i - 1 : t[j] = x
  <2>1. CASE i \in 1 .. Len(s)
    <3>1. PICK j \in 1 .. i - 1 : s[j] = x
      BY <1>1, <1>2, <2>1 DEF Ordered
    <3>2. j \in 1 .. Len(s)
      BY <1>1, <2>1, <3>1
    <3> QED BY <1>1, <3>1, <3>2
  <2>2. CASE i = Len(s) + 1
    <3>1. x \in ToSet(s)
      BY <1>1, <1>2, <2>2
    <3>2. PICK j \in DOMAIN s : s[j] = x
      BY <3>1 DEF ToSet
    <3> QED BY <1>1, <2>2, <3>2
  <2> QED BY <1>1, <2>1, <2>2
<1> QED BY <1>2 DEF Ordered, t

\* A list of one element.
LEMMA OneListed ==
  ASSUME NEW S, NEW a \in S
  PROVE  /\ <<a>> \in Seq(S) /\ Len(<<a>>) = 1 /\ <<a>>[1] = a /\ ToSet(<<a>>) = {a}
BY DEF ToSet

=============================================================================
