----------------------------- MODULE NamePolicy -----------------------------
(***************************************************************************)
(* The names under which entries of a CD, an archive or another volume are *)
(* stored on a GEMDOS volume: the 8.3 policy (src/app/filename_policy.py)  *)
(* and the renaming of a copied tree (src/app/volume_copy.py).             *)
(*                                                                         *)
(* A name is a sequence of signs.  The limit of eight stands at NameLimit; *)
(* extensions follow the same rules and are left out, and so is the        *)
(* exhaustion of all the numbers.                                          *)
(***************************************************************************)
EXTENDS Naturals, FiniteSets, SequencesExt

CONSTANTS
    NameLimit,      \* signs of a name on the volume
    FoundNames,     \* names a source may have, in the order it lists them
    MaxFound        \* bound on the entries of a source

ASSUME NameLimitAssumption == NameLimit \in Nat \ {0, 1}
ASSUME FoundAssumption == FoundNames \subseteq Seq(STRING) \ {<<>>} /\ MaxFound \in 0 .. 9

VARIABLES
    found,          \* the entries accepted so far, as the source has them
    renamedTo,      \* what became of each path of the source
    allocated       \* names given out in each folder of the volume

nameVars == <<found, renamedTo, allocated>>
-----------------------------------------------------------------------------
(***************************************************************************)
(* GEMDOSNamePolicy.                                                       *)
(***************************************************************************)
Lower == {"a", "b"}
Digits == <<"1", "2", "3", "4", "5", "6", "7", "8", "9">>
Forbidden == {" "}
UpperSign(c) == IF c = "a" THEN "A" ELSE IF c = "b" THEN "B" ELSE c
Uppered(name) == [k \in DOMAIN name |-> UpperSign(name[k])]

\* validate(): a name that may stand as it is, but for its case.
Valid(name) ==
    /\ name # <<>> /\ Len(name) <= NameLimit
    /\ \A k \in DOMAIN name : name[k] \notin Forbidden

\* normalise(): what cannot stand is replaced, and the rest is cut off.
Normalised(name) ==
    LET kept == SubSeq(name, 1, IF Len(name) < NameLimit THEN Len(name) ELSE NameLimit)
    IN  [k \in DOMAIN kept |-> IF kept[k] \in Forbidden THEN "_" ELSE UpperSign(kept[k])]

Numbered(name, number) ==
    Append(SubSeq(name, 1, IF Len(name) < NameLimit THEN Len(name) ELSE NameLimit - 1), Digits[number])

\* Mistake: the first number is taken without asking whether it is free.
AllocatedFirst(name, used) ==
    LET base == Normalised(name) IN IF base \in used THEN Numbered(base, 1) ELSE base

\* allocate(): the normalised name, or the first number that makes it unused.
Allocated(name, used) ==
    LET base == Normalised(name)
        free == {k \in DOMAIN Digits : Numbered(base, k) \notin used}
    IN  IF base \notin used THEN base
        ELSE Numbered(base, CHOOSE k \in free : \A j \in free : k <= j)
-----------------------------------------------------------------------------
(***************************************************************************)
(* _accepted_path()                                                        *)
(***************************************************************************)
FoundPaths == {<<m>> : m \in FoundNames} \cup {<<m, n>> : m, n \in FoundNames}
Used(folder) == IF folder \in DOMAIN allocated THEN allocated[folder] ELSE {}

\* A valid name that is free stays; any other is allocated.
Chosen(name, used) ==
    IF Valid(name) /\ Uppered(name) \notin used THEN Uppered(name) ELSE Allocated(name, used)

\* The listing of the source names folders before what they hold; a folder that
\* was renamed once keeps its name for all of it.
AcceptEntry(path) ==
    /\ Cardinality(found) < MaxFound
    /\ path \notin found
    /\ Len(path) = 2 => Front(path) \in found
    /\ LET folder == IF Len(path) = 1 THEN <<>> ELSE renamedTo[Front(path)]
           chosen == Chosen(Last(path), Used(folder))
       IN  /\ renamedTo' = [p \in found \cup {path} |->
                               IF p = path THEN Append(folder, chosen) ELSE renamedTo[p]]
           /\ allocated' = [f \in DOMAIN allocated \cup {folder} |->
                               IF f = folder THEN Used(folder) \cup {chosen} ELSE allocated[f]]
    /\ found' = found \cup {path}

NamesInit ==
    /\ found = {}
    /\ renamedTo = [p \in {} |-> <<>>]
    /\ allocated = [f \in {} |-> {}]
NamesNext == \E path \in FoundPaths : AcceptEntry(path)
NamesSpec == NamesInit /\ [][NamesNext]_nameVars
-----------------------------------------------------------------------------
NamesTypeOK ==
    /\ found \subseteq FoundPaths
    /\ DOMAIN renamedTo = found
    /\ \A path \in found : Len(renamedTo[path]) = Len(path)

\* "two source names that fold to the same 8.3 name become two different files
\* rather than one overwriting the other, and [...] a directory renamed once
\* keeps the same new name for every file inside it" (volume_copy.py:405-411),
\* whichever of the two is listed first and whatever numbers are taken; every
\* name is one the volume can store.
DistinctStayDistinct ==
    \A path, other \in found :
        /\ path # other => renamedTo[path] # renamedTo[other]
        /\ Len(path) = 2 => Front(renamedTo[path]) = renamedTo[Front(path)]
        /\ Valid(Last(renamedTo[path])) /\ Uppered(Last(renamedTo[path])) = Last(renamedTo[path])
=============================================================================
