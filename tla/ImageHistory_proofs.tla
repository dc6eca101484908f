------------------------ MODULE ImageHistory_proofs ------------------------
(***************************************************************************)
(* Safety of ImageHistory, for any number of requests; and ImageHistory    *)
(* implements UndoHistory for any number of requests, names and automatic  *)
(* checkpoints, when requests come one after another and the process does  *)
(* not die.                                                                *)
(***************************************************************************)
EXTENDS ImageHistoryRefinement, FiniteSetTheorems, SequenceTheorems, TLAPS

SamePoint(p, o) == p.id = o.id /\ p.auto = o.auto /\ p.image = o.image /\ p.dirty = o.dirty

\* Relabelling is the renaming of some points, in one of two ends.
LEMMA RelabelRenames ==
    ASSUME NEW r \in Requests, Relabel(r)
    PROVE  /\ \E done \in SUBSET points : points' = Renamed(done)
           /\ pc[r] = "relabelling"
           /\ \E to \in {"ok", "unlabelled"} : pc' = [pc EXCEPT ![r] = to]
           /\ lock' = NoRequest /\ UNCHANGED <<session, nextId, kind, token>>
<1>1. PICK done \in SUBSET Bearing(token[r].name) :
          /\ Step(r, {"relabelling"},
                  IF done = Bearing(token[r].name) THEN "ok" ELSE "unlabelled")
          /\ points' = Renamed(done)
  BY DEF Relabel
<1>2. Bearing(token[r].name) \subseteq points
  BY DEF Bearing
<1> QED BY <1>1, <1>2 DEF Relabel, Step

\* Recording a checkpoint adds a well-formed one.
LEMMA TakePointType ==
    ASSUME TypeOK, NEW auto \in BOOLEAN, TakePoint(auto)
    PROVE  points' \subseteq Point /\ nextId' \in Nat
<1>1. Snapshot(auto) \in Point
  BY DEF TypeOK, State, Snapshot, Point
<1> QED BY <1>1 DEF TypeOK, TakePoint

\* Relabelling some of the points changes nothing but names.
LEMMA RenamedPoints ==
    ASSUME TypeOK, NEW done \in SUBSET points
    PROVE  /\ \A p \in Renamed(done) : \E o \in points : SamePoint(p, o)
           /\ \A o \in points : \E p \in Renamed(done) : SamePoint(p, o)
           /\ Renamed(done) \subseteq Point
<1> DEFINE New(o) == IF o \in done THEN [o EXCEPT !.name = mem.name] ELSE o
<1>1. \A o \in points : SamePoint(New(o), o) /\ New(o) \in Point
  BY DEF TypeOK, Point, State, SamePoint
<1>2. Renamed(done) = {New(o) : o \in points}
  BY DEF Renamed
<1> HIDE DEF New
<1> QED BY <1>1, <1>2

\* Every step keeps the session, the points and the requests well-formed.
LEMMA TypeStep == TypeOK /\ [Next]_vars => TypeOK'
<1> SUFFICES ASSUME TypeOK, [Next]_vars PROVE TypeOK'
  OBVIOUS
<1> USE RequestAssumption, KindsAssumption
<1> USE DEF Working, Ended, AllKinds, Changing
<1>1. ASSUME NEW r \in Requests, Begin(r) PROVE TypeOK'
  <2>1. points' \subseteq Point /\ nextId' \in Nat
    BY <1>1, TakePointType DEF Begin
  <2> QED BY <1>1, <2>1 DEF TypeOK, Token, State, Begin, Arrive, Step, session
<1>2. ASSUME NEW r \in Requests, EditWrite(r) PROVE TypeOK'
  BY <1>2 DEF TypeOK, Contents, State, Point, Token, EditWrite, Step
<1>3. ASSUME NEW r \in Requests, EditMark(r) PROVE TypeOK'
  BY <1>3 DEF TypeOK, Contents, State, Point, Token, EditMark, Step
<1>4. ASSUME NEW r \in Requests, SaveArchive(r) PROVE TypeOK'
  BY <1>4 DEF TypeOK, Contents, State, Point, Token, SaveArchive, Step
<1>5. ASSUME NEW r \in Requests, Finish(r) PROVE TypeOK'
  BY <1>5 DEF TypeOK, Contents, State, Point, Token, Finish, Step, Without, Pruned, Autos
<1>6. ASSUME NEW r \in Requests, Rollback(r) PROVE TypeOK'
  BY <1>6 DEF TypeOK, Contents, State, Point, Token, Rollback, Step, OwnPoint
<1>7. ASSUME NEW r \in Requests, RollbackWithoutPoint(r) PROVE TypeOK'
  BY <1>7 DEF TypeOK, Contents, State, Point, Token, RollbackWithoutPoint, Step, OwnPoint, session
<1>8. ASSUME NEW r \in Requests, RollbackDrop(r) PROVE TypeOK'
  BY <1>8 DEF TypeOK, Contents, State, Point, Token, RollbackDrop, Step, Without, session
<1>9. ASSUME NEW r \in Requests, RestoreBegin(r) PROVE TypeOK'
  <2>1. points' \subseteq Point /\ nextId' \in Nat
    BY <1>9, TakePointType DEF RestoreBegin
  <2> QED BY <1>9, <2>1 DEF TypeOK, Token, State, RestoreBegin, Arrive, Step, session
<1>10. ASSUME NEW r \in Requests, RestoreImage(r) PROVE TypeOK'
  BY <1>10 DEF TypeOK, Contents, State, Point, Token, RestoreImage, Step, OwnPoint
<1>11. ASSUME NEW r \in Requests, RestoreWithoutPoint(r) PROVE TypeOK'
  BY <1>11 DEF TypeOK, Contents, State, Point, Token, RestoreWithoutPoint, Step, OwnPoint, session
<1>12. ASSUME NEW r \in Requests, UndoImage(r) PROVE TypeOK'
  BY <1>12 DEF TypeOK, Contents, State, Point, Token, UndoImage, Arrive, Step, Latest, Autos
<1>13. ASSUME NEW r \in Requests, Rewind(r) PROVE TypeOK'
  BY <1>13 DEF TypeOK, Contents, State, Point, Token, Rewind, OwnPoint
<1>14. ASSUME NEW r \in Requests, UndoDrop(r) PROVE TypeOK'
  BY <1>14 DEF TypeOK, Contents, State, Point, Token, UndoDrop, Step, Without, session
<1>15. ASSUME NEW r \in Requests, CreateNamed(r) PROVE TypeOK'
  <2>1. points' \subseteq Point /\ nextId' \in Nat
    BY <1>15, TakePointType DEF CreateNamed
  <2> QED BY <1>15, <2>1 DEF TypeOK, Token, State, CreateNamed, Arrive, Step, session
<1>16. ASSUME NEW r \in Requests, DeletePoint(r) PROVE TypeOK'
  BY <1>16 DEF TypeOK, Contents, State, Point, Token, DeletePoint, Arrive, Step, session
<1>17. ASSUME NEW r \in Requests, Rename(r) PROVE TypeOK'
  BY <1>17 DEF TypeOK, Contents, State, Point, Token, Rename, Arrive, Step
<1>18. ASSUME NEW r \in Requests, Relabel(r) PROVE TypeOK'
  <2>1. points' \subseteq Point
    BY <1>18, RelabelRenames, RenamedPoints
  <2> QED BY <1>18, <2>1, RelabelRenames DEF TypeOK, State, session
<1>19. ASSUME NEW r \in Requests, StoreProfile(r) PROVE TypeOK'
  BY <1>19 DEF TypeOK, Contents, State, Point, Token, StoreProfile, Arrive, Step
<1>20. ASSUME Crash PROVE TypeOK'
  BY <1>20 DEF TypeOK, Contents, State, Point, Token, Crash, InFlight
<1>21. CASE UNCHANGED vars
  BY <1>21 DEF TypeOK, Contents, State, Point, Token, vars
<1>22. ASSUME NEW r \in Requests, FindBlank(r) PROVE TypeOK'
  BY <1>22 DEF TypeOK, Contents, State, Point, Token, FindBlank, Step, session
<1>23. ASSUME NEW r \in Requests, ReplaceBlank(r) PROVE TypeOK'
  BY <1>23 DEF TypeOK, Contents, State, Point, Token, ReplaceBlank, Step
<1> QED
  BY <1>1, <1>2, <1>3, <1>4, <1>5, <1>6, <1>7, <1>8, <1>9, <1>10, <1>11,
     <1>12, <1>13, <1>14, <1>15, <1>16, <1>17, <1>18, <1>19, <1>20, <1>21,
     <1>22, <1>23
  DEF Next, RequestStep, EditStep, RollbackStep, RestoreStep, UndoStep, RenameStep,
      NoMoreRequests
-----------------------------------------------------------------------------
(***************************************************************************)
(* Named checkpoints are safe from everything but deletion.  What the      *)
(* middleware and undo remove they find by identity alone, so it has to be *)
(* known that identities are never used twice and that what a request owns *)
(* is automatic.                                                           *)
(***************************************************************************)
OwnsAutomatic(r) ==
    \/ pc[r] \in Working \cup {"rewound", "undoing"}
    \/ pc[r] = "rewinding" /\ kind[r] # "restore"

IdInv ==
    /\ \A p \in points : p.id < nextId
    /\ \A r \in Requests : token[r].point < nextId
    /\ \A p, q \in points : p.id = q.id => p = q
    /\ \A r \in Requests : pc[r] = "restoring" => kind[r] = "restore"
    /\ \A r \in Requests : pc[r] \in Working => kind[r] \in Changing \cup {"save"}
    /\ \A r \in Requests : pc[r] = "blank" => kind[r] = "replace"
    /\ \A r \in Requests, p \in points :
          OwnsAutomatic(r) /\ p.id = token[r].point => p.auto

\* A new point has an identity of its own.
LEMMA TakePointId ==
    ASSUME TypeOK, IdInv, NEW auto \in BOOLEAN, TakePoint(auto)
    PROVE  /\ \A p \in points' : p \in points \/ (p.id = nextId /\ p.auto = auto)
           /\ \A p \in points' : p.id < nextId'
           /\ \A p, q \in points' : p.id = q.id => p = q
           /\ nextId < nextId'
<1>1. Snapshot(auto).id = nextId /\ Snapshot(auto).auto = auto
  BY DEF Snapshot
<1>2. \A p \in points : p.id < nextId /\ p.id \in Nat
  BY DEF IdInv, TypeOK, Point
<1>3. points' = points \cup {Snapshot(auto)} /\ nextId' = nextId + 1 /\ nextId \in Nat
  BY DEF TakePoint, TypeOK
<1> QED BY <1>1, <1>2, <1>3 DEF IdInv

\* Identities stay unique and owned points stay automatic.
LEMMA IdStep == TypeOK /\ IdInv /\ [Next]_vars => IdInv'
<1> SUFFICES ASSUME TypeOK, IdInv, [Next]_vars PROVE IdInv'
  OBVIOUS
<1> USE DEF TypeOK, Point, Token, IdInv, OwnsAutomatic, Working, Changing
<1>1. ASSUME NEW r \in Requests, Begin(r) PROVE IdInv'
  <2>1. TakePoint(TRUE)
    BY <1>1 DEF Begin
  <2>2. /\ \A p \in points' : p \in points \/ (p.id = nextId /\ p.auto = TRUE)
        /\ \A p \in points' : p.id < nextId'
        /\ \A p, q \in points' : p.id = q.id => p = q
        /\ nextId < nextId' /\ nextId' \in Nat
    BY <2>1, TakePointId, TakePointType
  <2> QED BY <1>1, <2>2 DEF Begin, Arrive, Step
<1>2. ASSUME NEW r \in Requests, EditWrite(r) PROVE IdInv'
  BY <1>2 DEF EditWrite, Step
<1>3. ASSUME NEW r \in Requests, EditMark(r) PROVE IdInv'
  BY <1>3 DEF EditMark, Step
<1>4. ASSUME NEW r \in Requests, SaveArchive(r) PROVE IdInv'
  BY <1>4 DEF SaveArchive, Step
<1>5. ASSUME NEW r \in Requests, Finish(r) PROVE IdInv'
  BY <1>5 DEF Finish, Step, Without, Pruned, Autos
<1>6. ASSUME NEW r \in Requests, Rollback(r) PROVE IdInv'
  BY <1>6 DEF Rollback, Step, OwnPoint
<1>7. ASSUME NEW r \in Requests, RollbackWithoutPoint(r) PROVE IdInv'
  BY <1>7 DEF RollbackWithoutPoint, Step, OwnPoint, session
<1>8. ASSUME NEW r \in Requests, RollbackDrop(r) PROVE IdInv'
  BY <1>8 DEF RollbackDrop, Step, Without, session
<1>9. ASSUME NEW r \in Requests, RestoreBegin(r) PROVE IdInv'
  <2>1. TakePoint(TRUE)
    BY <1>9 DEF RestoreBegin
  <2>2. /\ \A p \in points' : p \in points \/ (p.id = nextId /\ p.auto = TRUE)
        /\ \A p \in points' : p.id < nextId'
        /\ \A p, q \in points' : p.id = q.id => p = q
        /\ nextId < nextId' /\ nextId' \in Nat
    BY <2>1, TakePointId, TakePointType
  <2> QED BY <1>9, <2>2 DEF RestoreBegin, Arrive, Step
<1>10. ASSUME NEW r \in Requests, RestoreImage(r) PROVE IdInv'
  <2>1. kind[r] = "restore" /\ pc' = [pc EXCEPT ![r] = "rewinding"]
    BY <1>10 DEF RestoreImage, Step
  <2>2. UNCHANGED <<points, nextId, kind, token>>
    BY <1>10 DEF RestoreImage
  <2>3. \A x \in Requests : OwnsAutomatic(x)' => OwnsAutomatic(x)
    BY <2>1, <2>2
  <2> QED BY <2>1, <2>2, <2>3
<1>11. ASSUME NEW r \in Requests, RestoreWithoutPoint(r) PROVE IdInv'
  BY <1>11 DEF RestoreWithoutPoint, Step, OwnPoint, session
<1>12. ASSUME NEW r \in Requests, UndoImage(r) PROVE IdInv'
  BY <1>12 DEF UndoImage, Arrive, Step, Latest, Autos
<1>13. ASSUME NEW r \in Requests, Rewind(r) PROVE IdInv'
  BY <1>13 DEF Rewind, OwnPoint
<1>14. ASSUME NEW r \in Requests, UndoDrop(r) PROVE IdInv'
  BY <1>14 DEF UndoDrop, Step, Without, session
<1>15. ASSUME NEW r \in Requests, CreateNamed(r) PROVE IdInv'
  <2>1. TakePoint(FALSE)
    BY <1>15 DEF CreateNamed
  <2>2. /\ \A p \in points' : p \in points \/ (p.id = nextId /\ p.auto = FALSE)
        /\ \A p \in points' : p.id < nextId'
        /\ \A p, q \in points' : p.id = q.id => p = q
        /\ nextId < nextId' /\ nextId' \in Nat
    BY <2>1, TakePointId, TakePointType
  <2> QED BY <1>15, <2>2 DEF CreateNamed, Arrive, Step
<1>16. ASSUME NEW r \in Requests, DeletePoint(r) PROVE IdInv'
  BY <1>16 DEF DeletePoint, Arrive, Step, session
<1>17. ASSUME NEW r \in Requests, Rename(r) PROVE IdInv'
  BY <1>17 DEF Rename, Arrive, Step
<1>18. ASSUME NEW r \in Requests, Relabel(r) PROVE IdInv'
  <2>1. \A p \in points' : \E o \in points : SamePoint(p, o)
    BY <1>18, RelabelRenames, RenamedPoints
  <2>2. PICK done \in SUBSET points : points' = Renamed(done)
    BY <1>18, RelabelRenames
  <2>3. \A p, q \in points' : p.id = q.id => p = q
    <3> DEFINE New(o) == IF o \in done THEN [o EXCEPT !.name = mem.name] ELSE o
    <3>1. points' = {New(o) : o \in points} /\ \A o \in points : New(o).id = o.id
      BY <2>2 DEF Renamed
    <3> HIDE DEF New
    <3> QED BY <3>1
  <2>4. /\ UNCHANGED <<nextId, kind, token>>
        /\ \E to \in {"ok", "unlabelled"} : pc' = [pc EXCEPT ![r] = to]
    BY <1>18, RelabelRenames
  <2> QED BY <2>1, <2>3, <2>4 DEF SamePoint
<1>19. ASSUME NEW r \in Requests, StoreProfile(r) PROVE IdInv'
  BY <1>19 DEF StoreProfile, Arrive, Step
<1>20. ASSUME Crash PROVE IdInv'
  BY <1>20 DEF Crash, InFlight
<1>21. CASE UNCHANGED vars
  BY <1>21 DEF vars
<1>22. ASSUME NEW r \in Requests, FindBlank(r) PROVE IdInv'
  BY <1>22 DEF FindBlank, Step, session
<1>23. ASSUME NEW r \in Requests, ReplaceBlank(r) PROVE IdInv'
  BY <1>23 DEF ReplaceBlank, Step
<1> QED
  BY <1>1, <1>2, <1>3, <1>4, <1>5, <1>6, <1>7, <1>8, <1>9, <1>10, <1>11,
     <1>12, <1>13, <1>14, <1>15, <1>16, <1>17, <1>18, <1>19, <1>20, <1>21,
     <1>22, <1>23
  DEF Next, RequestStep, EditStep, RollbackStep, RestoreStep, UndoStep, RenameStep,
      NoMoreRequests

\* The invariants above hold in every state.
LEMMA IdInvariant == Spec => [](TypeOK /\ IdInv)
<1>1. Init => TypeOK /\ IdInv
  BY LimitAssumption DEF Init, TypeOK, IdInv, OwnsAutomatic, Working, Contents, State, Token,
     AllKinds, Ended
<1>2. TypeOK /\ IdInv /\ [Next]_vars => TypeOK' /\ IdInv'
  BY TypeStep, IdStep
<1> QED BY <1>1, <1>2, PTL DEF Spec

\* The session object, the stored session, the points, the lock and the
\* requests are well-formed in every state.
THEOREM TypeCorrect == Spec => []TypeOK
  BY IdInvariant, PTL

\* For any number of requests of any kind, overlapping and dying in any way,
\* a named checkpoint is only ever removed by a request to delete it.
THEOREM NamedPointsAreSafe == Spec => NamedPointKept
<1> DEFINE Safe == \A p \in points : ~ p.auto => Kept(p, points') \/ DeletedNow(p)
<1>1. ASSUME TypeOK, IdInv, [Next]_vars PROVE Safe
  <2> SUFFICES ASSUME NEW p \in points, ~ p.auto
               PROVE Kept(p, points') \/ DeletedNow(p)
    OBVIOUS
  <2>1. p \in points' => Kept(p, points')
    BY DEF Kept
  <2>2. ASSUME NEW r \in Requests, Finish(r) PROVE p \in points'
    BY <1>1, <2>2 DEF Finish, Step, Without, Pruned, IdInv, OwnsAutomatic, Working
  <2>3. ASSUME NEW r \in Requests, RollbackDrop(r) \/ UndoDrop(r) PROVE p \in points'
    BY <1>1, <2>3 DEF RollbackDrop, UndoDrop, Step, Without, IdInv, OwnsAutomatic
  <2>4. ASSUME NEW r \in Requests, DeletePoint(r)
        PROVE p \in points' \/ DeletedNow(p)
    BY <1>1, <2>4 DEF DeletePoint, Arrive, Step, DeletedNow, TypeOK
  <2>5. ASSUME NEW r \in Requests, Relabel(r) PROVE Kept(p, points')
    <3>1. \E q \in points' : SamePoint(q, p)
      BY <1>1, <2>5, RelabelRenames, RenamedPoints
    <3> QED BY <3>1 DEF Kept, SamePoint
  <2>6. ASSUME NEW r \in Requests, Begin(r) \/ RestoreBegin(r) \/ CreateNamed(r)
        PROVE p \in points'
    BY <2>6 DEF Begin, RestoreBegin, CreateNamed, TakePoint
  <2>7. ASSUME points' = points PROVE p \in points'
    BY <2>7
  <2> QED
    BY <1>1, <2>1, <2>2, <2>3, <2>4, <2>5, <2>6, <2>7
    DEF Next, RequestStep, EditStep, RollbackStep, RestoreStep, UndoStep, RenameStep,
        NoMoreRequests, Crash, StoreProfile, Rename, Rewind, UndoImage, RestoreImage,
        RestoreWithoutPoint, Rollback, RollbackWithoutPoint, SaveArchive, EditWrite,
        EditMark, FindBlank, ReplaceBlank, vars
<1>2. TypeOK /\ IdInv /\ [Next]_vars => [Safe]_vars
  BY <1>1
<1> QED BY <1>2, IdInvariant, PTL DEF Spec, NamedPointKept
-----------------------------------------------------------------------------
(***************************************************************************)
(* One request after another, without crashes: the changed dot and the     *)
(* stored session are right whenever no request is in flight.  In between  *)
(* they may be wrong in two ways only: an edit is written but not marked,  *)
(* or the image has been rewound and the session not yet.  That a rewind   *)
(* ends with the right dot rests on every checkpoint having the dot its    *)
(* content deserves, and on the request finding its own checkpoint.        *)
(***************************************************************************)
Idle(r) == pc[r] \in {"idle"} \cup Ended

Alone == \A r, q \in Requests : Idle(r) \/ Idle(q) \/ r = q
PointsHonest == \A p \in points : p.dirty \/ p.image \in saved
DotHonest ==
    \/ mem.dirty \/ image \in saved
    \/ \E r \in Requests : pc[r] \in {"written", "rewinding"}
OwnsPoint ==
    \A r \in Requests : pc[r] \in Working \cup {"rewinding"} =>
        \E p \in points : p.id = token[r].point
RewoundToPoint ==
    \A r \in Requests, p \in points :
        pc[r] = "rewinding" /\ p.id = token[r].point => p.image = image
StoredUnlessChanging == json = mem \/ \E r \in Requests : pc[r] \in {"marked", "rewinding"}

SavedInv ==
    /\ Alone
    /\ PointsHonest
    /\ DotHonest
    /\ OwnsPoint
    /\ RewoundToPoint
    /\ StoredUnlessChanging

\* With requests one after another each step keeps the six parts.
LEMMA SavedStep ==
    ASSUME ~ Concurrent, ~ MayCrash, TypeOK, IdInv, SavedInv, [Next]_vars
    PROVE  SavedInv'
<1> USE DEF Idle, Ended, Working, Changing
<1>1. ASSUME NEW r \in Requests, Begin(r) PROVE SavedInv'
  <2>1. Alone'
    BY <1>1 DEF Alone, Quiet, InFlight, Begin, Arrive, Step
  <2>2. PointsHonest'
    BY <1>1
    DEF SavedInv, PointsHonest, DotHonest, Quiet, InFlight, Begin, Arrive, TakePoint,
        Snapshot, session
  <2>3. DotHonest'
    BY <1>1 DEF SavedInv, DotHonest, Begin, Step, session
  <2>4. OwnsPoint'
    <3>1. Snapshot(TRUE) \in points' /\ token'[r].point = Snapshot(TRUE).id
      BY <1>1 DEF TypeOK, Begin, TakePoint, Snapshot
    <3>2. \A q \in Requests \ {r} : Idle(q)'
      BY <1>1 DEF Begin, Arrive, Step, Quiet, InFlight
    <3> QED BY <3>1, <3>2 DEF OwnsPoint
  <2>5. RewoundToPoint'
    BY <1>1 DEF RewoundToPoint, Quiet, InFlight, Begin, Arrive, Step
  <2>6. StoredUnlessChanging'
    BY <1>1 DEF SavedInv, StoredUnlessChanging, Begin, Step, session
  <2> QED BY <2>1, <2>2, <2>3, <2>4, <2>5, <2>6 DEF SavedInv
<1>2. ASSUME NEW r \in Requests, EditWrite(r) PROVE SavedInv'
  <2>1. Alone'
    BY <1>2 DEF SavedInv, Alone, EditWrite, Step
  <2>2. PointsHonest'
    BY <1>2 DEF SavedInv, PointsHonest, EditWrite
  <2>3. DotHonest'
    BY <1>2 DEF TypeOK, DotHonest, EditWrite, Step
  <2>4. OwnsPoint'
    BY <1>2 DEF SavedInv, OwnsPoint, EditWrite, Step
  <2>5. RewoundToPoint'
    BY <1>2 DEF SavedInv, RewoundToPoint, Alone, EditWrite, Step
  <2>6. StoredUnlessChanging'
    BY <1>2 DEF SavedInv, StoredUnlessChanging, EditWrite, Step
  <2> QED BY <2>1, <2>2, <2>3, <2>4, <2>5, <2>6 DEF SavedInv
<1>3. ASSUME NEW r \in Requests, EditMark(r) PROVE SavedInv'
  <2>1. Alone'
    BY <1>3 DEF SavedInv, Alone, EditMark, Step
  <2>2. PointsHonest'
    BY <1>3 DEF SavedInv, PointsHonest, EditMark
  <2>3. DotHonest'
    BY <1>3 DEF DotHonest, EditMark
  <2>4. OwnsPoint'
    BY <1>3 DEF SavedInv, OwnsPoint, EditMark, Step
  <2>5. RewoundToPoint'
    BY <1>3 DEF SavedInv, RewoundToPoint, EditMark, Step
  <2>6. StoredUnlessChanging'
    BY <1>3 DEF TypeOK, StoredUnlessChanging, EditMark, Step
  <2> QED BY <2>1, <2>2, <2>3, <2>4, <2>5, <2>6 DEF SavedInv
<1>4. ASSUME NEW r \in Requests, SaveArchive(r) PROVE SavedInv'
  <2>1. Alone'
    BY <1>4 DEF SavedInv, Alone, SaveArchive, Step
  <2>2. PointsHonest'
    BY <1>4 DEF SavedInv, PointsHonest, SaveArchive
  <2>3. DotHonest'
    BY <1>4 DEF DotHonest, SaveArchive
  <2>4. OwnsPoint'
    BY <1>4 DEF SavedInv, OwnsPoint, SaveArchive, Step
  <2>5. RewoundToPoint'
    BY <1>4 DEF SavedInv, RewoundToPoint, SaveArchive, Step
  <2>6. StoredUnlessChanging'
    BY <1>4 DEF StoredUnlessChanging, SaveArchive
  <2> QED BY <2>1, <2>2, <2>3, <2>4, <2>5, <2>6 DEF SavedInv
<1>5. ASSUME NEW r \in Requests, Finish(r) PROVE SavedInv'
  <2>1. Alone'
    BY <1>5 DEF SavedInv, Alone, Finish, Step
  <2>2. PointsHonest'
    BY <1>5 DEF SavedInv, PointsHonest, Finish, Without, Pruned
  <2>3. DotHonest'
    BY <1>5 DEF SavedInv, DotHonest, Finish, Step
  <2>4. OwnsPoint'
    BY <1>5 DEF TypeOK, SavedInv, OwnsPoint, Alone, Finish, Step
  <2>5. RewoundToPoint'
    BY <1>5 DEF SavedInv, RewoundToPoint, Finish, Step, Without, Pruned
  <2>6. StoredUnlessChanging'
    BY <1>5 DEF StoredUnlessChanging, Finish
  <2> QED BY <2>1, <2>2, <2>3, <2>4, <2>5, <2>6 DEF SavedInv
<1>6. ASSUME NEW r \in Requests, Rollback(r) PROVE SavedInv'
  <2>1. Alone'
    BY <1>6 DEF SavedInv, Alone, Rollback, Step
  <2>2. PointsHonest'
    BY <1>6 DEF SavedInv, PointsHonest, Rollback
  <2>3. DotHonest'
    BY <1>6 DEF TypeOK, DotHonest, Rollback, Step
  <2>4. OwnsPoint'
    BY <1>6 DEF SavedInv, OwnsPoint, Rollback, Step
  <2>5. RewoundToPoint'
    BY <1>6 DEF SavedInv, RewoundToPoint, Alone, IdInv, Rollback, Step, OwnPoint
  <2>6. StoredUnlessChanging'
    BY <1>6 DEF SavedInv, StoredUnlessChanging, Rollback, Step
  <2> QED BY <2>1, <2>2, <2>3, <2>4, <2>5, <2>6 DEF SavedInv
<1>7. ASSUME NEW r \in Requests, RollbackWithoutPoint(r) PROVE SavedInv'
  <2>1. FALSE
    BY <1>7 DEF SavedInv, OwnsPoint, RollbackWithoutPoint, Step, OwnPoint
  <2> QED BY <2>1
<1>8. ASSUME NEW r \in Requests, RollbackDrop(r) PROVE SavedInv'
  <2>1. Alone'
    BY <1>8 DEF SavedInv, Alone, RollbackDrop, Step
  <2>2. PointsHonest'
    BY <1>8 DEF SavedInv, PointsHonest, RollbackDrop, Without, session
  <2>3. DotHonest'
    BY <1>8 DEF SavedInv, DotHonest, RollbackDrop, Step, session
  <2>4. OwnsPoint'
    BY <1>8 DEF SavedInv, OwnsPoint, Alone, RollbackDrop, Step
  <2>5. RewoundToPoint'
    BY <1>8 DEF SavedInv, RewoundToPoint, RollbackDrop, Step, Without, session
  <2>6. StoredUnlessChanging'
    BY <1>8 DEF SavedInv, StoredUnlessChanging, RollbackDrop, Step, session
  <2> QED BY <2>1, <2>2, <2>3, <2>4, <2>5, <2>6 DEF SavedInv
<1>9. ASSUME NEW r \in Requests, RestoreBegin(r) PROVE SavedInv'
  <2>1. Alone'
    BY <1>9 DEF Alone, Quiet, InFlight, RestoreBegin, Arrive, Step
  <2>2. PointsHonest'
    BY <1>9
    DEF SavedInv, PointsHonest, DotHonest, Quiet, InFlight, RestoreBegin, Arrive, TakePoint,
        Snapshot, session
  <2>3. DotHonest'
    BY <1>9 DEF SavedInv, DotHonest, RestoreBegin, Step, session
  <2>4. OwnsPoint'
    BY <1>9 DEF OwnsPoint, Quiet, InFlight, RestoreBegin, Arrive, Step
  <2>5. RewoundToPoint'
    BY <1>9 DEF RewoundToPoint, Quiet, InFlight, RestoreBegin, Arrive, Step
  <2>6. StoredUnlessChanging'
    BY <1>9 DEF SavedInv, StoredUnlessChanging, RestoreBegin, Step, session
  <2> QED BY <2>1, <2>2, <2>3, <2>4, <2>5, <2>6 DEF SavedInv
<1>10. ASSUME NEW r \in Requests, RestoreImage(r) PROVE SavedInv'
  <2>1. Alone'
    BY <1>10 DEF SavedInv, Alone, RestoreImage, Step
  <2>2. PointsHonest'
    BY <1>10 DEF SavedInv, PointsHonest, RestoreImage
  <2>3. DotHonest'
    BY <1>10 DEF TypeOK, DotHonest, RestoreImage, Step
  <2>4. OwnsPoint'
    BY <1>10 DEF SavedInv, OwnsPoint, RestoreImage, Step, OwnPoint
  <2>5. RewoundToPoint'
    BY <1>10 DEF SavedInv, RewoundToPoint, Alone, IdInv, RestoreImage, Step, OwnPoint
  <2>6. StoredUnlessChanging'
    BY <1>10 DEF SavedInv, StoredUnlessChanging, RestoreImage, Step
  <2> QED BY <2>1, <2>2, <2>3, <2>4, <2>5, <2>6 DEF SavedInv
<1>11. ASSUME NEW r \in Requests, RestoreWithoutPoint(r) PROVE SavedInv'
  <2>1. Alone'
    BY <1>11 DEF SavedInv, Alone, RestoreWithoutPoint, Step
  <2>2. PointsHonest'
    BY <1>11 DEF SavedInv, PointsHonest, RestoreWithoutPoint, session
  <2>3. DotHonest'
    BY <1>11 DEF SavedInv, DotHonest, RestoreWithoutPoint, Step, session
  <2>4. OwnsPoint'
    BY <1>11 DEF SavedInv, OwnsPoint, RestoreWithoutPoint, Step
  <2>5. RewoundToPoint'
    BY <1>11 DEF SavedInv, RewoundToPoint, RestoreWithoutPoint, Step, session
  <2>6. StoredUnlessChanging'
    BY <1>11 DEF SavedInv, StoredUnlessChanging, RestoreWithoutPoint, Step, session
  <2> QED BY <2>1, <2>2, <2>3, <2>4, <2>5, <2>6 DEF SavedInv
<1>12. ASSUME NEW r \in Requests, UndoImage(r) PROVE SavedInv'
  <2>1. Alone'
    BY <1>12 DEF Alone, Quiet, InFlight, UndoImage, Arrive, Step
  <2>2. PointsHonest'
    BY <1>12 DEF SavedInv, PointsHonest, UndoImage
  <2>3. DotHonest'
    BY <1>12 DEF TypeOK, DotHonest, UndoImage, Step
  <2>4. OwnsPoint'
    BY <1>12 DEF TypeOK, OwnsPoint, Quiet, InFlight, UndoImage, Arrive, Step
  <2>5. RewoundToPoint'
    BY <1>12 DEF TypeOK, RewoundToPoint, IdInv, Quiet, InFlight, UndoImage, Arrive, Step
  <2>6. StoredUnlessChanging'
    BY <1>12 DEF SavedInv, StoredUnlessChanging, UndoImage, Step
  <2> QED BY <2>1, <2>2, <2>3, <2>4, <2>5, <2>6 DEF SavedInv
<1>13. ASSUME NEW r \in Requests, Rewind(r) PROVE SavedInv'
  <2>1. Alone'
    BY <1>13 DEF SavedInv, Alone, Rewind
  <2>2. PointsHonest'
    BY <1>13 DEF SavedInv, PointsHonest, Rewind
  <2>3. DotHonest'
    BY <1>13 DEF SavedInv, DotHonest, PointsHonest, RewoundToPoint, Rewind, OwnPoint
  <2>4. OwnsPoint'
    BY <1>13 DEF SavedInv, OwnsPoint, Rewind
  <2>5. RewoundToPoint'
    BY <1>13 DEF SavedInv, RewoundToPoint, Rewind
  <2>6. StoredUnlessChanging'
    BY <1>13 DEF StoredUnlessChanging, Rewind
  <2> QED BY <2>1, <2>2, <2>3, <2>4, <2>5, <2>6 DEF SavedInv
<1>14. ASSUME NEW r \in Requests, UndoDrop(r) PROVE SavedInv'
  <2>1. Alone'
    BY <1>14 DEF SavedInv, Alone, UndoDrop, Step
  <2>2. PointsHonest'
    BY <1>14 DEF SavedInv, PointsHonest, UndoDrop, Without, session
  <2>3. DotHonest'
    BY <1>14 DEF SavedInv, DotHonest, UndoDrop, Step, session
  <2>4. OwnsPoint'
    BY <1>14 DEF SavedInv, OwnsPoint, Alone, UndoDrop, Step
  <2>5. RewoundToPoint'
    BY <1>14 DEF SavedInv, RewoundToPoint, UndoDrop, Step, Without, session
  <2>6. StoredUnlessChanging'
    BY <1>14 DEF SavedInv, StoredUnlessChanging, UndoDrop, Step, session
  <2> QED BY <2>1, <2>2, <2>3, <2>4, <2>5, <2>6 DEF SavedInv
<1>15. ASSUME NEW r \in Requests, CreateNamed(r) PROVE SavedInv'
  <2>1. Alone'
    BY <1>15 DEF Alone, Quiet, InFlight, CreateNamed, Arrive, Step
  <2>2. PointsHonest'
    BY <1>15
    DEF SavedInv, PointsHonest, DotHonest, Quiet, InFlight, CreateNamed, Arrive, TakePoint,
        Snapshot, session
  <2>3. DotHonest'
    BY <1>15 DEF SavedInv, DotHonest, CreateNamed, Step, session
  <2>4. OwnsPoint'
    BY <1>15 DEF OwnsPoint, Quiet, InFlight, CreateNamed, Arrive, Step
  <2>5. RewoundToPoint'
    BY <1>15 DEF RewoundToPoint, Quiet, InFlight, CreateNamed, Arrive, Step
  <2>6. StoredUnlessChanging'
    BY <1>15 DEF SavedInv, StoredUnlessChanging, CreateNamed, Step, session
  <2> QED BY <2>1, <2>2, <2>3, <2>4, <2>5, <2>6 DEF SavedInv
<1>16. ASSUME NEW r \in Requests, DeletePoint(r) PROVE SavedInv'
  <2>1. Alone'
    BY <1>16 DEF Alone, Quiet, InFlight, DeletePoint, Arrive, Step
  <2>2. PointsHonest'
    BY <1>16 DEF SavedInv, PointsHonest, DeletePoint, session
  <2>3. DotHonest'
    BY <1>16 DEF SavedInv, DotHonest, DeletePoint, Step, session
  <2>4. OwnsPoint'
    BY <1>16 DEF OwnsPoint, Quiet, InFlight, DeletePoint, Arrive, Step
  <2>5. RewoundToPoint'
    BY <1>16 DEF RewoundToPoint, Quiet, InFlight, DeletePoint, Arrive, Step
  <2>6. StoredUnlessChanging'
    BY <1>16 DEF SavedInv, StoredUnlessChanging, DeletePoint, Step, session
  <2> QED BY <2>1, <2>2, <2>3, <2>4, <2>5, <2>6 DEF SavedInv
<1>17. ASSUME NEW r \in Requests, Rename(r) PROVE SavedInv'
  <2>1. Alone'
    BY <1>17 DEF Alone, Quiet, InFlight, Rename, Arrive, Step
  <2>2. PointsHonest'
    BY <1>17 DEF SavedInv, PointsHonest, Rename
  <2>3. DotHonest'
    BY <1>17 DEF SavedInv, DotHonest, Rename, Step
  <2>4. OwnsPoint'
    BY <1>17 DEF OwnsPoint, Quiet, InFlight, Rename, Arrive, Step
  <2>5. RewoundToPoint'
    BY <1>17 DEF RewoundToPoint, Quiet, InFlight, Rename, Arrive, Step
  <2>6. StoredUnlessChanging'
    BY <1>17 DEF StoredUnlessChanging, Rename
  <2> QED BY <2>1, <2>2, <2>3, <2>4, <2>5, <2>6 DEF SavedInv
<1>18. ASSUME NEW r \in Requests, Relabel(r) PROVE SavedInv'
  <2>a. /\ pc[r] = "relabelling" /\ UNCHANGED <<image, mem, json, saved, token>>
        /\ \E to \in {"ok", "unlabelled"} : pc' = [pc EXCEPT ![r] = to]
    BY <1>18, RelabelRenames DEF session
  <2>b. \A p \in points' : \E o \in points : SamePoint(p, o)
    BY <1>18, RelabelRenames, RenamedPoints
  <2>1. Alone'
    BY <2>a DEF SavedInv, Alone
  <2>2. PointsHonest'
    BY <2>a, <2>b DEF SavedInv, PointsHonest, SamePoint
  <2>3. DotHonest'
    BY <2>a DEF TypeOK, SavedInv, DotHonest
  <2>c. \A q \in Requests : Idle(q)'
    BY <2>a DEF TypeOK, SavedInv, Alone
  <2>4. OwnsPoint'
    BY <2>c DEF OwnsPoint
  <2>5. RewoundToPoint'
    BY <2>c DEF RewoundToPoint
  <2>6. StoredUnlessChanging'
    BY <2>a DEF TypeOK, SavedInv, StoredUnlessChanging
  <2> QED BY <2>1, <2>2, <2>3, <2>4, <2>5, <2>6 DEF SavedInv
<1>19. ASSUME NEW r \in Requests, StoreProfile(r) PROVE SavedInv'
  <2>1. Alone'
    BY <1>19 DEF Alone, Quiet, InFlight, StoreProfile, Arrive, Step
  <2>2. PointsHonest'
    BY <1>19 DEF SavedInv, PointsHonest, StoreProfile
  <2>3. DotHonest'
    BY <1>19 DEF SavedInv, DotHonest, StoreProfile, Step
  <2>4. OwnsPoint'
    BY <1>19 DEF OwnsPoint, Quiet, InFlight, StoreProfile, Arrive, Step
  <2>5. RewoundToPoint'
    BY <1>19 DEF RewoundToPoint, Quiet, InFlight, StoreProfile, Arrive, Step
  <2>6. StoredUnlessChanging'
    BY <1>19 DEF StoredUnlessChanging, StoreProfile
  <2> QED BY <2>1, <2>2, <2>3, <2>4, <2>5, <2>6 DEF SavedInv
<1>20. ASSUME Crash PROVE SavedInv'
  BY <1>20 DEF Crash
<1>21. CASE UNCHANGED vars
  <2>1. Alone'
    BY <1>21 DEF SavedInv, Alone, vars
  <2>2. PointsHonest'
    BY <1>21 DEF SavedInv, PointsHonest, vars
  <2>3. DotHonest'
    BY <1>21 DEF SavedInv, DotHonest, vars
  <2>4. OwnsPoint'
    BY <1>21 DEF SavedInv, OwnsPoint, vars
  <2>5. RewoundToPoint'
    BY <1>21 DEF SavedInv, RewoundToPoint, vars
  <2>6. StoredUnlessChanging'
    BY <1>21 DEF SavedInv, StoredUnlessChanging, vars
  <2> QED BY <2>1, <2>2, <2>3, <2>4, <2>5, <2>6 DEF SavedInv
<1>22. ASSUME NEW r \in Requests, FindBlank(r) PROVE SavedInv'
  <2>1. Alone'
    BY <1>22 DEF SavedInv, Alone, FindBlank, Step
  <2>2. PointsHonest'
    BY <1>22 DEF SavedInv, PointsHonest, FindBlank, session
  <2>3. DotHonest'
    BY <1>22 DEF TypeOK, SavedInv, DotHonest, FindBlank, Step, session
  <2>4. OwnsPoint'
    BY <1>22 DEF SavedInv, OwnsPoint, FindBlank, Step
  <2>5. RewoundToPoint'
    BY <1>22 DEF SavedInv, RewoundToPoint, Alone, FindBlank, Step, session
  <2>6. StoredUnlessChanging'
    BY <1>22 DEF TypeOK, SavedInv, StoredUnlessChanging, FindBlank, Step, session
  <2> QED BY <2>1, <2>2, <2>3, <2>4, <2>5, <2>6 DEF SavedInv
<1>23. ASSUME NEW r \in Requests, ReplaceBlank(r) PROVE SavedInv'
  <2>1. Alone'
    BY <1>23 DEF SavedInv, Alone, ReplaceBlank, Step
  <2>2. PointsHonest'
    BY <1>23 DEF SavedInv, PointsHonest, ReplaceBlank
  <2>3. DotHonest'
    BY <1>23 DEF DotHonest, ReplaceBlank
  <2>4. OwnsPoint'
    BY <1>23 DEF SavedInv, OwnsPoint, ReplaceBlank, Step
  <2>5. RewoundToPoint'
    BY <1>23 DEF SavedInv, RewoundToPoint, Alone, ReplaceBlank, Step
  <2>6. StoredUnlessChanging'
    BY <1>23 DEF StoredUnlessChanging, ReplaceBlank
  <2> QED BY <2>1, <2>2, <2>3, <2>4, <2>5, <2>6 DEF SavedInv
<1> QED
  BY <1>1, <1>2, <1>3, <1>4, <1>5, <1>6, <1>7, <1>8, <1>9, <1>10, <1>11,
     <1>12, <1>13, <1>14, <1>15, <1>16, <1>17, <1>18, <1>19, <1>20, <1>21,
     <1>22, <1>23
  DEF Next, RequestStep, EditStep, RollbackStep, RestoreStep, UndoStep, RenameStep,
      NoMoreRequests

\* Requests one after another keep the whole invariant.
LEMMA SavedInvariant ==
    ASSUME ~ Concurrent, ~ MayCrash PROVE Spec => [](TypeOK /\ IdInv /\ SavedInv)
<1>1. Init => SavedInv
  BY DEF Init, SavedInv, Alone, PointsHonest, DotHonest, OwnsPoint, RewoundToPoint,
     StoredUnlessChanging, Idle, Working
<1>2. TypeOK /\ IdInv /\ SavedInv /\ [Next]_vars => SavedInv'
  BY SavedStep
<1> QED BY <1>1, <1>2, IdInvariant, PTL DEF Spec

\* With requests one after another and no crash, an image without the changed
\* dot is one the user has a file of, whatever failed, was undone or restored.
THEOREM DotIsTrue == ASSUME ~ Concurrent, ~ MayCrash PROVE Spec => []CleanMeansSaved
<1>1. TypeOK /\ SavedInv => CleanMeansSaved
  BY DEF TypeOK, State, SavedInv, DotHonest, CleanMeansSaved, Quiet, InFlight, Ended
<1> QED BY <1>1, SavedInvariant, PTL

\* Under the same conditions session.json says what memory says between
\* requests, so that a restart then loses nothing.
THEOREM SessionIsStored == ASSUME ~ Concurrent, ~ MayCrash PROVE Spec => []StoredIsCurrent
<1>1. SavedInv => StoredIsCurrent
  BY DEF SavedInv, StoredUnlessChanging, StoredIsCurrent, Quiet, InFlight, Ended
<1> QED BY <1>1, SavedInvariant, PTL
-----------------------------------------------------------------------------
(***************************************************************************)
(* One request after another: where an edit can be found says how the      *)
(* request that made it ended.  Checkpoints hold finished edits only, so a *)
(* rollback takes away nothing but the edit of the request that failed.    *)
(***************************************************************************)
PointsHoldFinished == \A p \in points : \A r \in p.image : pc[r] = "ok"
ImageHoldsNoFailed == \A r \in image : pc[r] \in {"ok", "written", "marked"}
OwnPointHoldsRest ==
    \A q \in Requests, p \in points :
        pc[q] \in Working /\ p.id = token[q].point => image \subseteq p.image \cup {q}
FoundBlank == (\E r \in Requests : pc[r] = "blank") => image = {}

EditsInv ==
    /\ PointsHoldFinished
    /\ ImageHoldsNoFailed
    /\ OwnPointHoldsRest
    /\ FoundBlank

\* A checkpoint taken when nothing is in flight holds the whole image, which
\* then holds finished edits only.
LEMMA TakePointEdits ==
    ASSUME TypeOK, IdInv, EditsInv, Quiet, NEW auto \in BOOLEAN, TakePoint(auto),
           NEW r \in Requests, pc[r] = "idle", NEW to, pc' = [pc EXCEPT ![r] = to]
    PROVE  /\ \A p \in points' : \A x \in p.image : x \in Requests /\ pc[x] = "ok" /\ x # r
           /\ \A x \in image : x \in Requests /\ pc[x] = "ok" /\ x # r
           /\ \A p \in points' : p.id = nextId => p.image = image
<1>1. \A x \in image : x \in Requests /\ pc[x] = "ok"
  BY DEF TypeOK, Contents, EditsInv, ImageHoldsNoFailed, Quiet, InFlight, Ended
<1>2. \A p \in points : \A x \in p.image : x \in Requests /\ pc[x] = "ok"
  BY DEF TypeOK, Point, Contents, EditsInv, PointsHoldFinished
<1>3. /\ Snapshot(auto).image = image /\ Snapshot(auto).auto = auto
      /\ Snapshot(auto).id = nextId
  BY DEF Snapshot
<1>4. points' = points \cup {Snapshot(auto)}
  BY DEF TakePoint
<1>5. \A p \in points : p.id # nextId
  BY DEF TypeOK, Point, IdInv
<1> QED BY <1>1, <1>2, <1>3, <1>4, <1>5

\* With requests one after another each step keeps the four parts.
LEMMA EditsStep ==
    ASSUME ~ Concurrent, ~ MayCrash, TypeOK, IdInv, SavedInv, EditsInv, [Next]_vars
    PROVE  EditsInv'
<1>a. /\ \A p \in points : \A x \in p.image : x \in Requests /\ pc[x] = "ok"
      /\ \A x \in image : x \in Requests
  BY DEF EditsInv, PointsHoldFinished, TypeOK, Point, Contents
<1>b. pc \in [Requests -> {"idle", "restoring", "rewinding", "rewound",
                            "undoing", "relabelling"} \cup Working \cup Ended]
  BY DEF TypeOK
<1>c. \A r, q \in Requests : Idle(r) \/ Idle(q) \/ r = q
  BY DEF SavedInv, Alone
<1> USE DEF EditsInv, PointsHoldFinished, ImageHoldsNoFailed, OwnPointHoldsRest, FoundBlank
<1>1. ASSUME NEW r \in Requests, Begin(r) PROVE EditsInv'
  <2>1. /\ Quiet /\ pc[r] = "idle" /\ TakePoint(TRUE) /\ pc' = [pc EXCEPT ![r] = "working"]
        /\ image' = image /\ token'[r].point = nextId
    BY <1>1 DEF TypeOK, Begin, Arrive, Step, session
  <2>2. /\ \A p \in points' : \A x \in p.image : x \in Requests /\ pc[x] = "ok" /\ x # r
        /\ \A x \in image : x \in Requests /\ pc[x] = "ok" /\ x # r
        /\ \A p \in points' : p.id = nextId => p.image = image
    BY <2>1, TakePointEdits
  <2>3. \A q \in Requests \ {r} : pc'[q] \in {"idle"} \cup Ended
    BY <2>1 DEF Quiet, InFlight
  <2>4. PointsHoldFinished' /\ ImageHoldsNoFailed'
    BY <1>b, <2>1, <2>2
  <2>5. OwnPointHoldsRest'
    BY <1>b, <2>1, <2>2, <2>3 DEF Ended, Working
  <2>6. FoundBlank'
    BY <1>b, <2>1, <2>3 DEF Ended
  <2> QED BY <2>4, <2>5, <2>6
<1>2. ASSUME NEW r \in Requests, EditWrite(r) PROVE EditsInv'
  <2>1. /\ pc[r] = "working" /\ pc' = [pc EXCEPT ![r] = "written"]
        /\ image' = image \cup {r} /\ UNCHANGED <<points, token>>
    BY <1>2 DEF EditWrite, Step
  <2>2. \A q \in Requests \ {r} : Idle(q)'
    BY <1>b, <1>c, <2>1 DEF Idle, Ended
  <2> QED BY <1>a, <1>b, <2>1, <2>2 DEF Idle, Ended, Working
<1>3. ASSUME NEW r \in Requests, EditMark(r) PROVE EditsInv'
  BY <1>a, <1>b, <1>3 DEF EditMark, Step, Working, Autos
<1>4. ASSUME NEW r \in Requests, SaveArchive(r) PROVE EditsInv'
  BY <1>a, <1>b, <1>4 DEF SaveArchive, Step, Working, Autos
<1>5. ASSUME NEW r \in Requests, Finish(r) PROVE EditsInv'
  <2>1. /\ pc[r] \in Working /\ pc' = [pc EXCEPT ![r] = "ok"]
        /\ image' = image /\ points' \subseteq points /\ token' = token
    BY <1>5 DEF Finish, Step, Working, Without, Pruned
  <2>2. \A q \in Requests : Idle(q)'
    BY <1>b, <1>c, <2>1 DEF Idle, Ended, Working
  <2> QED BY <1>a, <1>b, <2>1, <2>2 DEF Idle, Ended, Working
<1>6. ASSUME NEW r \in Requests, Rollback(r) PROVE EditsInv'
  <2>1. /\ pc[r] \in Working /\ pc' = [pc EXCEPT ![r] = "rewinding"]
        /\ UNCHANGED <<points, token>>
    BY <1>6 DEF Rollback, Step
  <2>2. PICK p \in points : image' = p.image
    BY <1>6 DEF Rollback, OwnPoint
  <2>3. \A q \in Requests \ {r} : Idle(q)'
    BY <1>b, <1>c, <2>1 DEF Idle, Ended, Working
  <2> QED BY <1>a, <1>b, <2>1, <2>2, <2>3 DEF Idle, Ended, Working
<1>7. ASSUME NEW r \in Requests, RollbackWithoutPoint(r) PROVE EditsInv'
  <2>1. FALSE
    BY <1>7 DEF SavedInv, OwnsPoint, RollbackWithoutPoint, Step, OwnPoint
  <2> QED BY <2>1
<1>8. ASSUME NEW r \in Requests, RollbackDrop(r) PROVE EditsInv'
  <2>1. /\ pc[r] = "rewound" /\ pc' = [pc EXCEPT ![r] = "failed"]
        /\ image' = image /\ points' \subseteq points
    BY <1>8 DEF RollbackDrop, Step, Without, session
  <2>2. \A q \in Requests : Idle(q)'
    BY <1>b, <1>c, <2>1 DEF Idle, Ended
  <2> QED BY <1>a, <1>b, <2>1, <2>2 DEF Idle, Ended, Working
<1>9. ASSUME NEW r \in Requests, RestoreBegin(r) PROVE EditsInv'
  <2>1. /\ Quiet /\ pc[r] = "idle" /\ TakePoint(TRUE) /\ pc' = [pc EXCEPT ![r] = "restoring"]
        /\ image' = image
    BY <1>9 DEF RestoreBegin, Arrive, Step, session
  <2>2. /\ \A p \in points' : \A x \in p.image : x \in Requests /\ pc[x] = "ok" /\ x # r
        /\ \A x \in image : x \in Requests /\ pc[x] = "ok" /\ x # r
    BY <2>1, TakePointEdits
  <2>3. \A q \in Requests \ {r} : pc'[q] \in {"idle"} \cup Ended
    BY <2>1 DEF Quiet, InFlight
  <2>4. PointsHoldFinished' /\ ImageHoldsNoFailed'
    BY <1>b, <2>1, <2>2
  <2>5. OwnPointHoldsRest' /\ FoundBlank'
    BY <1>b, <2>1, <2>3 DEF Ended, Working
  <2> QED BY <2>4, <2>5
<1>10. ASSUME NEW r \in Requests, RestoreImage(r) PROVE EditsInv'
  <2>1. /\ pc[r] = "restoring" /\ pc' = [pc EXCEPT ![r] = "rewinding"]
        /\ UNCHANGED <<points, token>>
    BY <1>10 DEF RestoreImage, Step
  <2>2. PICK p \in points : image' = p.image
    BY <1>10 DEF RestoreImage, OwnPoint
  <2>3. \A q \in Requests \ {r} : Idle(q)'
    BY <1>b, <1>c, <2>1 DEF Idle, Ended
  <2> QED BY <1>a, <1>b, <2>1, <2>2, <2>3 DEF Idle, Ended, Working
<1>11. ASSUME NEW r \in Requests, RestoreWithoutPoint(r) PROVE EditsInv'
  <2>1. /\ pc[r] = "restoring" /\ pc' = [pc EXCEPT ![r] = "failed"]
        /\ UNCHANGED <<image, points, token>>
    BY <1>11 DEF RestoreWithoutPoint, Step, session
  <2>2. \A q \in Requests : Idle(q)'
    BY <1>b, <1>c, <2>1 DEF Idle, Ended
  <2> QED BY <1>a, <1>b, <2>1, <2>2 DEF Idle, Ended, Working
<1>12. ASSUME NEW r \in Requests, UndoImage(r) PROVE EditsInv'
  <2>1. /\ Quiet /\ pc[r] = "idle" /\ pc' = [pc EXCEPT ![r] = "rewinding"] /\ points' = points
    BY <1>12 DEF UndoImage, Arrive, Step
  <2>2. PICK p \in points : image' = p.image
    BY <1>12 DEF UndoImage
  <2>3. \A q \in Requests \ {r} : pc'[q] \in {"idle"} \cup Ended
    BY <2>1 DEF Quiet, InFlight
  <2> QED BY <1>a, <1>b, <2>1, <2>2, <2>3 DEF Ended, Working
<1>13. ASSUME NEW r \in Requests, Rewind(r) PROVE EditsInv'
  <2>1. /\ pc[r] = "rewinding" /\ UNCHANGED <<image, points, token>>
        /\ pc' = [pc EXCEPT ![r] = pc'[r]] /\ pc'[r] \in {"ok", "undoing", "rewound"}
    BY <1>b, <1>13 DEF Rewind
  <2>2. \A q \in Requests \ {r} : Idle(q)'
    BY <1>b, <1>c, <2>1 DEF Idle, Ended
  <2> QED BY <1>a, <1>b, <2>1, <2>2 DEF Idle, Ended, Working
<1>14. ASSUME NEW r \in Requests, UndoDrop(r) PROVE EditsInv'
  <2>1. /\ pc[r] = "undoing" /\ pc' = [pc EXCEPT ![r] = "ok"]
        /\ image' = image /\ points' \subseteq points
    BY <1>14 DEF UndoDrop, Step, Without, session
  <2>2. \A q \in Requests : Idle(q)'
    BY <1>b, <1>c, <2>1 DEF Idle, Ended
  <2> QED BY <1>a, <1>b, <2>1, <2>2 DEF Idle, Ended, Working
<1>15. ASSUME NEW r \in Requests, CreateNamed(r) PROVE EditsInv'
  <2>1. /\ Quiet /\ pc[r] = "idle" /\ TakePoint(FALSE) /\ pc' = [pc EXCEPT ![r] = "ok"]
        /\ image' = image
    BY <1>15 DEF CreateNamed, Arrive, Step, session
  <2>2. /\ \A p \in points' : \A x \in p.image : x \in Requests /\ pc[x] = "ok" /\ x # r
        /\ \A x \in image : x \in Requests /\ pc[x] = "ok" /\ x # r
    BY <2>1, TakePointEdits
  <2>3. \A q \in Requests : Idle(q)'
    BY <1>b, <2>1 DEF Quiet, InFlight, Idle, Ended
  <2>4. PointsHoldFinished' /\ ImageHoldsNoFailed'
    BY <1>b, <2>1, <2>2
  <2> QED BY <2>3, <2>4 DEF Idle, Ended, Working
<1>16. ASSUME NEW r \in Requests, DeletePoint(r) PROVE EditsInv'
  <2>1. /\ Quiet /\ pc[r] = "idle" /\ pc' = [pc EXCEPT ![r] = "ok"]
        /\ image' = image /\ points' \subseteq points
    BY <1>16 DEF DeletePoint, Arrive, Step, session
  <2>2. \A q \in Requests : Idle(q)'
    BY <1>b, <2>1 DEF Quiet, InFlight, Idle, Ended
  <2> QED BY <1>a, <1>b, <2>1, <2>2 DEF Idle, Ended, Working
<1>17. ASSUME NEW r \in Requests, Rename(r) PROVE EditsInv'
  <2>1. /\ Quiet /\ pc[r] = "idle" /\ pc' = [pc EXCEPT ![r] = "relabelling"]
        /\ UNCHANGED <<image, points>>
    BY <1>17 DEF Rename, Arrive, Step
  <2>2. \A q \in Requests \ {r} : Idle(q)'
    BY <1>b, <2>1 DEF Quiet, InFlight, Idle, Ended
  <2> QED BY <1>a, <1>b, <2>1, <2>2 DEF Idle, Ended, Working
<1>18. ASSUME NEW r \in Requests, Relabel(r) PROVE EditsInv'
  <2>1. /\ pc[r] = "relabelling" /\ image' = image
        /\ \E to \in {"ok", "unlabelled"} : pc' = [pc EXCEPT ![r] = to]
    BY <1>18, RelabelRenames DEF session
  <2>2. \A p \in points' : \E o \in points : p.image = o.image
    BY <1>18, RelabelRenames, RenamedPoints DEF SamePoint
  <2>3. \A q \in Requests : Idle(q)'
    BY <1>b, <1>c, <2>1 DEF Idle, Ended
  <2> QED BY <1>a, <1>b, <2>1, <2>2, <2>3 DEF Idle, Ended, Working
<1>19. ASSUME NEW r \in Requests, StoreProfile(r) PROVE EditsInv'
  <2>1. /\ Quiet /\ pc[r] = "idle" /\ pc' = [pc EXCEPT ![r] = "ok"]
        /\ UNCHANGED <<image, points>>
    BY <1>19 DEF StoreProfile, Arrive, Step
  <2>2. \A q \in Requests : Idle(q)'
    BY <1>b, <2>1 DEF Quiet, InFlight, Idle, Ended
  <2> QED BY <1>a, <1>b, <2>1, <2>2 DEF Idle, Ended, Working
<1>20. ASSUME Crash PROVE EditsInv'
  BY <1>20 DEF Crash
<1>21. CASE UNCHANGED vars
  BY <1>21 DEF vars
<1>22. ASSUME NEW r \in Requests, FindBlank(r) PROVE EditsInv'
  <2>1. /\ pc[r] = "working" /\ pc' = [pc EXCEPT ![r] = "blank"] /\ image = {}
        /\ UNCHANGED <<image, points, token>>
    BY <1>22 DEF FindBlank, Step, session
  <2> QED BY <1>a, <1>b, <2>1 DEF Working
<1>23. ASSUME NEW r \in Requests, ReplaceBlank(r) PROVE EditsInv'
  <2>1. /\ pc[r] = "blank" /\ pc' = [pc EXCEPT ![r] = "marked"]
        /\ image' = {r} /\ UNCHANGED <<points, token>>
    BY <1>23 DEF ReplaceBlank, Step
  <2>2. \A q \in Requests \ {r} : Idle(q)'
    BY <1>b, <1>c, <2>1 DEF Idle, Ended
  <2> QED BY <1>a, <1>b, <2>1, <2>2 DEF Idle, Ended, Working
<1> QED
  BY <1>1, <1>2, <1>3, <1>4, <1>5, <1>6, <1>7, <1>8, <1>9, <1>10, <1>11,
     <1>12, <1>13, <1>14, <1>15, <1>16, <1>17, <1>18, <1>19, <1>20, <1>21,
     <1>22, <1>23
  DEF Next, RequestStep, EditStep, RollbackStep, RestoreStep, UndoStep, RenameStep,
      NoMoreRequests

\* Requests one after another keep the edits where they belong.
LEMMA EditsInvariant ==
    ASSUME ~ Concurrent, ~ MayCrash
    PROVE  Spec => [](TypeOK /\ IdInv /\ SavedInv /\ EditsInv)
<1>1. Init => EditsInv
  BY DEF Init, EditsInv, PointsHoldFinished, ImageHoldsNoFailed, OwnPointHoldsRest,
     FoundBlank, Working
<1>2. TypeOK /\ IdInv /\ SavedInv /\ EditsInv /\ [Next]_vars => EditsInv'
  BY EditsStep
<1> QED BY <1>1, <1>2, SavedInvariant, PTL DEF Spec

\* With requests one after another and no crash, the image holds nothing of an
\* edit whose request answered with an error.
THEOREM FailuresLeaveNothing ==
    ASSUME ~ Concurrent, ~ MayCrash PROVE Spec => []FailedEditIsGone
<1>1. EditsInv => FailedEditIsGone
  BY DEF EditsInv, ImageHoldsNoFailed, FailedEditIsGone
<1> QED BY <1>1, EditsInvariant, PTL

\* Under the same conditions a finished edit is taken out of the image by an
\* undo or a restore only: the rollback of another request leaves it there.
THEOREM FinishedEditsStay ==
    ASSUME ~ Concurrent, ~ MayCrash PROVE Spec => FinishedEditKept
<1> DEFINE Asked == \E q \in Requests : /\ kind'[q] \in {"undo", "restore"}
                                        /\ pc[q] # "rewinding" /\ pc'[q] = "rewinding"
           Stays == \A r \in image \ image' : pc[r] = "ok" => Asked
<1>1. ASSUME TypeOK, IdInv, EditsInv, [Next]_vars PROVE Stays
  <2> SUFFICES ASSUME NEW x \in image \ image', pc[x] = "ok" PROVE Asked
    OBVIOUS
  <2>1. ASSUME NEW r \in Requests, EditWrite(r) PROVE FALSE
    BY <2>1 DEF EditWrite
  <2>2. ASSUME NEW r \in Requests, Rollback(r) PROVE FALSE
    BY <1>1, <2>2
    DEF Rollback, Step, OwnPoint, EditsInv, OwnPointHoldsRest, Working
  <2>3. ASSUME NEW r \in Requests, RestoreImage(r) PROVE Asked
    BY <1>1, <2>3 DEF RestoreImage, Step, IdInv, TypeOK
  <2>4. ASSUME NEW r \in Requests, UndoImage(r) PROVE Asked
    BY <1>1, <2>4 DEF UndoImage, Arrive, Step, TypeOK
  <2>5. image' # image
    OBVIOUS
  <2>6. ASSUME NEW r \in Requests, ReplaceBlank(r) PROVE FALSE
    BY <1>1, <2>6 DEF ReplaceBlank, Step, EditsInv, FoundBlank
  <2> QED
    BY <1>1, <2>1, <2>2, <2>3, <2>4, <2>5, <2>6
    DEF Next, RequestStep, EditStep, RollbackStep, RestoreStep, UndoStep, RenameStep,
        NoMoreRequests, Crash, StoreProfile, Rename, Relabel, Rewind, Begin, RestoreBegin,
        CreateNamed, DeletePoint, Finish, RollbackDrop, UndoDrop, RestoreWithoutPoint,
        RollbackWithoutPoint, SaveArchive, EditMark, FindBlank, session, vars
<1>2. TypeOK /\ IdInv /\ EditsInv /\ [Next]_vars => [Stays]_vars
  BY <1>1
<1> QED BY <1>2, EditsInvariant, PTL DEF Spec, FinishedEditKept

-----------------------------------------------------------------------------
(***************************************************************************)
(* Names.  A rename holds the lock between its two steps, and so does a    *)
(* rewind; whoever takes a point, or a name from a point, has the lock.    *)
(* While a rename is between its steps, its old name is the one that goes  *)
(* with the image; while a rewind is, it is the name of the point that the *)
(* image was taken from.                                                   *)
(***************************************************************************)
Holding(r) == pc[r] \in {"rewinding", "undoing", "relabelling"}
AllLabelled == \A r \in Requests : pc[r] # "unlabelled"

LockHeld == \A r \in Requests : Holding(r) <=> lock = r
Written(r) == pc[r] \notin {"idle", "working", "blank"}
HoldsWritten ==
    /\ \A r \in image : Written(r)
    /\ \A p \in points : \A r \in p.image : Written(r)
PointsAlike ==
    \A p, q \in points : Replacements(p.image) = Replacements(q.image) => p.name = q.name
NowAlike(name) ==
    \A p \in points : Replacements(p.image) = Replacements(image) => p.name = name
SettledName == (\A r \in Requests : pc[r] \notin {"rewinding", "relabelling"}) => NowAlike(mem.name)
OldName == \A r \in Requests : pc[r] = "relabelling" => NowAlike(token[r].name)
PointName ==
    \A r \in Requests : pc[r] = "rewinding" =>
        \E p \in points : p.id = token[r].point /\ p.image = image

NamesInv ==
    /\ LockHeld
    /\ HoldsWritten
    /\ PointName
    /\ AllLabelled => PointsAlike /\ SettledName /\ OldName

\* What an image holds was replaced before and after a step alike: a request
\* takes its kind when it arrives, and nothing holds what has not arrived.
LEMMA ReplacementsStay ==
    ASSUME TypeOK, HoldsWritten, NEW r \in Requests,
           \A x \in Requests \ {r} : kind'[x] = kind[x],
           kind'[r] = kind[r] \/ pc[r] = "idle"
    PROVE  /\ {x \in image : kind'[x] = "replace"} = Replacements(image)
           /\ \A p \in points : {x \in p.image : kind'[x] = "replace"} = Replacements(p.image)
<1>1. \A x \in image : x \in Requests /\ kind'[x] = kind[x]
  BY DEF TypeOK, Contents, HoldsWritten, Written
<1>2. \A p \in points : \A x \in p.image : x \in Requests /\ kind'[x] = kind[x]
  BY DEF TypeOK, Point, Contents, HoldsWritten, Written
<1> QED BY <1>1, <1>2 DEF Replacements

\* A step under the free lock that leaves the image alone, changes no name and
\* removes or adds points of the image as it is keeps the names together.
LEMMA NamesKept ==
    ASSUME TypeOK, NamesInv, NEW r \in Requests, ~ Holding(r), NEW to,
           to \notin {"rewinding", "undoing", "relabelling", "idle", "working", "blank"}
               \/ (pc[r] \in {"idle", "working"} /\ to \in {"working", "blank"}),
           pc' = [pc EXCEPT ![r] = to], pc[r] # "unlabelled",
           \A x \in Requests \ {r} : kind'[x] = kind[x] /\ token'[x] = token[x],
           kind'[r] = kind[r] \/ pc[r] = "idle",
           UNCHANGED <<image, lock>>, mem'.name = mem.name,
           \A p \in points' : p \in points \/ (Free /\ p.image = image /\ p.name = mem.name),
           points \subseteq points' \/ Free
    PROVE  NamesInv'
<1> USE RequestAssumption
<1>a. pc \in [Requests -> {"idle", "restoring", "rewinding", "rewound",
                            "undoing", "relabelling"} \cup Working \cup Ended]
  BY DEF TypeOK
<1>b. pc'[r] = to /\ \A x \in Requests \ {r} : pc'[x] = pc[x]
  BY <1>a
<1>c. to \notin {"rewinding", "undoing", "relabelling"}
  OBVIOUS
<1>d. /\ \A x \in Requests : (pc'[x] = "rewinding" <=> pc[x] = "rewinding")
      /\ \A x \in Requests : (pc'[x] = "undoing" <=> pc[x] = "undoing")
      /\ \A x \in Requests : (pc'[x] = "relabelling" <=> pc[x] = "relabelling")
      /\ \A x \in Requests : Holding(x) => x # r
  BY <1>b, <1>c DEF Holding
<1>1. LockHeld'
  BY <1>d DEF NamesInv, LockHeld, Holding
<1>2. Free => \A x \in Requests : ~ Holding(x)
  BY DEF Free, NamesInv, LockHeld
<1>3. \A x \in Requests : Written(x) => Written(x)'
  BY <1>b DEF Written
<1>4. HoldsWritten'
  <2>1. \A x \in image : x \in Requests /\ Written(x)
    BY DEF TypeOK, Contents, NamesInv, HoldsWritten
  <2>2. \A p \in points : \A x \in p.image : x \in Requests /\ Written(x)
    BY DEF TypeOK, Point, Contents, NamesInv, HoldsWritten
  <2>3. \A x \in image' : Written(x)'
    BY <1>3, <2>1
  <2>4. \A p \in points' : \A x \in p.image : Written(x)'
    BY <1>3, <2>1, <2>2
  <2> QED BY <2>3, <2>4 DEF HoldsWritten
<1>5. PointName'
  <2> SUFFICES ASSUME NEW x \in Requests, pc'[x] = "rewinding"
               PROVE  \E p \in points' : p.id = token'[x].point /\ p.image = image'
    BY DEF PointName
  <2>1. Holding(x) /\ pc[x] = "rewinding" /\ x # r
    BY <1>d DEF Holding
  <2>2. points \subseteq points' /\ token'[x] = token[x]
    BY <1>2, <2>1
  <2> QED BY <2>1, <2>2 DEF NamesInv, PointName
<1>6. ASSUME AllLabelled' PROVE PointsAlike' /\ SettledName' /\ OldName'
  <2>1. AllLabelled
    BY <1>6, <1>b DEF AllLabelled
  <2>2. /\ \A p \in points : {x \in p.image : kind'[x] = "replace"} = Replacements(p.image)
        /\ {x \in image : kind'[x] = "replace"} = Replacements(image)
    BY ReplacementsStay DEF NamesInv
  <2>3. Free => NowAlike(mem.name)
    BY <1>2, <2>1 DEF NamesInv, SettledName, Holding
  <2>4. ASSUME NEW name, NowAlike(name), Free => name = mem.name
        PROVE  \A p \in points' :
                  {x \in p.image : kind'[x] = "replace"} = {x \in image : kind'[x] = "replace"}
                      => p.name = name
    BY <2>2, <2>4 DEF NowAlike
  <2>5. PointsAlike'
    <3> SUFFICES ASSUME NEW p \in points', NEW q \in points',
                        {x \in p.image : kind'[x] = "replace"}
                            = {x \in q.image : kind'[x] = "replace"}
                 PROVE  p.name = q.name
      BY DEF PointsAlike, Replacements
    <3>1. CASE p \in points /\ q \in points
      BY <2>1, <2>2, <3>1 DEF NamesInv, PointsAlike
    <3>2. CASE p \in points /\ q \notin points
      BY <2>2, <2>3, <3>2 DEF NowAlike
    <3>3. CASE p \notin points /\ q \in points
      BY <2>2, <2>3, <3>3 DEF NowAlike
    <3>4. CASE p \notin points /\ q \notin points
      BY <3>4
    <3> QED BY <3>1, <3>2, <3>3, <3>4
  <2>6. SettledName'
    <3> SUFFICES ASSUME \A x \in Requests : pc'[x] \notin {"rewinding", "relabelling"}
                 PROVE  NowAlike(mem.name)'
      BY DEF SettledName
    <3>1. NowAlike(mem.name)
      BY <1>d, <2>1 DEF NamesInv, SettledName
    <3>2. \A p \in points' :
              {x \in p.image : kind'[x] = "replace"} = {x \in image : kind'[x] = "replace"}
                  => p.name = mem.name
      BY <2>4, <3>1
    <3> QED BY <3>2 DEF NowAlike, Replacements
  <2>7. OldName'
    <3> SUFFICES ASSUME NEW x \in Requests, pc'[x] = "relabelling"
                 PROVE  NowAlike(token[x].name)'
      BY DEF OldName
    <3>1. pc[x] = "relabelling" /\ Holding(x) /\ token'[x] = token[x]
      BY <1>d DEF Holding
    <3>2. ~ Free /\ NowAlike(token[x].name)
      BY <1>2, <2>1, <3>1 DEF NamesInv, OldName
    <3>3. \A p \in points' :
              {y \in p.image : kind'[y] = "replace"} = {y \in image : kind'[y] = "replace"}
                  => p.name = token[x].name
      BY <2>4, <3>2
    <3> QED BY <3>1, <3>3 DEF NowAlike, Replacements
  <2> QED BY <2>5, <2>6, <2>7
<1> QED BY <1>1, <1>4, <1>5, <1>6 DEF NamesInv

\* When the image becomes that of a point, under the lock then taken, the
\* names of the points are not touched.
LEMMA NamesRewound ==
    ASSUME TypeOK, NamesInv, NEW r \in Requests, Free, pc[r] # "unlabelled",
           pc' = [pc EXCEPT ![r] = "rewinding"], lock' = r,
           \A x \in Requests \ {r} : kind'[x] = kind[x],
           kind'[r] = kind[r] \/ pc[r] = "idle",
           points' = points,
           NEW p \in points, image' = p.image, token'[r].point = p.id
    PROVE  NamesInv'
<1> USE RequestAssumption
<1>a. pc'[r] = "rewinding" /\ \A x \in Requests \ {r} : pc'[x] = pc[x]
  BY DEF TypeOK
<1>b. \A x \in Requests : ~ Holding(x)
  BY DEF Free, NamesInv, LockHeld
<1>1. LockHeld'
  BY <1>a, <1>b DEF LockHeld, Holding
<1>2. HoldsWritten'
  <2>1. \A q \in points : \A x \in q.image : x \in Requests /\ Written(x)
    BY DEF TypeOK, Point, Contents, NamesInv, HoldsWritten
  <2>2. \A x \in Requests : Written(x) => Written(x)'
    BY <1>a DEF Written
  <2> QED BY <2>1, <2>2 DEF HoldsWritten
<1>3. PointName'
  BY <1>a, <1>b DEF PointName, Holding
<1>4. ASSUME AllLabelled' PROVE PointsAlike' /\ SettledName' /\ OldName'
  <2>1. AllLabelled
    BY <1>4, <1>a DEF AllLabelled
  <2>2. \A q \in points : {x \in q.image : kind'[x] = "replace"} = Replacements(q.image)
    BY ReplacementsStay DEF NamesInv
  <2>3. PointsAlike'
    BY <2>1, <2>2 DEF NamesInv, PointsAlike, Replacements
  <2>4. SettledName'
    BY <1>a DEF SettledName
  <2>5. OldName'
    BY <1>a, <1>b DEF OldName, Holding
  <2> QED BY <2>3, <2>4, <2>5
<1> QED BY <1>1, <1>2, <1>3, <1>4 DEF NamesInv

\* Each step that does not kill the process keeps lock and names together.
LEMMA NamesStep ==
    ASSUME ~ MayCrash, TypeOK, IdInv, NamesInv, [Next]_vars
    PROVE  NamesInv'
<1> USE RequestAssumption
<1>a. /\ pc \in [Requests -> {"idle", "restoring", "rewinding", "rewound",
                            "undoing", "relabelling"} \cup Working \cup Ended]
      /\ kind \in [Requests -> AllKinds \cup {"none"}] /\ token \in [Requests -> Token]
      /\ mem \in State
  BY DEF TypeOK
<1>b. Free => \A x \in Requests : ~ Holding(x)
  BY DEF Free, NamesInv, LockHeld
<1>c. \A x \in Requests : Holding(x) => lock = x /\ \A y \in Requests \ {x} : ~ Holding(y)
  BY DEF NamesInv, LockHeld
<1>d. \A auto : Snapshot(auto).image = image /\ Snapshot(auto).name = mem.name
  BY DEF Snapshot
<1>1. ASSUME NEW r \in Requests, Begin(r) PROVE NamesInv'
  <2>1. /\ pc[r] = "idle" /\ pc' = [pc EXCEPT ![r] = "working"] /\ Free
        /\ \A x \in Requests \ {r} : kind'[x] = kind[x] /\ token'[x] = token[x]
        /\ kind'[r] = kind[r] \/ pc[r] = "idle"
    BY <1>1, <1>a DEF Begin, Arrive, Step
  <2>2. UNCHANGED <<image, lock>> /\ mem'.name = mem.name
    BY <1>1, <1>a DEF Begin, State, session
  <2>3. /\ \A p \in points' : p \in points \/ (Free /\ p.image = image /\ p.name = mem.name)
        /\ points \subseteq points' \/ Free
    BY <1>1, <1>d DEF Begin, TakePoint
  <2>4. ~ Holding(r)
    BY <2>1 DEF Holding, Working
  <2> QED BY <2>1, <2>2, <2>3, <2>4, NamesKept DEF Working
<1>2. ASSUME NEW r \in Requests, EditWrite(r) PROVE NamesInv'
  <2>1. /\ pc[r] = "working" /\ pc' = [pc EXCEPT ![r] = "written"] /\ Free
        /\ kind[r] = "edit" /\ image' = image \cup {r}
        /\ UNCHANGED <<mem, points, lock, kind, token>>
    BY <1>2 DEF EditWrite, Step
  <2>2. pc'[r] = "written" /\ \A x \in Requests \ {r} : pc'[x] = pc[x]
    BY <1>a, <2>1
  <2>3. LockHeld' /\ PointName'
    BY <1>b, <2>1, <2>2 DEF NamesInv, LockHeld, Holding, PointName
  <2>4. HoldsWritten'
    <3>1. \A x \in Requests : Written(x) => Written(x)'
      BY <2>2 DEF Written
    <3>2. Written(r)'
      BY <2>2 DEF Written
    <3>3. /\ \A x \in image : x \in Requests /\ Written(x)
          /\ \A p \in points : \A x \in p.image : x \in Requests /\ Written(x)
      BY DEF TypeOK, Point, Contents, NamesInv, HoldsWritten
    <3> QED BY <2>1, <3>1, <3>2, <3>3 DEF HoldsWritten
  <2>5. Replacements(image)' = Replacements(image)
    BY <2>1 DEF Replacements
  <2>6. \A x \in Requests : pc[x] \notin {"rewinding", "relabelling"}
    BY <1>b, <2>1 DEF Holding
  <2>7. ASSUME AllLabelled' PROVE PointsAlike' /\ SettledName' /\ OldName'
    <3>1. AllLabelled
      BY <2>2, <2>7, <2>1 DEF AllLabelled
    <3>2. PointsAlike'
      BY <2>1, <3>1 DEF NamesInv, PointsAlike, Replacements
    <3>3. NowAlike(mem.name)
      BY <2>6, <3>1 DEF NamesInv, SettledName
    <3>4. SettledName'
      BY <2>1, <2>5, <3>3 DEF SettledName, NowAlike, Replacements
    <3>5. OldName'
      BY <2>2, <2>6 DEF OldName
    <3> QED BY <3>2, <3>4, <3>5
  <2> QED BY <2>3, <2>4, <2>7 DEF NamesInv
<1>3. ASSUME NEW r \in Requests, EditMark(r) PROVE NamesInv'
  <2>1. /\ pc[r] = "written" /\ pc' = [pc EXCEPT ![r] = "marked"]
        /\ \A x \in Requests \ {r} : kind'[x] = kind[x] /\ token'[x] = token[x]
        /\ kind'[r] = kind[r] \/ pc[r] = "idle"
    BY <1>3, <1>a DEF EditMark, Step
  <2>2. UNCHANGED <<image, lock>> /\ mem'.name = mem.name
    BY <1>3, <1>a DEF EditMark, State, session
  <2>3. /\ \A p \in points' : p \in points \/ (Free /\ p.image = image /\ p.name = mem.name)
        /\ points \subseteq points' \/ Free
    BY <1>3, <1>d DEF EditMark
  <2>4. ~ Holding(r)
    BY <2>1 DEF Holding, Working
  <2> QED BY <2>1, <2>2, <2>3, <2>4, NamesKept DEF Working
<1>4. ASSUME NEW r \in Requests, SaveArchive(r) PROVE NamesInv'
  <2>1. /\ pc[r] = "working" /\ pc' = [pc EXCEPT ![r] = "marked"] /\ Free
        /\ \A x \in Requests \ {r} : kind'[x] = kind[x] /\ token'[x] = token[x]
        /\ kind'[r] = kind[r] \/ pc[r] = "idle"
    BY <1>4, <1>a DEF SaveArchive, Step
  <2>2. UNCHANGED <<image, lock>> /\ mem'.name = mem.name
    BY <1>4, <1>a DEF SaveArchive, State, session
  <2>3. /\ \A p \in points' : p \in points \/ (Free /\ p.image = image /\ p.name = mem.name)
        /\ points \subseteq points' \/ Free
    BY <1>4, <1>d DEF SaveArchive
  <2>4. ~ Holding(r)
    BY <2>1 DEF Holding, Working
  <2> QED BY <2>1, <2>2, <2>3, <2>4, NamesKept DEF Working
<1>5. ASSUME NEW r \in Requests, Finish(r) PROVE NamesInv'
  <2>1. /\ pc[r] \in Working /\ pc' = [pc EXCEPT ![r] = "ok"] /\ Free
        /\ \A x \in Requests \ {r} : kind'[x] = kind[x] /\ token'[x] = token[x]
        /\ kind'[r] = kind[r] \/ pc[r] = "idle"
    BY <1>5, <1>a DEF Finish, Step, Working
  <2>2. UNCHANGED <<image, lock>> /\ mem'.name = mem.name
    BY <1>5, <1>a DEF Finish, State, session
  <2>3. /\ \A p \in points' : p \in points \/ (Free /\ p.image = image /\ p.name = mem.name)
        /\ points \subseteq points' \/ Free
    BY <1>5, <1>d DEF Finish, Pruned, Without
  <2>4. ~ Holding(r)
    BY <2>1 DEF Holding, Working
  <2> QED BY <2>1, <2>2, <2>3, <2>4, NamesKept DEF Working
<1>6. ASSUME NEW r \in Requests, Rollback(r) PROVE NamesInv'
  <2>1. /\ pc[r] # "unlabelled" /\ pc' = [pc EXCEPT ![r] = "rewinding"] /\ Free
        /\ lock' = r /\ points' = points
        /\ \A x \in Requests \ {r} : kind'[x] = kind[x]
        /\ kind'[r] = kind[r] \/ pc[r] = "idle"
    BY <1>6, <1>a DEF Rollback, Step, Working
  <2>2. \E p \in points : image' = p.image /\ token'[r].point = p.id
    BY <1>6, <1>a DEF Rollback, OwnPoint
  <2> QED BY <2>1, <2>2, NamesRewound
<1>7. ASSUME NEW r \in Requests, RollbackWithoutPoint(r) PROVE NamesInv'
  <2>1. /\ pc[r] \in Working /\ pc' = [pc EXCEPT ![r] = "failed"] /\ Free
        /\ \A x \in Requests \ {r} : kind'[x] = kind[x] /\ token'[x] = token[x]
        /\ kind'[r] = kind[r] \/ pc[r] = "idle"
    BY <1>7, <1>a DEF RollbackWithoutPoint, Step
  <2>2. UNCHANGED <<image, lock>> /\ mem'.name = mem.name
    BY <1>7, <1>a DEF RollbackWithoutPoint, State, session
  <2>3. /\ \A p \in points' : p \in points \/ (Free /\ p.image = image /\ p.name = mem.name)
        /\ points \subseteq points' \/ Free
    BY <1>7, <1>d DEF RollbackWithoutPoint
  <2>4. ~ Holding(r)
    BY <2>1 DEF Holding, Working
  <2> QED BY <2>1, <2>2, <2>3, <2>4, NamesKept DEF Working
<1>8. ASSUME NEW r \in Requests, RollbackDrop(r) PROVE NamesInv'
  <2>1. /\ pc[r] = "rewound" /\ pc' = [pc EXCEPT ![r] = "failed"] /\ Free
        /\ \A x \in Requests \ {r} : kind'[x] = kind[x] /\ token'[x] = token[x]
        /\ kind'[r] = kind[r] \/ pc[r] = "idle"
    BY <1>8, <1>a DEF RollbackDrop, Step
  <2>2. UNCHANGED <<image, lock>> /\ mem'.name = mem.name
    BY <1>8, <1>a DEF RollbackDrop, State, session
  <2>3. /\ \A p \in points' : p \in points \/ (Free /\ p.image = image /\ p.name = mem.name)
        /\ points \subseteq points' \/ Free
    BY <1>8, <1>d DEF RollbackDrop, Without
  <2>4. ~ Holding(r)
    BY <2>1 DEF Holding, Working
  <2> QED BY <2>1, <2>2, <2>3, <2>4, NamesKept DEF Working
<1>9. ASSUME NEW r \in Requests, RestoreBegin(r) PROVE NamesInv'
  <2>1. /\ pc[r] = "idle" /\ pc' = [pc EXCEPT ![r] = "restoring"] /\ Free
        /\ \A x \in Requests \ {r} : kind'[x] = kind[x] /\ token'[x] = token[x]
        /\ kind'[r] = kind[r] \/ pc[r] = "idle"
    BY <1>9, <1>a DEF RestoreBegin, Arrive, Step
  <2>2. UNCHANGED <<image, lock>> /\ mem'.name = mem.name
    BY <1>9, <1>a DEF RestoreBegin, State, session
  <2>3. /\ \A p \in points' : p \in points \/ (Free /\ p.image = image /\ p.name = mem.name)
        /\ points \subseteq points' \/ Free
    BY <1>9, <1>d DEF RestoreBegin, TakePoint
  <2>4. ~ Holding(r)
    BY <2>1 DEF Holding, Working
  <2> QED BY <2>1, <2>2, <2>3, <2>4, NamesKept DEF Working
<1>10. ASSUME NEW r \in Requests, RestoreImage(r) PROVE NamesInv'
  <2>1. /\ pc[r] # "unlabelled" /\ pc' = [pc EXCEPT ![r] = "rewinding"] /\ Free
        /\ lock' = r /\ points' = points
        /\ \A x \in Requests \ {r} : kind'[x] = kind[x]
        /\ kind'[r] = kind[r] \/ pc[r] = "idle"
    BY <1>10, <1>a DEF RestoreImage, Step, Working
  <2>2. \E p \in points : image' = p.image /\ token'[r].point = p.id
    BY <1>10, <1>a DEF RestoreImage, OwnPoint
  <2> QED BY <2>1, <2>2, NamesRewound
<1>11. ASSUME NEW r \in Requests, RestoreWithoutPoint(r) PROVE NamesInv'
  <2>1. /\ pc[r] = "restoring" /\ pc' = [pc EXCEPT ![r] = "failed"] /\ Free
        /\ \A x \in Requests \ {r} : kind'[x] = kind[x] /\ token'[x] = token[x]
        /\ kind'[r] = kind[r] \/ pc[r] = "idle"
    BY <1>11, <1>a DEF RestoreWithoutPoint, Step
  <2>2. UNCHANGED <<image, lock>> /\ mem'.name = mem.name
    BY <1>11, <1>a DEF RestoreWithoutPoint, State, session
  <2>3. /\ \A p \in points' : p \in points \/ (Free /\ p.image = image /\ p.name = mem.name)
        /\ points \subseteq points' \/ Free
    BY <1>11, <1>d DEF RestoreWithoutPoint
  <2>4. ~ Holding(r)
    BY <2>1 DEF Holding, Working
  <2> QED BY <2>1, <2>2, <2>3, <2>4, NamesKept DEF Working
<1>12. ASSUME NEW r \in Requests, UndoImage(r) PROVE NamesInv'
  <2>1. /\ pc[r] # "unlabelled" /\ pc' = [pc EXCEPT ![r] = "rewinding"] /\ Free
        /\ lock' = r /\ points' = points
        /\ \A x \in Requests \ {r} : kind'[x] = kind[x]
        /\ kind'[r] = kind[r] \/ pc[r] = "idle"
    BY <1>12, <1>a DEF UndoImage, Step, Working, Arrive
  <2>2. \E p \in points : image' = p.image /\ token'[r].point = p.id
    BY <1>12, <1>a DEF UndoImage, Token
  <2> QED BY <2>1, <2>2, NamesRewound
<1>13. ASSUME NEW r \in Requests, Rewind(r) PROVE NamesInv'
  <2>1. /\ pc[r] = "rewinding" /\ UNCHANGED <<image, points, kind, token>>
        /\ \/ pc' = [pc EXCEPT ![r] = "undoing"] /\ lock' = r
           \/ pc' = [pc EXCEPT ![r] = "ok"] /\ lock' = NoRequest
           \/ pc' = [pc EXCEPT ![r] = "rewound"] /\ lock' = NoRequest
    BY <1>13 DEF Rewind
  <2>2. PICK p \in points : p.id = token[r].point /\ mem' = [name |-> p.name, dirty |-> p.dirty]
    BY <1>13 DEF Rewind, OwnPoint
  <2>3. p.image = image
    BY <2>1, <2>2 DEF NamesInv, PointName, IdInv
  <2>4. \A x \in Requests \ {r} : ~ Holding(x) /\ pc'[x] = pc[x]
    BY <1>a, <1>c, <2>1 DEF Holding
  <2>5. LockHeld'
    BY <1>a, <2>1, <2>4 DEF LockHeld, Holding
  <2>6. PointName'
    BY <1>a, <2>1, <2>4 DEF PointName, Holding
  <2>7. HoldsWritten'
    <3>1. \A x \in Requests : Written(x) => Written(x)'
      BY <1>a, <2>1, <2>4 DEF Written
    <3>2. /\ \A x \in image : x \in Requests /\ Written(x)
          /\ \A q \in points : \A x \in q.image : x \in Requests /\ Written(x)
      BY DEF TypeOK, Point, Contents, NamesInv, HoldsWritten
    <3> QED BY <2>1, <3>1, <3>2 DEF HoldsWritten
  <2>8. ASSUME AllLabelled' PROVE PointsAlike' /\ SettledName' /\ OldName'
    <3>1. AllLabelled
      BY <1>a, <2>1, <2>4, <2>8 DEF AllLabelled
    <3>2. PointsAlike /\ PointsAlike'
      BY <2>1, <3>1 DEF NamesInv, PointsAlike, Replacements
    <3>3. NowAlike(p.name)
      BY <2>3, <3>2 DEF PointsAlike, NowAlike
    <3>4. mem'.name = p.name
      BY <2>2
    <3>5. SettledName'
      BY <2>1, <3>3, <3>4 DEF SettledName, NowAlike, Replacements
    <3>6. OldName'
      BY <1>a, <2>1, <2>4 DEF OldName, Holding
    <3> QED BY <3>2, <3>5, <3>6
  <2> QED BY <2>5, <2>6, <2>7, <2>8 DEF NamesInv
<1>14. ASSUME NEW r \in Requests, UndoDrop(r) PROVE NamesInv'
  <2>1. /\ pc[r] = "undoing" /\ pc' = [pc EXCEPT ![r] = "ok"] /\ lock' = NoRequest
        /\ UNCHANGED <<image, mem, kind, token>> /\ points' \subseteq points
    BY <1>14 DEF UndoDrop, Step, Without, session
  <2>2. pc'[r] = "ok" /\ \A x \in Requests \ {r} : ~ Holding(x) /\ pc'[x] = pc[x]
    BY <1>a, <1>c, <2>1 DEF Holding
  <2>3. LockHeld' /\ PointName'
    BY <2>1, <2>2 DEF LockHeld, PointName, Holding
  <2>4. HoldsWritten'
    <3>1. \A x \in Requests : Written(x) => Written(x)'
      BY <2>1, <2>2 DEF Written
    <3>2. /\ \A x \in image : x \in Requests /\ Written(x)
          /\ \A q \in points : \A x \in q.image : x \in Requests /\ Written(x)
      BY DEF TypeOK, Point, Contents, NamesInv, HoldsWritten
    <3> QED BY <2>1, <3>1, <3>2 DEF HoldsWritten
  <2>5. ASSUME AllLabelled' PROVE PointsAlike' /\ SettledName' /\ OldName'
    <3>1. AllLabelled
      BY <2>1, <2>2, <2>5 DEF AllLabelled
    <3>2. NowAlike(mem.name)
      BY <2>1, <2>2, <3>1 DEF NamesInv, SettledName, Holding
    <3>3. PointsAlike'
      BY <2>1, <3>1 DEF NamesInv, PointsAlike, Replacements
    <3>4. SettledName'
      BY <2>1, <3>2 DEF SettledName, NowAlike, Replacements
    <3>5. OldName'
      BY <2>2 DEF OldName, Holding
    <3> QED BY <3>3, <3>4, <3>5
  <2> QED BY <2>3, <2>4, <2>5 DEF NamesInv
<1>15. ASSUME NEW r \in Requests, CreateNamed(r) PROVE NamesInv'
  <2>1. /\ pc[r] = "idle" /\ pc' = [pc EXCEPT ![r] = "ok"] /\ Free
        /\ \A x \in Requests \ {r} : kind'[x] = kind[x] /\ token'[x] = token[x]
        /\ kind'[r] = kind[r] \/ pc[r] = "idle"
    BY <1>15, <1>a DEF CreateNamed, Arrive, Step
  <2>2. UNCHANGED <<image, lock>> /\ mem'.name = mem.name
    BY <1>15, <1>a DEF CreateNamed, State, session
  <2>3. /\ \A p \in points' : p \in points \/ (Free /\ p.image = image /\ p.name = mem.name)
        /\ points \subseteq points' \/ Free
    BY <1>15, <1>d DEF CreateNamed, TakePoint
  <2>4. ~ Holding(r)
    BY <2>1 DEF Holding, Working
  <2> QED BY <2>1, <2>2, <2>3, <2>4, NamesKept DEF Working
<1>16. ASSUME NEW r \in Requests, DeletePoint(r) PROVE NamesInv'
  <2>1. /\ pc[r] = "idle" /\ pc' = [pc EXCEPT ![r] = "ok"] /\ Free
        /\ \A x \in Requests \ {r} : kind'[x] = kind[x] /\ token'[x] = token[x]
        /\ kind'[r] = kind[r] \/ pc[r] = "idle"
    BY <1>16, <1>a DEF DeletePoint, Arrive, Step
  <2>2. UNCHANGED <<image, lock>> /\ mem'.name = mem.name
    BY <1>16, <1>a DEF DeletePoint, State, session
  <2>3. /\ \A p \in points' : p \in points \/ (Free /\ p.image = image /\ p.name = mem.name)
        /\ points \subseteq points' \/ Free
    BY <1>16, <1>d DEF DeletePoint
  <2>4. ~ Holding(r)
    BY <2>1 DEF Holding, Working
  <2> QED BY <2>1, <2>2, <2>3, <2>4, NamesKept DEF Working
<1>17. ASSUME NEW r \in Requests, Rename(r) PROVE NamesInv'
  <2>1. /\ pc[r] = "idle" /\ pc' = [pc EXCEPT ![r] = "relabelling"] /\ Free /\ lock' = r
        /\ UNCHANGED <<image, points>> /\ \A x \in Requests \ {r} : kind'[x] = kind[x]
        /\ token' = [token EXCEPT ![r].name = mem.name]
    BY <1>17, <1>a DEF Rename, Arrive, Step
  <2>2. /\ pc'[r] = "relabelling" /\ token'[r].name = mem.name
        /\ \A x \in Requests \ {r} : ~ Holding(x) /\ pc'[x] = pc[x]
    BY <1>a, <1>b, <2>1 DEF Token
  <2>3. LockHeld' /\ PointName'
    BY <2>1, <2>2 DEF LockHeld, PointName, Holding
  <2>4. HoldsWritten'
    <3>1. \A x \in Requests : Written(x) => Written(x)'
      BY <2>1, <2>2 DEF Written
    <3>2. /\ \A x \in image : x \in Requests /\ Written(x)
          /\ \A q \in points : \A x \in q.image : x \in Requests /\ Written(x)
      BY DEF TypeOK, Point, Contents, NamesInv, HoldsWritten
    <3> QED BY <2>1, <3>1, <3>2 DEF HoldsWritten
  <2>5. ASSUME AllLabelled' PROVE PointsAlike' /\ SettledName' /\ OldName'
    <3>1. AllLabelled
      BY <2>1, <2>2, <2>5 DEF AllLabelled
    <3>2. NowAlike(mem.name)
      BY <1>b, <2>1, <3>1 DEF NamesInv, SettledName, Holding
    <3>3. /\ \A p \in points : {x \in p.image : kind'[x] = "replace"} = Replacements(p.image)
          /\ {x \in image : kind'[x] = "replace"} = Replacements(image)
      BY <2>1, ReplacementsStay DEF NamesInv
    <3>4. PointsAlike'
      BY <2>1, <3>1, <3>3 DEF NamesInv, PointsAlike, Replacements
    <3>5. SettledName'
      BY <2>2 DEF SettledName
    <3>6. NowAlike(token[r].name)'
      BY <2>1, <2>2, <3>2, <3>3 DEF NowAlike, Replacements
    <3>7. \A x \in Requests : pc'[x] = "relabelling" => x = r
      BY <2>2 DEF Holding
    <3>8. OldName'
      BY <3>6, <3>7 DEF OldName
    <3> QED BY <3>4, <3>5, <3>8
  <2> QED BY <2>3, <2>4, <2>5 DEF NamesInv
<1>18. ASSUME NEW r \in Requests, Relabel(r) PROVE NamesInv'
  <2>1. /\ pc[r] = "relabelling" /\ lock' = NoRequest /\ UNCHANGED <<image, mem, kind, token>>
        /\ \E to \in {"ok", "unlabelled"} : pc' = [pc EXCEPT ![r] = to]
    BY <1>18, RelabelRenames DEF session
  <2>2. /\ pc'[r] \in {"ok", "unlabelled"}
        /\ \A x \in Requests \ {r} : ~ Holding(x) /\ pc'[x] = pc[x]
    BY <1>a, <1>c, <2>1 DEF Holding
  <2>3. LockHeld' /\ PointName'
    BY <2>1, <2>2 DEF LockHeld, PointName, Holding
  <2>4. HoldsWritten'
    <3>1. \A x \in Requests : Written(x) => Written(x)'
      BY <2>1, <2>2 DEF Written
    <3>2. /\ \A x \in image : x \in Requests /\ Written(x)
          /\ \A q \in points : \A x \in q.image : x \in Requests /\ Written(x)
      BY DEF TypeOK, Point, Contents, NamesInv, HoldsWritten
    <3>3. \A p \in points' : \E o \in points : p.image = o.image
      BY <1>18, RelabelRenames, RenamedPoints DEF SamePoint
    <3> QED BY <2>1, <3>1, <3>2, <3>3 DEF HoldsWritten
  <2>5. ASSUME AllLabelled' PROVE PointsAlike' /\ SettledName' /\ OldName'
    <3>1. AllLabelled
      BY <2>1, <2>2, <2>5 DEF AllLabelled
    <3>2. PointsAlike /\ NowAlike(token[r].name)
      BY <2>1, <3>1 DEF NamesInv, OldName
    <3> DEFINE New(o) == IF o.name = token[r].name THEN [o EXCEPT !.name = mem.name] ELSE o
    <3>3. points' = {New(o) : o \in points}
      <4>1. PICK done \in SUBSET Bearing(token[r].name) :
                /\ Step(r, {"relabelling"},
                        IF done = Bearing(token[r].name) THEN "ok" ELSE "unlabelled")
                /\ points' = Renamed(done)
        BY <1>18 DEF Relabel
      <4>2. pc'[r] # "unlabelled"
        BY <2>5 DEF AllLabelled
      <4>3. done = Bearing(token[r].name)
        BY <1>a, <4>1, <4>2 DEF Step
      <4> QED BY <4>1, <4>3 DEF Renamed, Bearing
    <3>4. \A o \in points :
              /\ New(o).image = o.image
              /\ New(o).name = IF o.name = token[r].name THEN mem.name ELSE o.name
      BY DEF TypeOK, Point
    <3> HIDE DEF New
    <3>5. \A p \in points' : \E o \in points :
              /\ p.image = o.image
              /\ p.name = IF o.name = token[r].name THEN mem.name ELSE o.name
      BY <3>3, <3>4
    <3>6. PointsAlike'
      BY <2>1, <3>2, <3>5 DEF PointsAlike, Replacements
    <3>7. SettledName'
      BY <2>1, <3>2, <3>5 DEF SettledName, NowAlike, Replacements
    <3>8. OldName'
      BY <2>2 DEF OldName, Holding
    <3> QED BY <3>6, <3>7, <3>8
  <2> QED BY <2>3, <2>4, <2>5 DEF NamesInv
<1>19. ASSUME NEW r \in Requests, StoreProfile(r) PROVE NamesInv'
  <2>1. /\ pc[r] = "idle" /\ pc' = [pc EXCEPT ![r] = "ok"]
        /\ \A x \in Requests \ {r} : kind'[x] = kind[x] /\ token'[x] = token[x]
        /\ kind'[r] = kind[r] \/ pc[r] = "idle"
    BY <1>19, <1>a DEF StoreProfile, Arrive, Step
  <2>2. UNCHANGED <<image, lock>> /\ mem'.name = mem.name
    BY <1>19, <1>a DEF StoreProfile, State, session
  <2>3. /\ \A p \in points' : p \in points \/ (Free /\ p.image = image /\ p.name = mem.name)
        /\ points \subseteq points' \/ Free
    BY <1>19, <1>d DEF StoreProfile
  <2>4. ~ Holding(r)
    BY <2>1 DEF Holding, Working
  <2> QED BY <2>1, <2>2, <2>3, <2>4, NamesKept DEF Working
<1>20. ASSUME Crash PROVE NamesInv'
  BY <1>20 DEF Crash
<1>21. CASE UNCHANGED vars
  BY <1>21
     DEF vars, NamesInv, LockHeld, Holding, HoldsWritten, Written, PointName, AllLabelled,
         PointsAlike, SettledName, OldName, NowAlike, Replacements
<1>22. ASSUME NEW r \in Requests, FindBlank(r) PROVE NamesInv'
  <2>1. /\ pc[r] = "working" /\ pc' = [pc EXCEPT ![r] = "blank"] /\ Free
        /\ \A x \in Requests \ {r} : kind'[x] = kind[x] /\ token'[x] = token[x]
        /\ kind'[r] = kind[r] \/ pc[r] = "idle"
    BY <1>22, <1>a DEF FindBlank, Step
  <2>2. UNCHANGED <<image, lock>> /\ mem'.name = mem.name
    BY <1>22, <1>a DEF FindBlank, State, session
  <2>3. /\ \A p \in points' : p \in points \/ (Free /\ p.image = image /\ p.name = mem.name)
        /\ points \subseteq points' \/ Free
    BY <1>22, <1>d DEF FindBlank
  <2>4. ~ Holding(r)
    BY <2>1 DEF Holding, Working
  <2> QED BY <2>1, <2>2, <2>3, <2>4, NamesKept DEF Working
<1>23. ASSUME NEW r \in Requests, ReplaceBlank(r) PROVE NamesInv'
  <2>1. /\ pc[r] = "blank" /\ pc' = [pc EXCEPT ![r] = "marked"] /\ Free
        /\ kind[r] = "replace" /\ image' = {r}
        /\ UNCHANGED <<points, lock, kind, token>>
    BY <1>23 DEF ReplaceBlank, Step, IdInv
  <2>2. pc'[r] = "marked" /\ \A x \in Requests \ {r} : pc'[x] = pc[x]
    BY <1>a, <2>1
  <2>3. LockHeld' /\ PointName'
    BY <1>b, <2>1, <2>2 DEF NamesInv, LockHeld, Holding, PointName
  <2>4. \A p \in points : \A x \in p.image : x \in Requests /\ Written(x)
    BY DEF TypeOK, Point, Contents, NamesInv, HoldsWritten
  <2>5. HoldsWritten'
    BY <2>1, <2>2, <2>4 DEF HoldsWritten, Written
  <2>6. \A p \in points : r \notin p.image
    BY <2>1, <2>4 DEF Written
  <2>7. Replacements(image)' = {r} /\ \A p \in points : r \notin Replacements(p.image)
    BY <2>1, <2>6 DEF Replacements
  <2>8. \A p \in points : Replacements(p.image) # {r}
    BY <2>7
  <2>9. ASSUME AllLabelled' PROVE PointsAlike' /\ SettledName' /\ OldName'
    <3>1. AllLabelled
      BY <2>2, <2>9, <2>1 DEF AllLabelled
    <3>2. PointsAlike'
      BY <2>1, <3>1 DEF NamesInv, PointsAlike, Replacements
    <3>3. SettledName'
      BY <2>1, <2>7, <2>8 DEF SettledName, NowAlike, Replacements
    <3>4. OldName'
      BY <1>b, <2>1, <2>2 DEF OldName, Holding
    <3> QED BY <3>2, <3>3, <3>4
  <2> QED BY <2>3, <2>5, <2>9 DEF NamesInv
<1> QED
  BY <1>1, <1>2, <1>3, <1>4, <1>5, <1>6, <1>7, <1>8, <1>9, <1>10, <1>11,
     <1>12, <1>13, <1>14, <1>15, <1>16, <1>17, <1>18, <1>19, <1>20, <1>21,
     <1>22, <1>23
  DEF Next, RequestStep, EditStep, RollbackStep, RestoreStep, UndoStep, RenameStep,
      NoMoreRequests

\* Unless the process dies inside a rename or a point could not be relabelled,
\* contents that stem from the same replaced images bear the same name
\* whenever the session lock is free: undoing an edit made before a rename does
\* not undo the rename, and undoing the replacement of a blank image brings
\* its own name back.  Any number of requests may overlap.
THEOREM NamesStayTogether == ASSUME ~ MayCrash PROVE Spec => []NamesFollowImage
<1>1. Init => NamesInv
  BY RequestAssumption
  DEF Init, NamesInv, LockHeld, HoldsWritten, PointName, PointsAlike, SettledName, OldName,
      NowAlike, Holding
<1>2. TypeOK /\ IdInv /\ NamesInv /\ [Next]_vars => NamesInv'
  BY NamesStep
<1>3. NamesInv => NamesFollowImage
  <2> SUFFICES ASSUME NamesInv, Free, AllLabelled, NEW a \in Labelled, NEW b \in Labelled,
                      Replacements(a.image) = Replacements(b.image)
               PROVE  a.name = b.name
    BY DEF NamesFollowImage, AllLabelled
  <2>1. \A r \in Requests : ~ Holding(r)
    BY RequestAssumption DEF NamesInv, LockHeld, Free
  <2>2. PointsAlike /\ NowAlike(mem.name)
    BY <2>1 DEF NamesInv, SettledName, Holding
  <2>3. \A c \in Labelled : \/ c.image = image /\ c.name = mem.name
                           \/ \E p \in points : c.image = p.image /\ c.name = p.name
    BY DEF Labelled
  <2> QED BY <2>2, <2>3 DEF PointsAlike, NowAlike
<1> QED BY <1>1, <1>2, <1>3, IdInvariant, PTL DEF Spec
-----------------------------------------------------------------------------
(***************************************************************************)
(* Undo reaches every finished edit while no more requests have come than  *)
(* pruning leaves automatic points, whichever of them overlap and wherever *)
(* the process dies, as long as nobody undoes or deletes.  An edit is held *)
(* by the image or by a checkpoint only after it was written; from its     *)
(* first step on, its own automatic point is without it, and nobody else   *)
(* removes that point: a request drops the point with its own identity,    *)
(* the finaliser sees that the image was rewritten since, and pruning      *)
(* never finds one too many.                                               *)
(***************************************************************************)
Held(r) == r \in image \/ \E p \in points : r \in p.image
Undoable(r) == \E p \in points : p.auto /\ p.id = token[r].point /\ r \notin p.image
Came == {r \in Requests : pc[r] # "idle"}
Wrapped(r) == kind[r] \in Changing \cup {"save"}

FewPoints == nextId \in 1 .. Cardinality(Came) + 1 /\ \A p \in points : p.id > 0
KindsByPlace ==
    \A r \in Requests :
        /\ kind[r] # "undo" /\ pc[r] # "undoing"
        /\ pc[r] = "rewinding" => Wrapped(r) \/ kind[r] = "restore"
        /\ pc[r] = "rewound" => Wrapped(r)
        /\ pc[r] = "relabelling" => kind[r] = "rename"
HeldWasWritten ==
    \A r \in Requests : Held(r) => kind[r] \in Changing /\ Written(r)
OwnPointsDiffer ==
    \A q, r \in Requests :
        Wrapped(q) /\ Wrapped(r) /\ token[q].point = token[r].point => q = r
RewriteIsSeen ==
    \A r \in Requests : kind[r] \in Changing =>
        /\ pc[r] \in {"working", "blank"} => token[r].stamp <= stamp
        /\ pc[r] \in {"written", "marked"} => token[r].stamp < stamp
EditsUndoable ==
    \A r \in Requests :
        kind[r] \in Changing /\ (pc[r] \in Working \/ (pc[r] = "ok" /\ Held(r))) => Undoable(r)

UndoInv ==
    /\ FewPoints
    /\ KindsByPlace
    /\ HeldWasWritten
    /\ OwnPointsDiffer
    /\ RewriteIsSeen
    /\ EditsUndoable

\* One more request has come.
LEMMA OneMoreCame ==
    ASSUME IsFiniteSet(Requests), TypeOK, NEW r \in Requests, pc[r] = "idle",
           NEW to \in {"working", "restoring", "relabelling", "ok"}, pc' = [pc EXCEPT ![r] = to]
    PROVE  Cardinality(Came') = Cardinality(Came) + 1 /\ Cardinality(Came) \in Nat
<1>1. Came' = Came \cup {r} /\ r \notin Came
  BY DEF TypeOK, Came
<1>2. IsFiniteSet(Came)
  BY FS_Subset DEF Came
<1> QED BY <1>1, <1>2, FS_AddElement, FS_CardinalityType

\* A request that has come stays counted.
LEMMA SameCame ==
    ASSUME IsFiniteSet(Requests), TypeOK, NEW r \in Requests, pc[r] # "idle",
           NEW to, to # "idle", pc' = [pc EXCEPT ![r] = to]
    PROVE  Came' = Came
BY DEF TypeOK, Came

\* While no more checkpoints were ever taken than AutoLimit, pruning removes
\* none.
LEMMA NothingPruned ==
    ASSUME IsFiniteSet(Requests), Cardinality(Requests) <= AutoLimit, TypeOK, IdInv, UndoInv
    PROVE  Pruned(points) = points
<1> SUFFICES ASSUME NEW p \in points
             PROVE  Cardinality({q \in Autos(points) : q.id > p.id}) < AutoLimit
  BY DEF Pruned
<1> DEFINE Newer == {q \in Autos(points) : q.id > p.id}
           Ids == p.id + 1 .. nextId - 1
           IdOf == [q \in Newer |-> q.id]
<1>1. p.id \in Nat /\ p.id > 0 /\ nextId \in Nat /\ p.id < nextId
  BY DEF TypeOK, Point, UndoInv, FewPoints, IdInv
<1>2. IdOf \in Injection(Newer, Ids)
  <2>1. \A q \in Newer : q.id \in Ids
    BY <1>1 DEF Autos, TypeOK, Point, IdInv
  <2>2. \A q, s \in Newer : q.id = s.id => q = s
    BY DEF Autos, IdInv
  <2> QED BY <2>1, <2>2 DEF Injection, IsInjective
<1>3. IsFiniteSet(Ids) /\ Cardinality(Ids) = nextId - 1 - p.id
  <2>1. p.id + 1 \in Int /\ nextId - 1 \in Int
    BY <1>1
  <2>2. /\ IsFiniteSet(Ids)
        /\ Cardinality(Ids) =
              IF p.id + 1 > nextId - 1 THEN 0 ELSE (nextId - 1) - (p.id + 1) + 1
    BY <2>1, FS_Interval
  <2> QED BY <1>1, <2>2
<1>4. Cardinality(Newer) <= nextId - 1 - p.id
  BY <1>2, <1>3, FS_Injection
<1>5. IsFiniteSet(Came) /\ Cardinality(Came) <= Cardinality(Requests)
  BY FS_Subset DEF Came
<1>6. Cardinality(Came) \in Nat /\ Cardinality(Requests) \in Nat
  BY <1>5, FS_CardinalityType
<1>7. nextId - 1 - p.id < AutoLimit
  BY <1>1, <1>5, <1>6, LimitAssumption DEF UndoInv, FewPoints
<1>8. IsFiniteSet(Newer) /\ Cardinality(Newer) \in Nat
  BY <1>2, <1>3, FS_Injection, FS_CardinalityType
<1> QED BY <1>1, <1>4, <1>7, <1>8, LimitAssumption

\* Each step keeps the six parts.  For the last one it is enough to know what
\* became of the points of one edit.
LEMMA UndoableStep ==
    ASSUME IsFiniteSet(Requests), Cardinality(Requests) <= AutoLimit,
           Kinds \cap {"undo", "delete"} = {}, TypeOK, IdInv, UndoInv, [Next]_vars
    PROVE  UndoInv'
<1>a. Cardinality(Came) \in Nat
  BY FS_Subset, FS_CardinalityType DEF Came
<1>b. /\ pc \in [Requests -> {"idle", "restoring", "rewinding", "rewound",
                            "undoing", "relabelling"} \cup Working \cup Ended]
      /\ image \subseteq Requests /\ \A p \in points : p.image \subseteq Requests /\ p.id \in Nat
      /\ nextId \in Nat /\ stamp \in Nat
      /\ kind \in [Requests -> AllKinds \cup {"none"}] /\ token \in [Requests -> Token]
  BY DEF TypeOK, Point, Contents
<1>c. \A r \in Requests : pc[r] \in Working => kind[r] \in Changing \cup {"save"}
  BY DEF IdInv
<1>d. nextId > 0
  BY <1>a, <1>b DEF UndoInv, FewPoints
<1> USE DEF UndoInv, FewPoints, KindsByPlace, HeldWasWritten, OwnPointsDiffer, RewriteIsSeen,
            EditsUndoable, Held, Undoable, Wrapped, Working, Ended, Token, Changing,
            Written
<1>1. ASSUME NEW r \in Requests, Begin(r) PROVE UndoInv'
  <2>1. PICK k \in Changing \cup {"save"} : Arrive(r, k)
    BY <1>1 DEF Begin
  <2>2. /\ pc[r] = "idle" /\ pc' = [pc EXCEPT ![r] = "working"]
        /\ kind' = [kind EXCEPT ![r] = k] /\ TakePoint(TRUE) /\ UNCHANGED <<image, stamp>>
        /\ token' = [token EXCEPT ![r] =
                        [point |-> nextId, stamp |-> stamp, name |-> mem.name]]
    BY <1>1, <2>1 DEF Begin, Arrive, Step, session
  <2>3. /\ Snapshot(TRUE).id = nextId /\ Snapshot(TRUE).image = image /\ Snapshot(TRUE).auto
        /\ points' = points \cup {Snapshot(TRUE)} /\ nextId' = nextId + 1
    BY <2>2 DEF TakePoint, Snapshot
  <2>4. FewPoints'
    <3>1. Cardinality(Came') = Cardinality(Came) + 1
      BY <2>2, OneMoreCame
    <3>2. nextId' \in 1 .. Cardinality(Came') + 1
      BY <1>a, <1>b, <2>3, <3>1
    <3>3. \A p \in points' : p.id > 0
      BY <1>d, <2>3
    <3> QED BY <3>2, <3>3
  <2>5. KindsByPlace'
    BY <1>b, <2>2
  <2>6. HeldWasWritten'
    BY <1>b, <2>2, <2>3
  <2>7. OwnPointsDiffer'
    BY <1>b, <2>2 DEF IdInv
  <2>8. RewriteIsSeen'
    BY <1>b, <2>2
  <2>9. EditsUndoable'
    BY <1>b, <2>2, <2>3
  <2> QED BY <2>4, <2>5, <2>6, <2>7, <2>8, <2>9
<1>2. ASSUME NEW r \in Requests, EditWrite(r) PROVE UndoInv'
  <2>1. /\ pc[r] = "working" /\ pc' = [pc EXCEPT ![r] = "written"] /\ kind[r] = "edit"
        /\ image' = image \cup {r} /\ stamp' = stamp + 1
        /\ UNCHANGED <<points, nextId, kind, token>>
    BY <1>2 DEF EditWrite, Step
  <2>2. FewPoints'
    BY <2>1, SameCame
  <2>3. KindsByPlace' /\ HeldWasWritten' /\ OwnPointsDiffer'
    BY <1>b, <2>1
  <2>4. RewriteIsSeen'
    BY <1>b, <2>1
  <2>5. EditsUndoable'
    BY <1>b, <2>1
  <2> QED BY <2>2, <2>3, <2>4, <2>5
<1>3. ASSUME NEW r \in Requests, EditMark(r) PROVE UndoInv'
  <2>1. /\ pc[r] = "written" /\ pc' = [pc EXCEPT ![r] = "marked"]
        /\ UNCHANGED <<image, stamp, points, nextId, kind, token>>
    BY <1>3 DEF EditMark, Step
  <2>2. FewPoints'
    BY <2>1, SameCame
  <2> QED BY <1>b, <2>1, <2>2
<1>4. ASSUME NEW r \in Requests, SaveArchive(r) PROVE UndoInv'
  <2>1. /\ pc[r] = "working" /\ pc' = [pc EXCEPT ![r] = "marked"] /\ kind[r] = "save"
        /\ UNCHANGED <<image, stamp, points, nextId, kind, token>>
    BY <1>4 DEF SaveArchive, Step
  <2>2. FewPoints'
    BY <2>1, SameCame
  <2> QED BY <1>b, <2>1, <2>2
<1>5. ASSUME NEW r \in Requests, Finish(r) PROVE UndoInv'
  <2>1. /\ pc[r] \in {"working", "marked"} /\ pc' = [pc EXCEPT ![r] = "ok"]
        /\ UNCHANGED <<image, stamp, nextId, kind, token>>
    BY <1>5 DEF Finish, Step
  <2>2. points' = points \/ (points' = Without(r) /\ stamp = token[r].stamp)
    BY <1>5, NothingPruned DEF Finish
  <2>3. points' \subseteq points /\ \A p \in points \ points' : p.id = token[r].point
    BY <2>2 DEF Without
  <2>4. FewPoints'
    BY <2>1, <2>3, SameCame
  <2>5. KindsByPlace' /\ HeldWasWritten' /\ OwnPointsDiffer' /\ RewriteIsSeen'
    BY <1>b, <2>1, <2>3
  <2>6. ASSUME NEW x \in Requests \ {r}, kind[x] \in Changing,
               pc[x] \in Working \/ (pc[x] = "ok" /\ Held(x))
        PROVE  Undoable(x)'
    <3>1. PICK p \in points : p.auto /\ p.id = token[x].point /\ x \notin p.image
      BY <2>6
    <3>2. p \in points'
      BY <1>c, <2>1, <2>3, <2>6, <3>1
    <3> QED BY <2>1, <3>1, <3>2
  <2>7. ASSUME kind[r] \in Changing, Held(r) PROVE Undoable(r)'
    <3>1. pc[r] = "marked"
      BY <2>1, <2>7
    <3>2. points' = points
      BY <1>b, <2>2, <2>7, <3>1
    <3> QED BY <2>1, <2>7, <3>1, <3>2
  <2>8. EditsUndoable'
    BY <1>b, <2>1, <2>3, <2>6, <2>7
  <2> QED BY <2>4, <2>5, <2>8
<1>6. ASSUME NEW r \in Requests, Rollback(r) PROVE UndoInv'
  <2>1. /\ pc[r] \in Working /\ pc' = [pc EXCEPT ![r] = "rewinding"] /\ stamp' = stamp + 1
        /\ UNCHANGED <<points, nextId, kind, token>>
    BY <1>6 DEF Rollback, Step
  <2>2. PICK p \in points : image' = p.image
    BY <1>6 DEF Rollback, OwnPoint
  <2>3. FewPoints'
    BY <2>1, SameCame
  <2>4. KindsByPlace' /\ OwnPointsDiffer' /\ RewriteIsSeen'
    BY <1>b, <1>c, <2>1
  <2>5. HeldWasWritten' /\ EditsUndoable'
    BY <1>b, <2>1, <2>2
  <2> QED BY <2>3, <2>4, <2>5
<1>7. ASSUME NEW r \in Requests, RollbackWithoutPoint(r) PROVE UndoInv'
  <2>1. /\ pc[r] \in Working /\ pc' = [pc EXCEPT ![r] = "failed"]
        /\ UNCHANGED <<image, stamp, points, nextId, kind, token>>
    BY <1>7 DEF RollbackWithoutPoint, Step, session
  <2>2. FewPoints'
    BY <2>1, SameCame
  <2> QED BY <1>b, <2>1, <2>2
<1>8. ASSUME NEW r \in Requests, RollbackDrop(r) PROVE UndoInv'
  <2>1. /\ pc[r] = "rewound" /\ pc' = [pc EXCEPT ![r] = "failed"]
        /\ UNCHANGED <<image, stamp, nextId, kind, token>>
    BY <1>8 DEF RollbackDrop, Step, session
  <2>2. points' \subseteq points /\ \A p \in points \ points' : p.id = token[r].point
    BY <1>8 DEF RollbackDrop, Without
  <2>3. FewPoints'
    BY <2>1, <2>2, SameCame
  <2>4. KindsByPlace' /\ HeldWasWritten' /\ OwnPointsDiffer' /\ RewriteIsSeen'
    BY <1>b, <2>1, <2>2
  <2>5. ASSUME NEW x \in Requests \ {r}, kind[x] \in Changing,
               pc[x] \in Working \/ (pc[x] = "ok" /\ Held(x))
        PROVE  Undoable(x)'
    <3>1. PICK p \in points : p.auto /\ p.id = token[x].point /\ x \notin p.image
      BY <2>5
    <3>2. p \in points'
      BY <2>1, <2>2, <2>5, <3>1
    <3> QED BY <2>1, <3>1, <3>2
  <2>6. EditsUndoable'
    BY <1>b, <2>1, <2>2, <2>5
  <2> QED BY <2>3, <2>4, <2>6
<1>9. ASSUME NEW r \in Requests, RestoreBegin(r) PROVE UndoInv'
  <2>1. /\ pc[r] = "idle" /\ pc' = [pc EXCEPT ![r] = "restoring"]
        /\ kind' = [kind EXCEPT ![r] = "restore"] /\ TakePoint(TRUE)
        /\ UNCHANGED <<image, stamp>>
    BY <1>9 DEF RestoreBegin, Arrive, Step, session
  <2>2. PICK target \in 1 .. nextId - 1 : token' = [token EXCEPT ![r].point = target]
    BY <1>9 DEF RestoreBegin
  <2>3. /\ Snapshot(TRUE).id = nextId /\ Snapshot(TRUE).image = image
        /\ points' = points \cup {Snapshot(TRUE)} /\ nextId' = nextId + 1
    BY <2>1 DEF TakePoint, Snapshot
  <2>4. \A x \in Requests \ {r} : token'[x] = token[x]
    BY <1>b, <2>2
  <2>5. FewPoints'
    <3>1. Cardinality(Came') = Cardinality(Came) + 1
      BY <2>1, OneMoreCame
    <3>2. nextId' \in 1 .. Cardinality(Came') + 1
      BY <1>a, <1>b, <2>3, <3>1
    <3>3. \A p \in points' : p.id > 0
      BY <1>d, <2>3
    <3> QED BY <3>2, <3>3
  <2>6. KindsByPlace' /\ HeldWasWritten' /\ OwnPointsDiffer' /\ RewriteIsSeen'
    <3>1. KindsByPlace'
      BY <1>b, <2>1
    <3>2. HeldWasWritten'
      BY <1>b, <2>1, <2>3
    <3>3. OwnPointsDiffer' /\ RewriteIsSeen'
      BY <1>b, <2>1, <2>4
    <3> QED BY <3>1, <3>2, <3>3
  <2>7. EditsUndoable'
    <3>1. /\ \A x \in Requests : kind'[x] \in Changing => x # r /\ kind[x] = kind'[x]
          /\ \A x \in Requests \ {r} : pc'[x] = pc[x]
      BY <1>b, <2>1
    <3>2. \A x \in Requests : Held(x)' => Held(x)
      BY <2>1, <2>3
    <3>3. \A x \in Requests \ {r} : Undoable(x) => Undoable(x)'
      BY <2>3, <2>4
    <3> QED BY <3>1, <3>2, <3>3
  <2> QED BY <2>5, <2>6, <2>7
<1>10. ASSUME NEW r \in Requests, RestoreImage(r) PROVE UndoInv'
  <2>1. /\ pc[r] = "restoring" /\ pc' = [pc EXCEPT ![r] = "rewinding"] /\ stamp' = stamp + 1
        /\ UNCHANGED <<points, nextId, kind, token>>
    BY <1>10 DEF RestoreImage, Step
  <2>2. PICK p \in points : image' = p.image
    BY <1>10 DEF RestoreImage, OwnPoint
  <2>3. FewPoints'
    BY <2>1, SameCame
  <2>4. KindsByPlace' /\ OwnPointsDiffer' /\ RewriteIsSeen'
    BY <1>b, <2>1 DEF IdInv
  <2>5. HeldWasWritten' /\ EditsUndoable'
    BY <1>b, <2>1, <2>2
  <2> QED BY <2>3, <2>4, <2>5
<1>11. ASSUME NEW r \in Requests, RestoreWithoutPoint(r) PROVE UndoInv'
  <2>1. /\ pc[r] = "restoring" /\ pc' = [pc EXCEPT ![r] = "failed"]
        /\ UNCHANGED <<image, stamp, points, nextId, kind, token>>
    BY <1>11 DEF RestoreWithoutPoint, Step, session
  <2>2. FewPoints'
    BY <2>1, SameCame
  <2> QED BY <1>b, <2>1, <2>2
<1>12. ASSUME NEW r \in Requests, UndoImage(r) PROVE UndoInv'
  BY <1>12 DEF UndoImage, Arrive
<1>13. ASSUME NEW r \in Requests, Rewind(r) PROVE UndoInv'
  <2>1. /\ pc[r] = "rewinding" /\ UNCHANGED <<image, stamp, points, nextId, kind, token>>
        /\ \E to \in {"ok", "rewound"} :
              /\ pc' = [pc EXCEPT ![r] = to]
              /\ to = "ok" => kind[r] = "restore"
              /\ to = "rewound" => kind[r] # "restore"
    BY <1>13 DEF Rewind
  <2>2. FewPoints'
    BY <2>1, SameCame
  <2> QED BY <1>b, <2>1, <2>2
<1>14. ASSUME NEW r \in Requests, UndoDrop(r) PROVE UndoInv'
  BY <1>14 DEF UndoDrop, Step
<1>15. ASSUME NEW r \in Requests, CreateNamed(r) PROVE UndoInv'
  <2>1. /\ pc[r] = "idle" /\ pc' = [pc EXCEPT ![r] = "ok"]
        /\ kind' = [kind EXCEPT ![r] = "named"] /\ TakePoint(FALSE)
        /\ UNCHANGED <<image, stamp, token>>
    BY <1>15 DEF CreateNamed, Arrive, Step, session
  <2>2. /\ Snapshot(FALSE).id = nextId /\ Snapshot(FALSE).image = image
        /\ points' = points \cup {Snapshot(FALSE)} /\ nextId' = nextId + 1
    BY <2>1 DEF TakePoint, Snapshot
  <2>3. FewPoints'
    <3>1. Cardinality(Came') = Cardinality(Came) + 1
      BY <2>1, OneMoreCame
    <3>2. nextId' \in 1 .. Cardinality(Came') + 1
      BY <1>a, <1>b, <2>2, <3>1
    <3>3. \A p \in points' : p.id > 0
      BY <1>d, <2>2
    <3> QED BY <3>2, <3>3
  <2>4. KindsByPlace' /\ HeldWasWritten' /\ OwnPointsDiffer' /\ RewriteIsSeen'
    <3>1. KindsByPlace'
      BY <1>b, <2>1
    <3>2. HeldWasWritten'
      BY <1>b, <2>1, <2>2
    <3>3. OwnPointsDiffer' /\ RewriteIsSeen'
      BY <1>b, <2>1
    <3> QED BY <3>1, <3>2, <3>3
  <2>5. EditsUndoable'
    <3>1. /\ \A x \in Requests : kind'[x] \in Changing => x # r /\ kind[x] = kind'[x]
          /\ \A x \in Requests \ {r} : pc'[x] = pc[x]
      BY <1>b, <2>1
    <3>2. \A x \in Requests : Held(x)' => Held(x)
      BY <2>1, <2>2
    <3>3. \A x \in Requests \ {r} : Undoable(x) => Undoable(x)'
      BY <2>1, <2>2
    <3> QED BY <3>1, <3>2, <3>3
  <2> QED BY <2>3, <2>4, <2>5
<1>16. ASSUME NEW r \in Requests, DeletePoint(r) PROVE UndoInv'
  BY <1>16 DEF DeletePoint, Arrive
<1>17. ASSUME NEW r \in Requests, Rename(r) PROVE UndoInv'
  <2>1. /\ pc[r] = "idle" /\ pc' = [pc EXCEPT ![r] = "relabelling"]
        /\ kind' = [kind EXCEPT ![r] = "rename"]
        /\ token' = [token EXCEPT ![r].name = mem.name]
        /\ UNCHANGED <<image, stamp, points, nextId>>
    BY <1>17 DEF Rename, Arrive, Step
  <2>2. \A x \in Requests \ {r} : token'[x] = token[x]
    BY <1>b, <2>1
  <2>3. FewPoints'
    <3>1. Cardinality(Came') = Cardinality(Came) + 1
      BY <2>1, OneMoreCame
    <3> QED BY <1>a, <1>b, <2>1, <3>1
  <2> QED BY <1>b, <2>1, <2>2, <2>3
<1>18. ASSUME NEW r \in Requests, Relabel(r) PROVE UndoInv'
  <2>1. /\ pc[r] = "relabelling" /\ UNCHANGED <<image, stamp, nextId, kind, token>>
        /\ \E to \in {"ok", "unlabelled"} : pc' = [pc EXCEPT ![r] = to]
    BY <1>18, RelabelRenames DEF session
  <2>2. /\ \A p \in points' : \E o \in points : SamePoint(p, o)
        /\ \A o \in points : \E p \in points' : SamePoint(p, o)
    BY <1>18, RelabelRenames, RenamedPoints
  <2> USE DEF SamePoint
  <2>3. FewPoints'
    BY <2>1, <2>2, SameCame
  <2>4. KindsByPlace' /\ HeldWasWritten' /\ OwnPointsDiffer' /\ RewriteIsSeen'
    <3>1. KindsByPlace'
      BY <1>b, <2>1
    <3>2. HeldWasWritten'
      BY <1>b, <2>1, <2>2
    <3>3. OwnPointsDiffer' /\ RewriteIsSeen'
      BY <1>b, <2>1
    <3> QED BY <3>1, <3>2, <3>3
  <2>5. EditsUndoable'
    <3>1. \A x \in Requests : Held(x)' => Held(x)
      BY <2>1, <2>2
    <3>2. \A x \in Requests : Undoable(x) => Undoable(x)'
      BY <2>1, <2>2
    <3> QED BY <1>b, <2>1, <3>1, <3>2
  <2> QED BY <2>3, <2>4, <2>5
<1>19. ASSUME NEW r \in Requests, StoreProfile(r) PROVE UndoInv'
  <2>1. /\ pc[r] = "idle" /\ pc' = [pc EXCEPT ![r] = "ok"]
        /\ kind' = [kind EXCEPT ![r] = "profile"]
        /\ UNCHANGED <<image, stamp, points, nextId, token>>
    BY <1>19 DEF StoreProfile, Arrive, Step
  <2>2. FewPoints'
    <3>1. Cardinality(Came') = Cardinality(Came) + 1
      BY <2>1, OneMoreCame
    <3> QED BY <1>a, <1>b, <2>1, <3>1
  <2>3. KindsByPlace' /\ HeldWasWritten' /\ OwnPointsDiffer' /\ RewriteIsSeen'
    BY <1>b, <2>1
  <2>4. EditsUndoable'
    BY <1>b, <2>1
  <2> QED BY <2>2, <2>3, <2>4
<1>20. ASSUME Crash PROVE UndoInv'
  <2>1. /\ \A r \in Requests : pc'[r] = pc[r] \/ (pc'[r] = "lost" /\ pc[r] # "idle")
        /\ UNCHANGED <<image, stamp, points, nextId, kind, token>>
    BY <1>b, <1>20 DEF Crash, InFlight
  <2>2. Came' = Came
    BY <2>1 DEF Came
  <2> QED BY <1>b, <2>1, <2>2
<1>21. CASE UNCHANGED vars
  BY <1>21 DEF vars, Came
<1>22. ASSUME NEW r \in Requests, FindBlank(r) PROVE UndoInv'
  <2>1. /\ pc[r] = "working" /\ pc' = [pc EXCEPT ![r] = "blank"] /\ kind[r] = "replace"
        /\ UNCHANGED <<image, stamp, points, nextId, kind, token>>
    BY <1>22 DEF FindBlank, Step, session
  <2>2. FewPoints'
    BY <2>1, SameCame
  <2> QED BY <1>b, <2>1, <2>2
<1>23. ASSUME NEW r \in Requests, ReplaceBlank(r) PROVE UndoInv'
  <2>1. /\ pc[r] = "blank" /\ pc' = [pc EXCEPT ![r] = "marked"] /\ kind[r] = "replace"
        /\ image' = {r} /\ stamp' = stamp + 1
        /\ UNCHANGED <<points, nextId, kind, token>>
    BY <1>23 DEF ReplaceBlank, Step, IdInv
  <2>2. FewPoints'
    BY <2>1, SameCame
  <2>3. KindsByPlace' /\ HeldWasWritten' /\ OwnPointsDiffer'
    BY <1>b, <2>1
  <2>4. RewriteIsSeen'
    BY <1>b, <2>1
  <2>5. EditsUndoable'
    BY <1>b, <2>1
  <2> QED BY <2>2, <2>3, <2>4, <2>5
<1> QED
  BY <1>1, <1>2, <1>3, <1>4, <1>5, <1>6, <1>7, <1>8, <1>9, <1>10, <1>11,
     <1>12, <1>13, <1>14, <1>15, <1>16, <1>17, <1>18, <1>19, <1>20, <1>21,
     <1>22, <1>23
  DEF Next, RequestStep, EditStep, RollbackStep, RestoreStep, UndoStep, RenameStep,
      NoMoreRequests

\* As long as no more requests have come than pruning leaves automatic points,
\* and none of them is an undo or a deletion, every finished edit in the image
\* can be undone: requests may overlap and the process may die at any step.
THEOREM UndoReachesEveryEdit ==
    ASSUME IsFiniteSet(Requests), Cardinality(Requests) <= AutoLimit,
           Kinds \cap {"undo", "delete"} = {}
    PROVE  Spec => []EveryEditUndoable
<1>1. Init => UndoInv
  <2>1. SUFFICES ASSUME Init PROVE UndoInv
    OBVIOUS
  <2>2. Came = {}
    BY <2>1 DEF Init, Came
  <2>3. Cardinality(Came) = 0
    BY <2>2, FS_EmptySet
  <2> QED
    BY <2>1, <2>3
    DEF Init, UndoInv, FewPoints, KindsByPlace, HeldWasWritten, OwnPointsDiffer, RewriteIsSeen,
        EditsUndoable, Held, Wrapped, Working, Changing
<1>2. TypeOK /\ IdInv /\ UndoInv /\ [Next]_vars => UndoInv'
  BY UndoableStep
<1>3. TypeOK /\ UndoInv => EveryEditUndoable
  BY DEF TypeOK, Contents, UndoInv, HeldWasWritten, EditsUndoable, Held, Undoable, Autos,
     EveryEditUndoable
<1> QED BY <1>1, <1>2, <1>3, IdInvariant, PTL DEF Spec

(***************************************************************************)
(* The refinement, in three parts: what Ordered does to a set of           *)
(* checkpoints that grows, shrinks or is pruned; what the mapping needs to *)
(* know of the checkpoints of the request in flight; and the step of the   *)
(* undo history that each step of a request is.                            *)
(***************************************************************************)

(***************************************************************************)
(* The order of checkpoints.  Ordered is characterised once: it is the one *)
(* sequence that lists a set of points with growing identities.  What a    *)
(* step does to the sequence then follows from what it does to the set.    *)
(***************************************************************************)
Numbered(ps) ==
    /\ IsFiniteSet(ps)
    /\ \A p \in ps : p.id \in Nat
    /\ \A p, q \in ps : p.id = q.id => p = q

OldestFirst(s, ps) ==
    /\ s \in Seq(ps)
    /\ \A i, j \in 1 .. Len(s) : i < j => s[i].id < s[j].id
    /\ \A p \in ps : \E i \in 1 .. Len(s) : s[i] = p

\* A function on 1..n is a sequence of length n.
LEMMA FunctionIsSeq ==
    ASSUME NEW S, NEW n \in Nat, NEW f \in [1 .. n -> S]
    PROVE  f \in Seq(S) /\ Len(f) = n
<1>1. f \in Seq(S)
  BY SeqDef
<1>2. Len(f) \in Nat /\ 1 .. n = 1 .. Len(f)
  BY <1>1, LenProperties
<1> QED BY <1>1, <1>2

\* An older point has fewer points before it.
LEMMA FewerOlder ==
    ASSUME NEW ps, Numbered(ps), NEW p \in ps, NEW q \in ps
    PROVE  /\ IsFiniteSet(Older(p, ps)) /\ Cardinality(Older(p, ps)) \in 0 .. Cardinality(ps) - 1
           /\ p.id < q.id <=> Cardinality(Older(p, ps)) < Cardinality(Older(q, ps))
<1> DEFINE C(x) == Cardinality(Older(x, ps))
<1>1. \A x \in ps : IsFiniteSet(Older(x, ps)) /\ C(x) \in Nat
  BY FS_Subset, FS_CardinalityType DEF Numbered, Older
<1>2. ASSUME NEW x \in ps, NEW y \in ps, x.id < y.id PROVE C(x) < C(y)
  <2>1. /\ Older(x, ps) \subseteq Older(y, ps)
        /\ x \in Older(y, ps) /\ x \notin Older(x, ps)
    BY <1>2 DEF Numbered, Older
  <2>2. C(x) <= C(y) /\ C(x) # C(y)
    BY <1>1, <2>1, FS_Subset
  <2> QED BY <1>1, <2>2
<1>3. C(p) \in 0 .. Cardinality(ps) - 1
  <2>1. Older(p, ps) \subseteq ps \ {p}
    BY DEF Numbered, Older
  <2>2. IsFiniteSet(ps \ {p}) /\ Cardinality(ps \ {p}) = Cardinality(ps) - 1
    BY FS_RemoveElement DEF Numbered
  <2>3. C(p) <= Cardinality(ps) - 1 /\ Cardinality(ps) \in Nat
    BY <2>1, <2>2, FS_Subset, FS_CardinalityType DEF Numbered
  <2> QED BY <1>1, <2>3
<1>4. p.id \in Nat /\ q.id \in Nat /\ (p.id = q.id => p = q)
  BY DEF Numbered
<1>5. C(p) \in Nat /\ C(q) \in Nat
  BY <1>1
<1> HIDE DEF C
<1>6. p.id < q.id <=> C(p) < C(q)
  BY <1>2, <1>4, <1>5
<1> QED BY <1>1, <1>3, <1>6 DEF C

\* Ordered lists every point once, oldest first.
LEMMA OrderedIsOldestFirst ==
    ASSUME NEW ps, Numbered(ps)
    PROVE  /\ OldestFirst(Ordered(ps), ps) /\ Len(Ordered(ps)) = Cardinality(ps)
           /\ \A i \in 1 .. Cardinality(ps) : Cardinality(Older(Ordered(ps)[i], ps)) = i - 1
<1> DEFINE n == Cardinality(ps)
           C == [p \in ps |-> Cardinality(Older(p, ps))]
           s == Ordered(ps)
<1>1. n \in Nat /\ IsFiniteSet(0 .. n - 1) /\ Cardinality(0 .. n - 1) = n
  <2>1. n \in Nat
    BY FS_CardinalityType DEF Numbered
  <2>2. 0 \in Int /\ n - 1 \in Int
    BY <2>1
  <2>3. /\ IsFiniteSet(0 .. n - 1)
        /\ Cardinality(0 .. n - 1) = IF 0 > n - 1 THEN 0 ELSE (n - 1) - 0 + 1
    BY <2>2, FS_Interval
  <2> QED BY <2>1, <2>3
<1>2. \A p \in ps : C[p] \in 0 .. n - 1
  BY FewerOlder
<1>3. \A p, q \in ps : p.id < q.id <=> C[p] < C[q]
  BY FewerOlder
<1>4. \A p, q \in ps : C[p] = C[q] => p = q
  BY <1>1, <1>2, <1>3 DEF Numbered
<1>5. C \in Injection(ps, 0 .. n - 1)
  BY <1>2, <1>4 DEF Injection, IsInjective
<1>6. C \in Surjection(ps, 0 .. n - 1)
  BY <1>1, <1>5, FS_Injection
<1>7. \A k \in 0 .. n - 1 : \E p \in ps : C[p] = k
  BY <1>6 DEF Surjection
<1>8. ASSUME NEW i \in 1 .. n PROVE s[i] \in ps /\ C[s[i]] = i - 1
  <2>1. \E p \in ps : Cardinality(Older(p, ps)) = i - 1
    BY <1>1, <1>7
  <2>2. s[i] = CHOOSE p \in ps : Cardinality(Older(p, ps)) = i - 1
    BY DEF Ordered
  <2> QED BY <2>1, <2>2
<1>9. s \in [1 .. n -> ps]
  BY <1>8 DEF Ordered
<1>10. s \in Seq(ps) /\ Len(s) = n
  BY <1>1, <1>9, FunctionIsSeq
<1>11. ASSUME NEW i \in 1 .. n, NEW j \in 1 .. n, i < j PROVE s[i].id < s[j].id
  <2>1. s[i] \in ps /\ C[s[i]] = i - 1 /\ s[j] \in ps /\ C[s[j]] = j - 1
    BY <1>8
  <2>2. C[s[i]] < C[s[j]]
    BY <1>1, <1>11, <2>1
  <2> HIDE DEF C, s
  <2> QED BY <1>3, <2>1, <2>2
<1>12. ASSUME NEW p \in ps PROVE \E i \in 1 .. n : s[i] = p
  <2>1. C[p] + 1 \in 1 .. n /\ (C[p] + 1) - 1 = C[p]
    BY <1>1, <1>2
  <2>2. s[C[p] + 1] \in ps /\ C[s[C[p] + 1]] = C[p]
    BY <1>8, <2>1
  <2> QED BY <1>4, <2>1, <2>2
<1> QED BY <1>8, <1>10, <1>11, <1>12 DEF OldestFirst

\* Nothing else does.
LEMMA OldestFirstIsOrdered ==
    ASSUME NEW ps, Numbered(ps), NEW s, OldestFirst(s, ps)
    PROVE  s = Ordered(ps)
<1> DEFINE n == Len(s)
<1>1. n \in Nat /\ s \in [1 .. n -> ps] /\ DOMAIN s = 1 .. n
  BY LenProperties DEF OldestFirst
<1>2. \A i, j \in 1 .. n : i < j => s[i].id < s[j].id
  BY DEF OldestFirst
<1>3. \A i, j \in 1 .. n : s[i] = s[j] => i = j
  BY <1>1, <1>2 DEF Numbered
<1>4. s \in Bijection(1 .. n, ps)
  BY <1>1, <1>3 DEF OldestFirst, Bijection, Injection, Surjection, IsInjective
<1>5. Cardinality(ps) = n
  <2>1. ExistsBijection(1 .. n, ps)
    BY <1>4 DEF ExistsBijection
  <2> QED BY <1>1, <2>1, FS_CountingElements
<1>6. ASSUME NEW i \in 1 .. n PROVE Cardinality(Older(s[i], ps)) = i - 1
  <2> DEFINE f == [j \in 1 .. i - 1 |-> s[j]]
  <2>1. \A j \in 1 .. i - 1 : j \in 1 .. n /\ s[j] \in Older(s[i], ps)
    BY <1>1, <1>2 DEF Older
  <2>2. \A p \in Older(s[i], ps) : \E j \in 1 .. i - 1 : s[j] = p
    <3> SUFFICES ASSUME NEW p \in ps, p.id < s[i].id PROVE \E j \in 1 .. i - 1 : s[j] = p
      BY DEF Older
    <3>1. PICK j \in 1 .. n : s[j] = p
      BY DEF OldestFirst
    <3>2. s[i].id \in Nat /\ s[j].id \in Nat
      BY <1>1 DEF Numbered
    <3>3. j < i
      BY <1>1, <1>2, <3>1, <3>2
    <3> QED BY <1>1, <3>1, <3>3
  <2>3. f \in Bijection(1 .. i - 1, Older(s[i], ps))
    <3>1. f \in [1 .. i - 1 -> Older(s[i], ps)]
      BY <2>1
    <3>2. \A a, b \in 1 .. i - 1 : f[a] = f[b] => a = b
      BY <1>3, <2>1
    <3>3. \A p \in Older(s[i], ps) : \E j \in 1 .. i - 1 : f[j] = p
      BY <2>2
    <3> HIDE DEF f
    <3> QED BY <3>1, <3>2, <3>3 DEF Bijection, Injection, Surjection, IsInjective
  <2>4. ExistsBijection(1 .. i - 1, Older(s[i], ps)) /\ i - 1 \in Nat
    BY <1>1, <2>3 DEF ExistsBijection
  <2> QED BY <2>4, FS_CountingElements
<1>7. ASSUME NEW i \in 1 .. n
      PROVE  s[i] = CHOOSE p \in ps : Cardinality(Older(p, ps)) = i - 1
  <2>1. s[i] \in ps /\ Cardinality(Older(s[i], ps)) = i - 1
    BY <1>1, <1>6
  <2>2. ASSUME NEW p \in ps, Cardinality(Older(p, ps)) = i - 1 PROVE p = s[i]
    <3>1. ~(p.id < s[i].id) /\ ~(s[i].id < p.id)
      BY <1>1, <2>1, <2>2, FewerOlder
    <3> QED BY <2>1, <3>1 DEF Numbered
  <2> QED BY <2>1, <2>2
<1>8. Ordered(ps) = [i \in 1 .. n |-> CHOOSE p \in ps : Cardinality(Older(p, ps)) = i - 1]
  BY <1>5 DEF Ordered
<1> QED BY <1>1, <1>7, <1>8

\* The images of the points, as a sequence.
LEMMA ImagesType ==
    ASSUME NEW ps, Numbered(ps), NEW S, \A p \in ps : p.image \in S
    PROVE  /\ Images(ps) \in Seq(S) /\ Len(Images(ps)) = Cardinality(ps)
           /\ Cardinality(ps) \in Nat
           /\ \A i \in 1 .. Cardinality(ps) :
                 Ordered(ps)[i] \in ps /\ Images(ps)[i] = Ordered(ps)[i].image
           /\ ToSet(Images(ps)) = {p.image : p \in ps}
<1> DEFINE n == Cardinality(ps)
<1>1. n \in Nat
  BY FS_CardinalityType DEF Numbered
<1>2. OldestFirst(Ordered(ps), ps) /\ Len(Ordered(ps)) = n
  BY OrderedIsOldestFirst
<1>3. \A i \in 1 .. n : Ordered(ps)[i] \in ps
  BY <1>2, ElementOfSeq DEF OldestFirst
<1>4. Images(ps) \in [1 .. n -> S]
  BY <1>3 DEF Images
<1>5. Images(ps) \in Seq(S) /\ Len(Images(ps)) = n
  BY <1>1, <1>4, FunctionIsSeq
<1>6. \A i \in 1 .. n : Images(ps)[i] = Ordered(ps)[i].image
  BY DEF Images
<1>7. ToSet(Images(ps)) = {p.image : p \in ps}
  <2>1. ToSet(Images(ps)) = {Images(ps)[i] : i \in 1 .. n}
    BY <1>4 DEF ToSet
  <2>2. \A p \in ps : \E i \in 1 .. n : Images(ps)[i] = p.image
    BY <1>2, <1>6 DEF OldestFirst
  <2> QED BY <1>3, <1>6, <2>1, <2>2
<1> QED BY <1>1, <1>3, <1>5, <1>6, <1>7

\* A new point goes to the end.
LEMMA ImagesAppend ==
    ASSUME NEW ps, Numbered(ps), NEW new, new.id \in Nat, \A p \in ps : p.id < new.id
    PROVE  Numbered(ps \cup {new}) /\ Images(ps \cup {new}) = Append(Images(ps), new.image)
<1> DEFINE n == Cardinality(ps)
           qs == ps \cup {new}
           s == Ordered(ps)
           t == [i \in 1 .. n + 1 |-> IF i = n + 1 THEN new ELSE s[i]]
           S == {p.image : p \in qs}
<1>1. Numbered(qs)
  <2>1. IsFiniteSet(qs)
    BY FS_AddElement DEF Numbered
  <2> QED BY <2>1 DEF Numbered
<1>2. OldestFirst(s, ps) /\ Len(s) = n /\ n \in Nat
  BY OrderedIsOldestFirst, FS_CardinalityType DEF Numbered
<1>3. \A i \in 1 .. n : s[i] \in ps
  BY <1>2, ElementOfSeq DEF OldestFirst
<1>4. t \in [1 .. n + 1 -> qs] /\ n + 1 \in Nat
  BY <1>2, <1>3
<1>5. t \in Seq(qs) /\ Len(t) = n + 1
  BY <1>4, FunctionIsSeq
<1>6. \A i \in 1 .. n : t[i] = s[i]
  BY <1>2
<1>7. t[n + 1] = new
  BY <1>2
<1>8. OldestFirst(t, qs)
  <2> HIDE DEF t, s
  <2>1. ASSUME NEW i \in 1 .. n + 1, NEW j \in 1 .. n + 1, i < j PROVE t[i].id < t[j].id
    <3>1. i \in 1 .. n
      BY <1>2, <2>1
    <3>2. CASE j = n + 1
      BY <1>3, <1>6, <1>7, <3>1, <3>2
    <3>3. CASE j # n + 1
      <4>1. j \in 1 .. n
        BY <1>2, <3>3
      <4> QED BY <1>2, <1>6, <2>1, <3>1, <4>1 DEF OldestFirst
    <3> QED BY <3>2, <3>3
  <2>2. ASSUME NEW p \in qs PROVE \E i \in 1 .. n + 1 : t[i] = p
    <3>1. CASE p = new
      BY <1>2, <1>7, <3>1
    <3>2. CASE p \in ps
      <4>1. PICK i \in 1 .. n : s[i] = p
        BY <1>2, <3>2 DEF OldestFirst
      <4> QED BY <1>2, <1>6, <4>1
    <3> QED BY <3>1, <3>2
  <2> QED BY <1>5, <2>1, <2>2 DEF OldestFirst
<1>9. t = Ordered(qs)
  BY <1>1, <1>8, OldestFirstIsOrdered
<1>a. \A p \in qs : p.image \in S
  OBVIOUS
<1>10. /\ Images(ps) \in Seq(S) /\ Len(Images(ps)) = n
       /\ \A i \in 1 .. n : Images(ps)[i] = s[i].image
  BY <1>a, ImagesType
<1>11. /\ Images(qs) \in Seq(S) /\ Len(Images(qs)) = Cardinality(qs)
       /\ \A i \in 1 .. Cardinality(qs) : Images(qs)[i] = Ordered(qs)[i].image
  BY <1>1, <1>a, ImagesType
<1>12. Cardinality(qs) = n + 1
  BY <1>1, <1>5, <1>9, OrderedIsOldestFirst
<1>13. new.image \in S
  OBVIOUS
<1> HIDE DEF t, s, qs, S
<1>14. /\ Append(Images(ps), new.image) \in Seq(S)
       /\ Len(Append(Images(ps), new.image)) = n + 1
       /\ \A i \in 1 .. n : Append(Images(ps), new.image)[i] = Images(ps)[i]
       /\ Append(Images(ps), new.image)[n + 1] = new.image
  BY <1>10, <1>13, AppendProperties
<1>15. \A i \in 1 .. n + 1 : Images(qs)[i] = Append(Images(ps), new.image)[i]
  BY <1>2, <1>6, <1>7, <1>9, <1>10, <1>11, <1>12, <1>14
<1>16. Images(qs) = Append(Images(ps), new.image)
  BY <1>2, <1>11, <1>12, <1>14, <1>15, SeqEqual
<1> QED BY <1>1, <1>16 DEF qs

\* Taking a point away takes its image out of the sequence.
LEMMA ImagesRemove ==
    ASSUME NEW ps, Numbered(ps), NEW old \in ps
    PROVE  /\ Numbered(ps \ {old})
           /\ \E k \in 1 .. Len(Images(ps)) : Images(ps \ {old}) = RemoveAt(Images(ps), k)
<1> DEFINE n == Cardinality(ps)
           qs == ps \ {old}
           s == Ordered(ps)
           S == {p.image : p \in ps}
<1>1. Numbered(qs)
  <2>1. IsFiniteSet(qs)
    BY FS_RemoveElement DEF Numbered
  <2> QED BY <2>1 DEF Numbered
<1>2. OldestFirst(s, ps) /\ Len(s) = n /\ n \in Nat
  BY OrderedIsOldestFirst, FS_CardinalityType DEF Numbered
<1>3. PICK k \in 1 .. n : s[k] = old
  BY <1>2 DEF OldestFirst
<1> DEFINE t == [i \in 1 .. n - 1 |-> IF i < k THEN s[i] ELSE s[i + 1]]
<1>4. \A i \in 1 .. n : s[i] \in ps
  BY <1>2, ElementOfSeq DEF OldestFirst
<1>5. \A i, j \in 1 .. n : i < j => s[i].id < s[j].id
  BY <1>2 DEF OldestFirst
<1>6. \A i \in 1 .. n : i # k => s[i] \in qs
  <2> SUFFICES ASSUME NEW i \in 1 .. n, i # k PROVE s[i] # old
    BY <1>4
  <2>1. s[i].id < s[k].id \/ s[k].id < s[i].id
    BY <1>2, <1>5
  <2>2. s[k].id \in Nat
    BY <1>4 DEF Numbered
  <2> QED BY <1>3, <2>1, <2>2
<1>7. \A i \in 1 .. n - 1 : t[i] = IF i < k THEN s[i] ELSE s[i + 1]
  OBVIOUS
<1>8. t \in [1 .. n - 1 -> qs] /\ n - 1 \in Nat
  <2>1. \A i \in 1 .. n - 1 : t[i] \in qs
    BY <1>2, <1>6
  <2> QED BY <1>2, <2>1
<1>9. t \in Seq(qs) /\ Len(t) = n - 1
  BY <1>8, FunctionIsSeq
<1>10. OldestFirst(t, qs)
  <2> HIDE DEF t, s
  <2>1. ASSUME NEW i \in 1 .. n - 1, NEW j \in 1 .. n - 1, i < j PROVE t[i].id < t[j].id
    <3>1. CASE j < k
      BY <1>2, <1>5, <1>7, <2>1, <3>1
    <3>2. CASE i < k /\ ~(j < k)
      <4>1. t[i] = s[i] /\ t[j] = s[j + 1]
        BY <1>7, <3>2
      <4>2. i \in 1 .. n /\ j + 1 \in 1 .. n /\ i < j + 1
        BY <1>2, <2>1
      <4> QED BY <1>5, <4>1, <4>2
    <3>3. CASE ~(i < k)
      <4>1. t[i] = s[i + 1] /\ t[j] = s[j + 1]
        BY <1>7, <2>1, <3>3
      <4>2. i + 1 \in 1 .. n /\ j + 1 \in 1 .. n /\ i + 1 < j + 1
        BY <1>2, <2>1
      <4> QED BY <1>5, <4>1, <4>2
    <3> QED BY <2>1, <3>1, <3>2, <3>3
  <2>2. ASSUME NEW p \in qs PROVE \E i \in 1 .. n - 1 : t[i] = p
    <3>1. PICK i \in 1 .. n : s[i] = p
      BY <1>2 DEF OldestFirst
    <3>2. i # k
      BY <1>3, <3>1
    <3>3. CASE i < k
      BY <1>2, <1>7, <3>1, <3>3
    <3>4. CASE i > k
      <4>1. i - 1 \in 1 .. n - 1 /\ ~(i - 1 < k) /\ (i - 1) + 1 = i
        BY <1>2, <3>4
      <4> QED BY <1>7, <3>1, <4>1
    <3> QED BY <3>2, <3>3, <3>4
  <2> QED BY <1>9, <2>1, <2>2 DEF OldestFirst
<1>11. t = Ordered(qs)
  BY <1>1, <1>10, OldestFirstIsOrdered
<1>12. Cardinality(qs) = n - 1
  BY <1>1, <1>9, <1>11, OrderedIsOldestFirst
<1>a. (\A p \in ps : p.image \in S) /\ (\A p \in qs : p.image \in S)
  OBVIOUS
<1>13. /\ Images(ps) \in Seq(S) /\ Len(Images(ps)) = n
       /\ \A i \in 1 .. n : Images(ps)[i] = s[i].image
  BY <1>a, ImagesType
<1>14. /\ Images(qs) \in Seq(S) /\ Len(Images(qs)) = n - 1
       /\ \A i \in 1 .. n - 1 : Images(qs)[i] = t[i].image
  <2>1. /\ Images(qs) \in Seq(S) /\ Len(Images(qs)) = Cardinality(qs)
        /\ \A i \in 1 .. Cardinality(qs) : Images(qs)[i] = Ordered(qs)[i].image
    BY <1>1, <1>a, ImagesType
  <2> HIDE DEF t, qs, S
  <2> QED BY <1>11, <1>12, <2>1
<1> HIDE DEF t, s, qs, S
<1> DEFINE a == SubSeq(Images(ps), 1, k - 1)
           b == SubSeq(Images(ps), k + 1, n)
<1>15. \A i \in 1 .. n : Images(ps)[i] \in S
  BY <1>13, ElementOfSeq
<1>16. /\ a \in Seq(S) /\ Len(a) = k - 1
       /\ \A i \in 1 .. k - 1 : a[i] = Images(ps)[i]
  <2>1. 1 \in Int /\ k - 1 \in Int /\ \A i \in 1 .. k - 1 : Images(ps)[i] \in S
    BY <1>2, <1>15
  <2>2. /\ a \in Seq(S) /\ Len(a) = IF 1 <= k - 1 THEN (k - 1) - 1 + 1 ELSE 0
        /\ \A i \in 1 .. (k - 1) - 1 + 1 : a[i] = Images(ps)[1 + i - 1]
    BY <2>1, SubSeqProperties
  <2> QED BY <1>2, <2>2
<1>17. /\ b \in Seq(S) /\ Len(b) = n - k
       /\ \A i \in 1 .. n - k : b[i] = Images(ps)[k + i]
  <2>1. k + 1 \in Int /\ n \in Int /\ \A i \in k + 1 .. n : Images(ps)[i] \in S
    BY <1>2, <1>15
  <2>2. /\ b \in Seq(S) /\ Len(b) = IF k + 1 <= n THEN n - (k + 1) + 1 ELSE 0
        /\ \A i \in 1 .. n - (k + 1) + 1 : b[i] = Images(ps)[(k + 1) + i - 1]
    BY <2>1, SubSeqProperties
  <2> QED BY <1>2, <2>2
<1> HIDE DEF a, b
<1>18. /\ a \o b \in Seq(S) /\ Len(a \o b) = n - 1
       /\ \A i \in 1 .. n - 1 : (a \o b)[i] = IF i <= k - 1 THEN a[i] ELSE b[i - (k - 1)]
  <2>1. /\ a \o b \in Seq(S) /\ Len(a \o b) = Len(a) + Len(b)
        /\ \A i \in 1 .. Len(a) + Len(b) : (a \o b)[i] = IF i <= Len(a) THEN a[i] ELSE b[i - Len(a)]
    BY <1>16, <1>17, ConcatProperties
  <2>2. Len(a) + Len(b) = n - 1
    BY <1>2, <1>16, <1>17
  <2> QED BY <1>16, <2>1, <2>2
<1>19. ASSUME NEW i \in 1 .. n - 1 PROVE Images(qs)[i] = (a \o b)[i]
  <2>1. CASE i < k
    <3>1. i \in 1 .. n /\ i \in 1 .. k - 1 /\ i <= k - 1
      BY <1>2, <2>1
    <3> QED BY <1>7, <1>13, <1>14, <1>16, <1>18, <2>1, <3>1
  <2>2. CASE ~(i < k)
    <3>1. i + 1 \in 1 .. n /\ i - (k - 1) \in 1 .. n - k /\ ~(i <= k - 1)
          /\ k + (i - (k - 1)) = i + 1
      BY <1>2, <2>2
    <3>2. Images(qs)[i] = s[i + 1].image
      BY <1>7, <1>14, <2>2
    <3>3. (a \o b)[i] = Images(ps)[i + 1]
      BY <1>17, <1>18, <3>1
    <3> QED BY <1>13, <3>1, <3>2, <3>3
  <2> QED BY <2>1, <2>2
<1>20. Images(qs) = a \o b
  BY <1>14, <1>18, <1>19, SeqEqual
<1>21. Images(qs) = RemoveAt(Images(ps), k)
  BY <1>13, <1>20 DEF RemoveAt, a, b
<1> QED BY <1>1, <1>13, <1>21 DEF qs

\* After the i-th of n points come n - i newer ones.
LEMMA NewerCount ==
    ASSUME NEW ps, Numbered(ps), NEW i \in 1 .. Cardinality(ps)
    PROVE  Cardinality({q \in ps : q.id > Ordered(ps)[i].id}) = Cardinality(ps) - i
<1> DEFINE p == Ordered(ps)[i]
           upTo == Older(p, ps) \cup {p}
<1>1. p \in ps /\ Cardinality(Older(p, ps)) = i - 1 /\ Cardinality(ps) \in Nat
  BY OrderedIsOldestFirst, ElementOfSeq, FS_CardinalityType DEF OldestFirst, Numbered
<1> HIDE DEF p
<1>2. IsFiniteSet(Older(p, ps)) /\ p \notin Older(p, ps)
  <2>1. p.id \in Nat
    BY <1>1 DEF Numbered
  <2>2. p \notin Older(p, ps)
    BY <2>1 DEF Older
  <2> QED BY <1>1, <2>2, FewerOlder
<1>3. Cardinality(upTo) = i
  <2>1. Cardinality(upTo) = Cardinality(Older(p, ps)) + 1
    BY <1>2, FS_AddElement
  <2> QED BY <1>1, <2>1
<1>4. ps \cap upTo = upTo
  BY <1>1 DEF Older
<1>5. {q \in ps : q.id > p.id} = ps \ upTo
  BY <1>1 DEF Older, Numbered
<1>6. Cardinality(ps \ upTo) = Cardinality(ps) - Cardinality(ps \cap upTo)
  BY FS_Difference DEF Numbered
<1> QED BY <1>3, <1>4, <1>5, <1>6 DEF p

\* Keeping the newest points keeps the end of the sequence.
LEMMA ImagesNewest ==
    ASSUME NEW ps, Numbered(ps)
    PROVE  LET qs == {p \in ps : Cardinality({q \in ps : q.id > p.id}) < AutoLimit}
           IN  Images(qs) = History!Newest(Images(ps))
<1> DEFINE n == Cardinality(ps)
           qs == {p \in ps : Cardinality({q \in ps : q.id > p.id}) < AutoLimit}
           s == Ordered(ps)
           S == {p.image : p \in ps}
           k == n - AutoLimit
           t == [i \in 1 .. AutoLimit |-> s[k + i]]
<1>1. OldestFirst(s, ps) /\ Len(s) = n /\ n \in Nat /\ AutoLimit \in Nat
  BY OrderedIsOldestFirst, FS_CardinalityType, LimitAssumption DEF Numbered
<1>2. \A i \in 1 .. n : s[i] \in ps
  BY <1>1, ElementOfSeq DEF OldestFirst
<1>3. \A i \in 1 .. n : s[i] \in qs <=> n - i < AutoLimit
  BY <1>2, NewerCount
<1>4. Numbered(qs)
  <2>1. IsFiniteSet(qs)
    BY FS_Subset DEF Numbered
  <2> QED BY <2>1 DEF Numbered
<1>a. (\A p \in ps : p.image \in S) /\ (\A p \in qs : p.image \in S)
  OBVIOUS
<1>5. /\ Images(ps) \in Seq(S) /\ Len(Images(ps)) = n
      /\ \A i \in 1 .. n : Images(ps)[i] = s[i].image
  BY <1>a, ImagesType
<1>6. CASE n <= AutoLimit
  <2>1. \A p \in ps : p \in qs
    <3> SUFFICES ASSUME NEW p \in ps PROVE p \in qs
      OBVIOUS
    <3>1. PICK i \in 1 .. n : s[i] = p
      BY <1>1 DEF OldestFirst
    <3>2. n - i < AutoLimit
      BY <1>1, <1>6
    <3> HIDE DEF qs, s
    <3> QED BY <1>3, <3>1, <3>2
  <2>2. qs = ps
    BY <2>1
  <2> QED BY <1>5, <1>6, <2>2 DEF History!Newest
<1>7. CASE ~(n <= AutoLimit)
  <2>1. \A i \in 1 .. AutoLimit : k + i \in 1 .. n /\ n - (k + i) < AutoLimit
    BY <1>1, <1>7
  <2>2. \A i \in 1 .. AutoLimit : t[i] = s[k + i] /\ t[i] \in qs
    BY <1>3, <2>1
  <2>3. t \in Seq(qs) /\ Len(t) = AutoLimit
    <3>1. t \in [1 .. AutoLimit -> qs]
      BY <2>2
    <3> QED BY <1>1, <3>1, FunctionIsSeq
  <2> HIDE DEF t, s, qs
  <2>4. OldestFirst(t, qs)
    <3>1. ASSUME NEW i \in 1 .. AutoLimit, NEW j \in 1 .. AutoLimit, i < j
          PROVE  t[i].id < t[j].id
      <4>1. k + i \in 1 .. n /\ k + j \in 1 .. n /\ k + i < k + j
        BY <1>1, <2>1, <3>1
      <4> QED BY <1>1, <2>2, <4>1 DEF OldestFirst
    <3>2. ASSUME NEW p \in qs PROVE \E i \in 1 .. AutoLimit : t[i] = p
      <4>1. p \in ps
        BY DEF qs
      <4>2. PICK j \in 1 .. n : s[j] = p
        BY <1>1, <4>1 DEF OldestFirst
      <4>3. n - j < AutoLimit
        BY <1>3, <4>2
      <4>4. j - k \in 1 .. AutoLimit /\ k + (j - k) = j
        BY <1>1, <1>7, <4>3
      <4> QED BY <2>2, <4>2, <4>4
    <3> QED BY <2>3, <3>1, <3>2 DEF OldestFirst
  <2>5. t = Ordered(qs)
    BY <1>4, <2>4, OldestFirstIsOrdered
  <2>6. Cardinality(qs) = AutoLimit
    BY <1>4, <2>3, <2>5, OrderedIsOldestFirst
  <2>7. /\ Images(qs) \in Seq(S) /\ Len(Images(qs)) = AutoLimit
        /\ \A i \in 1 .. AutoLimit : Images(qs)[i] = t[i].image
    <3>1. /\ Images(qs) \in Seq(S) /\ Len(Images(qs)) = Cardinality(qs)
          /\ \A i \in 1 .. Cardinality(qs) : Images(qs)[i] = Ordered(qs)[i].image
      BY <1>4, <1>a, ImagesType
    <3> QED BY <2>5, <2>6, <3>1
  <2> DEFINE u == SubSeq(Images(ps), n - AutoLimit + 1, n)
  <2>8. /\ u \in Seq(S) /\ Len(u) = AutoLimit
        /\ \A i \in 1 .. AutoLimit : u[i] = Images(ps)[k + i]
    <3>1. /\ n - AutoLimit + 1 \in Int /\ n \in Int
          /\ \A i \in n - AutoLimit + 1 .. n : Images(ps)[i] \in S
      <4>1. \A i \in 1 .. n : Images(ps)[i] \in S
        BY <1>5, ElementOfSeq
      <4> QED BY <1>1, <1>7, <4>1
    <3>2. /\ u \in Seq(S)
          /\ Len(u) = IF n - AutoLimit + 1 <= n THEN n - (n - AutoLimit + 1) + 1 ELSE 0
          /\ \A i \in 1 .. n - (n - AutoLimit + 1) + 1 :
                u[i] = Images(ps)[(n - AutoLimit + 1) + i - 1]
      BY <3>1, SubSeqProperties
    <3>3. n - (n - AutoLimit + 1) + 1 = AutoLimit /\ (n - AutoLimit + 1 <= n <=> AutoLimit > 0)
      BY <1>1
    <3>4. \A i \in 1 .. AutoLimit : (n - AutoLimit + 1) + i - 1 = k + i
      BY <1>1
    <3>5. Len(u) = AutoLimit
      BY <3>2, <3>3, LimitAssumption
    <3>6. \A i \in 1 .. AutoLimit : u[i] = Images(ps)[k + i]
      BY <3>2, <3>3, <3>4
    <3> QED BY <3>2, <3>5, <3>6
  <2>9. \A i \in 1 .. AutoLimit : Images(qs)[i] = u[i]
    BY <1>5, <2>1, <2>2, <2>7, <2>8
  <2>10. Images(qs) = u
    BY <2>7, <2>8, <2>9, SeqEqual
  <2> QED BY <1>5, <1>7, <2>10 DEF History!Newest, qs
<1> QED BY <1>6, <1>7

\* Points that differ in other things only have the same images.
LEMMA ImagesSame ==
    ASSUME NEW ps, Numbered(ps), NEW qs, Numbered(qs),
           \A p \in ps : \E q \in qs : q.id = p.id /\ q.image = p.image,
           \A q \in qs : \E p \in ps : q.id = p.id /\ q.image = p.image
    PROVE  Images(qs) = Images(ps)
<1> DEFINE n == Cardinality(ps)
           s == Ordered(ps)
           t == [i \in 1 .. n |-> CHOOSE q \in qs : q.id = s[i].id]
<1>1. OldestFirst(s, ps) /\ Len(s) = n /\ n \in Nat
  BY OrderedIsOldestFirst, FS_CardinalityType DEF Numbered
<1>2. \A i \in 1 .. n : s[i] \in ps
  BY <1>1, ElementOfSeq DEF OldestFirst
<1>3. ASSUME NEW i \in 1 .. n
      PROVE  t[i] \in qs /\ t[i].id = s[i].id /\ t[i].image = s[i].image
  <2>1. PICK q \in qs : q.id = s[i].id /\ q.image = s[i].image
    BY <1>2
  <2>2. t[i] = CHOOSE x \in qs : x.id = s[i].id
    OBVIOUS
  <2>3. t[i] \in qs /\ t[i].id = s[i].id
    BY <2>1, <2>2
  <2> QED BY <2>1, <2>3 DEF Numbered
<1>4. t \in Seq(qs) /\ Len(t) = n
  <2>1. t \in [1 .. n -> qs]
    BY <1>3
  <2> HIDE DEF t
  <2> QED BY <1>1, <2>1, FunctionIsSeq
<1> HIDE DEF t, s
<1>5. OldestFirst(t, qs)
  <2>1. ASSUME NEW i \in 1 .. n, NEW j \in 1 .. n, i < j PROVE t[i].id < t[j].id
    BY <1>1, <1>3, <2>1 DEF OldestFirst
  <2>2. ASSUME NEW q \in qs PROVE \E i \in 1 .. n : t[i] = q
    <3>1. PICK p \in ps : q.id = p.id
      OBVIOUS
    <3>2. PICK i \in 1 .. n : s[i] = p
      BY <1>1 DEF OldestFirst
    <3>3. t[i] \in qs /\ t[i].id = q.id
      BY <1>3, <3>1, <3>2
    <3> QED BY <3>3 DEF Numbered
  <2> QED BY <1>4, <2>1, <2>2 DEF OldestFirst
<1>6. t = Ordered(qs)
  BY <1>5, OldestFirstIsOrdered
<1>7. Cardinality(qs) = n
  BY <1>4, <1>6, OrderedIsOldestFirst
<1>8. Images(ps) = [i \in 1 .. n |-> s[i].image] /\ Images(qs) = [i \in 1 .. n |-> t[i].image]
  BY <1>6, <1>7 DEF Images, s
<1> QED BY <1>3, <1>8
-----------------------------------------------------------------------------
(***************************************************************************)
(* What the mapping needs to know beyond the invariants above: while a     *)
(* request is in flight, the newest automatic point is its own, so that    *)
(* what stands for the document is what the request found; and a request   *)
(* that will be taken for one that changed nothing, or that is about to    *)
(* fail, has left the image as that point holds it.                        *)
(***************************************************************************)
OwnIsLatest ==
    \A r \in Requests :
        pc[r] \in Working \cup {"rewinding", "rewound", "undoing"} /\ kind[r] # "restore" =>
            \E p \in points : p.id = token[r].point /\ Latest(p)
UntouchedIsOwn ==
    \A r \in Requests : pc[r] \in Working =>
        /\ token[r].stamp <= stamp
        /\ token[r].stamp = stamp => \A p \in OwnPoint(r) : p.image = image
RewoundIsOwn ==
    \A r \in Requests : pc[r] = "rewound" => \A p \in OwnPoint(r) : p.image = image
RestoreHasPoint ==
    \A r \in Requests :
        /\ pc[r] = "restoring" => \E p \in points : Latest(p) /\ p.image = image
        /\ pc[r] = "rewinding" /\ kind[r] = "restore" => \E p \in points : Latest(p)
KindsInFlight ==
    \A r \in Requests :
        /\ pc[r] = "rewinding" => kind[r] \in Changing \cup {"save", "restore", "undo"}
        /\ pc[r] = "rewound" => kind[r] \in Changing \cup {"save"}
        /\ pc[r] = "undoing" => kind[r] = "undo"
        /\ pc[r] = "relabelling" => kind[r] = "rename"

HistInv ==
    /\ IsFiniteSet(points)
    /\ OwnIsLatest
    /\ UntouchedIsOwn
    /\ RewoundIsOwn
    /\ RestoreHasPoint
    /\ KindsInFlight

\* With requests one after another, the one that moves is the only one in
\* flight before and after its step.
LEMMA OneActor ==
    ASSUME TypeOK, SavedInv, NEW r \in Requests, r \in InFlight \/ Quiet,
           NEW to, pc' = [pc EXCEPT ![r] = to]
    PROVE  /\ InFlight \subseteq {r}
           /\ \A q \in Requests \ {r} : pc'[q] = pc[q] /\ pc[q] \in {"idle"} \cup Ended
           /\ InFlight' = IF to \in {"idle"} \cup Ended THEN {} ELSE {r}
<1>1. InFlight \subseteq {r}
  BY DEF InFlight, Quiet, SavedInv, Alone, Idle
<1>2. \A q \in Requests \ {r} : pc'[q] = pc[q]
  BY DEF TypeOK
<1>3. pc'[r] = to
  BY DEF TypeOK
<1> QED BY <1>1, <1>2, <1>3 DEF InFlight

\* A request that is past its arrival is in flight.
LEMMA MovesInFlight ==
    ASSUME NEW r \in Requests, pc[r] \notin {"idle"} \cup Ended PROVE r \in InFlight
BY DEF InFlight

\* A checkpoint taken now is the latest when it is automatic.
LEMMA TakePointLatest ==
    ASSUME TypeOK, IdInv, IsFiniteSet(points), NEW auto \in BOOLEAN, TakePoint(auto),
           NEW new, new = Snapshot(auto)
    PROVE  /\ IsFiniteSet(points')
           /\ new.id = nextId /\ new.auto = auto /\ new.image = image
           /\ points' = points \cup {new} /\ new \notin points
           /\ \A p \in points : p.id < nextId
           /\ auto = TRUE => Latest(new)'
<1>1. new.id = nextId /\ new.image = image /\ new.auto = auto
  BY DEF Snapshot
<1>2. points' = points \cup {new} /\ \A p \in points : p.id < nextId /\ p.id \in Nat
  BY DEF TakePoint, IdInv, TypeOK, Point
<1>3. IsFiniteSet(points')
  BY <1>2, FS_AddElement
<1>4. new \notin points /\ nextId \in Nat
  BY <1>1, <1>2 DEF TypeOK
<1>5. ASSUME auto = TRUE PROVE Latest(new)'
  <2>1. new.auto = TRUE
    BY <1>1, <1>5
  <2>2. new.auto
    BY <2>1
  <2>3. new \in Autos(points')
    BY <1>2, <2>2 DEF Autos
  <2>4. \A q \in Autos(points') : q.id <= new.id
    BY <1>1, <1>2, <1>4 DEF Autos
  <2> QED BY <2>3, <2>4 DEF Latest
<1> QED BY <1>1, <1>2, <1>3, <1>4, <1>5

\* With requests one after another each step keeps the mapping's invariant.
LEMMA HistStep ==
    ASSUME ~ Concurrent, ~ MayCrash, TypeOK, IdInv, SavedInv, HistInv, [Next]_vars
    PROVE  HistInv'
<1> DEFINE Rest(r) == \A q \in Requests \ {r} : pc'[q] \in {"idle"} \cup Ended
<1>a. /\ pc \in [Requests -> {"idle", "restoring", "rewinding", "rewound",
                            "undoing", "relabelling"} \cup Working \cup Ended]
      /\ kind \in [Requests -> AllKinds \cup {"none"}] /\ token \in [Requests -> Token]
      /\ stamp \in Nat /\ nextId \in Nat /\ \A p \in points : p.id \in Nat
  BY DEF TypeOK, Point
<1>b. \A r \in Requests : pc[r] \in Working => kind[r] \in Changing \cup {"save"}
  BY DEF IdInv
<1>c. \A r \in Requests : pc[r] = "restoring" => kind[r] = "restore"
  BY DEF IdInv
<1>d. \A p, q \in points : p.id = q.id => p = q
  BY DEF IdInv
<1> USE DEF HistInv, OwnIsLatest, UntouchedIsOwn, RewoundIsOwn, RestoreHasPoint, KindsInFlight,
            OwnPoint, Working, Ended, Token, Changing
<1>1. ASSUME NEW r \in Requests, Begin(r) PROVE HistInv'
  <2>1. /\ Quiet /\ TakePoint(TRUE) /\ pc' = [pc EXCEPT ![r] = "working"]
        /\ token' = [token EXCEPT ![r] =
                        [point |-> nextId, stamp |-> stamp, name |-> mem.name]]
        /\ UNCHANGED <<image, stamp>> /\ kind'[r] \in Changing \cup {"save"}
    BY <1>1, <1>a DEF Begin, Arrive, Step, session
  <2>2. PICK new : new = Snapshot(TRUE)
    OBVIOUS
  <2>3. /\ IsFiniteSet(points') /\ new.id = nextId /\ new.image = image /\ new \in points'
        /\ Latest(new)' /\ \A p \in points' : p.id = nextId => p = new
    <3>1. /\ IsFiniteSet(points') /\ new.id = nextId /\ new.image = image
          /\ points' = points \cup {new} /\ \A p \in points : p.id < nextId
          /\ Latest(new)'
      BY <2>1, <2>2, TakePointLatest
    <3> QED BY <1>a, <3>1
  <2>4. Rest(r) /\ pc'[r] = "working"
    BY <1>a, <2>1, OneActor
  <2>5. token'[r].point = nextId /\ token'[r].stamp = stamp
    BY <1>a, <2>1
  <2>6. OwnIsLatest'
    BY <2>3, <2>4, <2>5
  <2>7. UntouchedIsOwn'
    BY <1>a, <2>1, <2>3, <2>4, <2>5
  <2>8. RewoundIsOwn' /\ RestoreHasPoint' /\ KindsInFlight'
    BY <2>4
  <2> QED BY <2>3, <2>6, <2>7, <2>8
<1>2. ASSUME NEW r \in Requests, EditWrite(r) PROVE HistInv'
  <2>1. /\ pc[r] = "working" /\ pc' = [pc EXCEPT ![r] = "written"] /\ stamp' = stamp + 1
        /\ UNCHANGED <<points, kind, token>>
    BY <1>2 DEF EditWrite, Step
  <2>2. Rest(r) /\ pc'[r] = "written"
    BY <1>a, <2>1, OneActor, MovesInFlight
  <2>3. OwnIsLatest'
    BY <2>1, <2>2 DEF Latest
  <2>4. UntouchedIsOwn'
    BY <1>a, <2>1, <2>2
  <2> QED BY <2>1, <2>2, <2>3, <2>4
<1>3. ASSUME NEW r \in Requests, EditMark(r) PROVE HistInv'
  <2>1. /\ pc[r] = "written" /\ pc' = [pc EXCEPT ![r] = "marked"]
        /\ UNCHANGED <<image, stamp, points, kind, token>>
    BY <1>3 DEF EditMark, Step
  <2>2. Rest(r) /\ pc'[r] = "marked"
    BY <1>a, <2>1, OneActor, MovesInFlight
  <2>3. OwnIsLatest'
    BY <2>1, <2>2 DEF Latest
  <2> QED BY <2>1, <2>2, <2>3
<1>4. ASSUME NEW r \in Requests, SaveArchive(r) PROVE HistInv'
  <2>1. /\ pc[r] = "working" /\ pc' = [pc EXCEPT ![r] = "marked"]
        /\ UNCHANGED <<image, stamp, points, kind, token>>
    BY <1>4 DEF SaveArchive, Step
  <2>2. Rest(r) /\ pc'[r] = "marked"
    BY <1>a, <2>1, OneActor, MovesInFlight
  <2>3. OwnIsLatest'
    BY <2>1, <2>2 DEF Latest
  <2> QED BY <2>1, <2>2, <2>3
<1>5. ASSUME NEW r \in Requests, Finish(r) PROVE HistInv'
  <2>1. /\ pc[r] \in Working /\ pc' = [pc EXCEPT ![r] = "ok"] /\ points' \subseteq points
    BY <1>5 DEF Finish, Step, Without, Pruned
  <2>2. Rest(r) /\ pc'[r] = "ok"
    BY <1>a, <2>1, OneActor, MovesInFlight
  <2>3. IsFiniteSet(points')
    BY <2>1, FS_Subset
  <2> QED BY <2>2, <2>3
<1>6. ASSUME NEW r \in Requests, Rollback(r) PROVE HistInv'
  <2>1. /\ pc[r] \in Working /\ pc' = [pc EXCEPT ![r] = "rewinding"]
        /\ UNCHANGED <<points, kind, token>>
    BY <1>6 DEF Rollback, Step
  <2>2. Rest(r) /\ pc'[r] = "rewinding"
    BY <1>a, <2>1, OneActor, MovesInFlight
  <2>3. OwnIsLatest'
    BY <1>b, <2>1, <2>2 DEF Latest
  <2>4. RestoreHasPoint' /\ KindsInFlight'
    BY <1>b, <2>1, <2>2
  <2> QED BY <2>1, <2>2, <2>3, <2>4
<1>7. ASSUME NEW r \in Requests, RollbackWithoutPoint(r) PROVE HistInv'
  <2>1. FALSE
    BY <1>7 DEF SavedInv, OwnsPoint, RollbackWithoutPoint, Step
  <2> QED BY <2>1
<1>8. ASSUME NEW r \in Requests, RollbackDrop(r) PROVE HistInv'
  <2>1. pc[r] = "rewound" /\ pc' = [pc EXCEPT ![r] = "failed"] /\ points' \subseteq points
    BY <1>8 DEF RollbackDrop, Step, Without
  <2>2. Rest(r) /\ pc'[r] = "failed"
    BY <1>a, <2>1, OneActor, MovesInFlight
  <2>3. IsFiniteSet(points')
    BY <2>1, FS_Subset
  <2> QED BY <2>2, <2>3
<1>9. ASSUME NEW r \in Requests, RestoreBegin(r) PROVE HistInv'
  <2>1. /\ Quiet /\ TakePoint(TRUE) /\ pc' = [pc EXCEPT ![r] = "restoring"]
        /\ image' = image
    BY <1>9 DEF RestoreBegin, Arrive, Step, session
  <2>2. PICK new : new = Snapshot(TRUE)
    OBVIOUS
  <2>3. /\ IsFiniteSet(points') /\ new.image = image /\ new \in points' /\ Latest(new)'
    BY <2>1, <2>2, TakePointLatest
  <2>4. Rest(r) /\ pc'[r] = "restoring"
    BY <1>a, <2>1, OneActor
  <2> QED BY <2>1, <2>3, <2>4
<1>10. ASSUME NEW r \in Requests, RestoreImage(r) PROVE HistInv'
  <2>1. /\ pc[r] = "restoring" /\ pc' = [pc EXCEPT ![r] = "rewinding"]
        /\ UNCHANGED <<points, kind, token>>
    BY <1>10 DEF RestoreImage, Step
  <2>2. Rest(r) /\ pc'[r] = "rewinding"
    BY <1>a, <2>1, OneActor, MovesInFlight
  <2>3. OwnIsLatest' /\ UntouchedIsOwn' /\ RewoundIsOwn' /\ KindsInFlight'
    BY <1>c, <2>1, <2>2
  <2>4. RestoreHasPoint'
    BY <2>1, <2>2 DEF Latest
  <2> QED BY <2>1, <2>3, <2>4
<1>11. ASSUME NEW r \in Requests, RestoreWithoutPoint(r) PROVE HistInv'
  <2>1. pc[r] = "restoring" /\ pc' = [pc EXCEPT ![r] = "failed"] /\ points' = points
    BY <1>11 DEF RestoreWithoutPoint, Step
  <2>2. Rest(r) /\ pc'[r] = "failed"
    BY <1>a, <2>1, OneActor, MovesInFlight
  <2> QED BY <2>1, <2>2
<1>12. ASSUME NEW r \in Requests, UndoImage(r) PROVE HistInv'
  <2>1. /\ Quiet /\ pc' = [pc EXCEPT ![r] = "rewinding"] /\ points' = points
        /\ kind'[r] = "undo"
    BY <1>12, <1>a DEF UndoImage, Arrive, Step
  <2>2. Rest(r) /\ pc'[r] = "rewinding"
    BY <1>a, <2>1, OneActor
  <2>3. PICK p \in points : Latest(p) /\ token' = [token EXCEPT ![r].point = p.id]
    BY <1>12 DEF UndoImage
  <2>4. token'[r].point = p.id
    BY <1>a, <2>3
  <2>5. OwnIsLatest'
    BY <2>1, <2>2, <2>3, <2>4 DEF Latest
  <2> QED BY <2>1, <2>2, <2>5
<1>13. ASSUME NEW r \in Requests, Rewind(r) PROVE HistInv'
  <2>1. /\ pc[r] = "rewinding" /\ UNCHANGED <<image, stamp, points, kind, token>>
        /\ pc' = [pc EXCEPT ![r] = CASE kind[r] = "restore" -> "ok"
                                     [] kind[r] = "undo" -> "undoing"
                                     [] OTHER -> "rewound"]
    BY <1>13 DEF Rewind
  <2>2. Rest(r)
    BY <1>a, <2>1, OneActor, MovesInFlight
  <2>3. /\ pc'[r] \in {"ok", "undoing", "rewound"}
        /\ pc'[r] = "ok" <=> kind[r] = "restore"
        /\ pc'[r] = "undoing" <=> kind[r] = "undo"
    BY <1>a, <2>1
  <2>4. OwnIsLatest'
    BY <2>1, <2>2, <2>3 DEF Latest
  <2>5. RewoundIsOwn'
    BY <2>1, <2>2, <2>3 DEF SavedInv, RewoundToPoint
  <2>6. UntouchedIsOwn' /\ RestoreHasPoint' /\ KindsInFlight'
    BY <2>1, <2>2, <2>3
  <2> QED BY <2>1, <2>4, <2>5, <2>6
<1>14. ASSUME NEW r \in Requests, UndoDrop(r) PROVE HistInv'
  <2>1. pc[r] = "undoing" /\ pc' = [pc EXCEPT ![r] = "ok"] /\ points' \subseteq points
    BY <1>14 DEF UndoDrop, Step, Without
  <2>2. Rest(r) /\ pc'[r] = "ok"
    BY <1>a, <2>1, OneActor, MovesInFlight
  <2>3. IsFiniteSet(points')
    BY <2>1, FS_Subset
  <2> QED BY <2>2, <2>3
<1>15. ASSUME NEW r \in Requests, CreateNamed(r) PROVE HistInv'
  <2>1. Quiet /\ TakePoint(FALSE) /\ pc' = [pc EXCEPT ![r] = "ok"]
    BY <1>15 DEF CreateNamed, Arrive, Step
  <2>2. Rest(r) /\ pc'[r] = "ok"
    BY <1>a, <2>1, OneActor
  <2>3. IsFiniteSet(points')
    BY <2>1, TakePointLatest
  <2> QED BY <2>2, <2>3
<1>16. ASSUME NEW r \in Requests, DeletePoint(r) PROVE HistInv'
  <2>1. Quiet /\ pc' = [pc EXCEPT ![r] = "ok"] /\ points' \subseteq points
    BY <1>16 DEF DeletePoint, Arrive, Step
  <2>2. Rest(r) /\ pc'[r] = "ok"
    BY <1>a, <2>1, OneActor
  <2>3. IsFiniteSet(points')
    BY <2>1, FS_Subset
  <2> QED BY <2>2, <2>3
<1>17. ASSUME NEW r \in Requests, Rename(r) PROVE HistInv'
  <2>1. /\ Quiet /\ pc' = [pc EXCEPT ![r] = "relabelling"] /\ points' = points
        /\ kind'[r] = "rename"
    BY <1>17, <1>a DEF Rename, Arrive, Step
  <2>2. Rest(r) /\ pc'[r] = "relabelling"
    BY <1>a, <2>1, OneActor
  <2> QED BY <2>1, <2>2
<1>18. ASSUME NEW r \in Requests, Relabel(r) PROVE HistInv'
  <2>1. /\ pc[r] = "relabelling"
        /\ \E to \in {"ok", "unlabelled"} : pc' = [pc EXCEPT ![r] = to]
    BY <1>18, RelabelRenames
  <2>2. Rest(r) /\ pc'[r] \in {"ok", "unlabelled"}
    BY <1>a, <2>1, OneActor, MovesInFlight
  <2>3. IsFiniteSet(points')
    <3>a. PICK done \in SUBSET points : points' = Renamed(done)
      BY <1>18, RelabelRenames
    <3> DEFINE New(p) == IF p \in done THEN [p EXCEPT !.name = mem.name] ELSE p
               f == [p \in points |-> New(p)]
    <3>1. points' = {New(p) : p \in points}
      BY <3>a DEF Renamed
    <3>2. f \in Surjection(points, points')
      <4> HIDE DEF New
      <4> QED BY <3>1 DEF Surjection
    <3> QED BY <3>2, FS_Surjection
  <2> QED BY <2>2, <2>3
<1>19. ASSUME NEW r \in Requests, StoreProfile(r) PROVE HistInv'
  <2>1. Quiet /\ pc' = [pc EXCEPT ![r] = "ok"] /\ points' = points
    BY <1>19 DEF StoreProfile, Arrive, Step
  <2>2. Rest(r) /\ pc'[r] = "ok"
    BY <1>a, <2>1, OneActor
  <2> QED BY <2>1, <2>2
<1>20. ASSUME Crash PROVE HistInv'
  BY <1>20 DEF Crash
<1>21. CASE UNCHANGED vars
  BY <1>21 DEF vars, Latest, Autos
<1>22. ASSUME NEW r \in Requests, FindBlank(r) PROVE HistInv'
  <2>1. /\ pc[r] = "working" /\ pc' = [pc EXCEPT ![r] = "blank"]
        /\ UNCHANGED <<image, stamp, points, kind, token>>
    BY <1>22 DEF FindBlank, Step, session
  <2>2. Rest(r) /\ pc'[r] = "blank"
    BY <1>a, <2>1, OneActor, MovesInFlight
  <2>3. OwnIsLatest'
    BY <2>1, <2>2 DEF Latest
  <2> QED BY <2>1, <2>2, <2>3
<1>23. ASSUME NEW r \in Requests, ReplaceBlank(r) PROVE HistInv'
  <2>1. /\ pc[r] = "blank" /\ pc' = [pc EXCEPT ![r] = "marked"] /\ stamp' = stamp + 1
        /\ UNCHANGED <<points, kind, token>>
    BY <1>23 DEF ReplaceBlank, Step
  <2>2. Rest(r) /\ pc'[r] = "marked"
    BY <1>a, <2>1, OneActor, MovesInFlight
  <2>3. OwnIsLatest'
    BY <2>1, <2>2 DEF Latest
  <2>4. UntouchedIsOwn'
    BY <1>a, <2>1, <2>2
  <2> QED BY <2>1, <2>2, <2>3, <2>4
<1> QED
  BY <1>1, <1>2, <1>3, <1>4, <1>5, <1>6, <1>7, <1>8, <1>9, <1>10, <1>11,
     <1>12, <1>13, <1>14, <1>15, <1>16, <1>17, <1>18, <1>19, <1>20, <1>21,
     <1>22, <1>23
  DEF Next, RequestStep, EditStep, RollbackStep, RestoreStep, UndoStep, RenameStep,
      NoMoreRequests
-----------------------------------------------------------------------------
(***************************************************************************)
(* How the mapped state looks in each phase of a request, before and after *)
(* a step.                                                                 *)
(***************************************************************************)
NewestOf(ps) == CHOOSE p \in ps : p \in Autos(ps) /\ \A q \in Autos(ps) : q.id <= p.id

\* The newest automatic point is the one with the greatest identity.
LEMMA NewestIs ==
    /\ Newest = NewestOf(points)
    /\ Newest' = NewestOf(points')
BY DEF Newest, NewestOf, Latest

\* There is only one such point.
LEMMA NewestIsOne ==
    ASSUME NEW ps, Numbered(ps), NEW p \in Autos(ps), \A q \in Autos(ps) : q.id <= p.id
    PROVE  NewestOf(ps) = p
<1>1. p \in ps /\ \A q \in ps : q.id \in Nat /\ (q.id = p.id => q = p)
  BY DEF Autos, Numbered
<1>2. \A x \in ps : x \in Autos(ps) /\ (\A q \in Autos(ps) : q.id <= x.id) => x = p
  BY <1>1
<1> QED BY <1>1, <1>2 DEF NewestOf

\* Part of a numbered set is numbered.
LEMMA NumberedSubset ==
    ASSUME NEW ps, Numbered(ps), NEW qs, qs \subseteq ps PROVE Numbered(qs)
BY FS_Subset DEF Numbered

\* Between requests, and while one that neither changes nor undoes is in
\* flight, the image is the document and all automatic points are the past.
LEMMA SeenQuiet ==
    /\ ~ InDoubt /\ ~ Undoing => Doc = image /\ Past = Images(Autos(points))
    /\ ~ InDoubt' /\ ~ Undoing' => Doc' = image' /\ Past' = Images(Autos(points'))
BY DEF Doc, Past

\* While a request that may change the image is in flight, the latest
\* automatic point is the document, and not yet part of the past.
LEMMA SeenInDoubt ==
    ASSUME Numbered(points), InDoubt, NEW p, Latest(p)
    PROVE  /\ Doc = p.image
           /\ Past = Images(Autos(points) \ {p})
           /\ Images(Autos(points)) = Append(Past, p.image)
<1>1. Newest = p
  BY NewestIs, NewestIsOne DEF Latest
<1>2. Doc = p.image /\ Past = Images(Autos(points) \ {p})
  BY <1>1 DEF Doc, Past
<1>3. Numbered(Autos(points) \ {p})
  BY NumberedSubset DEF Autos
<1>4. p.id \in Nat /\ \A q \in Autos(points) \ {p} : q.id < p.id
  BY DEF Latest, Numbered, Autos
<1>5. (Autos(points) \ {p}) \cup {p} = Autos(points)
  BY DEF Latest
<1> QED BY <1>2, <1>3, <1>4, <1>5, ImagesAppend

\* The same after the step.
LEMMA SeenInDoubtNext ==
    ASSUME Numbered(points'), InDoubt', NEW p, Latest(p)'
    PROVE  Doc' = p.image /\ Past' = Images(Autos(points') \ {p})
<1>1. Newest' = p
  BY NewestIs, NewestIsOne DEF Latest
<1> QED BY <1>1 DEF Doc, Past

\* A step of a request in doubt that leaves the points alone is not seen.
LEMMA StaysInDoubt ==
    ASSUME InDoubt, InDoubt', points' = points
    PROVE  UNCHANGED <<Doc, Past, NamedContents>>
BY NewestIs DEF Doc, Past, NamedContents

\* Nor is a step outside doubt that leaves image and points alone.
LEMMA StaysSettled ==
    ASSUME ~ InDoubt, ~ InDoubt', Undoing' <=> Undoing, image' = image, points' = points
    PROVE  UNCHANGED <<Doc, Past, NamedContents>>
<1>1. Newest' = Newest
  BY NewestIs
<1>2. CASE Undoing
  BY <1>1, <1>2 DEF Doc, Past, NamedContents
<1>3. CASE ~ Undoing
  BY <1>3 DEF Doc, Past, NamedContents
<1> QED BY <1>2, <1>3

\* Which of the two it is follows from the one request in flight.
LEMMA KindInFlight ==
    /\ \A r \in Requests : InFlight = {r} =>
          /\ InDoubt <=> kind[r] \in Changing \cup {"save", "restore"}
          /\ Undoing <=> kind[r] = "undo"
    /\ InFlight = {} => ~ InDoubt /\ ~ Undoing
    /\ \A r \in Requests : InFlight' = {r} =>
          /\ InDoubt' <=> kind'[r] \in Changing \cup {"save", "restore"}
          /\ Undoing' <=> kind'[r] = "undo"
    /\ InFlight' = {} => ~ InDoubt' /\ ~ Undoing'
BY DEF InDoubt, Undoing

\* A request arrives only when none is in flight, and then is the one that is.
LEMMA Arrives ==
    ASSUME TypeOK, SavedInv, Quiet, NEW r \in Requests, NEW to, to \notin {"idle"} \cup Ended,
           pc' = [pc EXCEPT ![r] = to]
    PROVE  InFlight = {} /\ InFlight' = {r}
BY OneActor DEF Quiet

\* While it goes on it stays the only one.
LEMMA Stays ==
    ASSUME TypeOK, SavedInv, NEW r \in Requests, pc[r] \notin {"idle"} \cup Ended,
           NEW to, to \notin {"idle"} \cup Ended, pc' = [pc EXCEPT ![r] = to]
    PROVE  InFlight = {r} /\ InFlight' = {r}
<1>1. r \in InFlight
  BY MovesInFlight
<1>2. InFlight \subseteq {r} /\ InFlight' = IF to \in {"idle"} \cup Ended THEN {} ELSE {r}
  BY <1>1, OneActor
<1> QED BY <1>1, <1>2

\* When it ends, nothing is in flight.
LEMMA Ends ==
    ASSUME TypeOK, SavedInv, NEW r \in Requests, pc[r] \notin {"idle"} \cup Ended,
           NEW to \in Ended, pc' = [pc EXCEPT ![r] = to]
    PROVE  InFlight = {r} /\ InFlight' = {}
<1>1. r \in InFlight
  BY MovesInFlight
<1>2. InFlight \subseteq {r} /\ InFlight' = IF to \in {"idle"} \cup Ended THEN {} ELSE {r}
  BY <1>1, OneActor
<1> QED BY <1>1, <1>2
-----------------------------------------------------------------------------
(***************************************************************************)
(* Each step of a request is a step of the document with its history, or   *)
(* is not seen at all.                                                     *)
(***************************************************************************)
LEMMA MapStep ==
    ASSUME ~ Concurrent, ~ MayCrash, TypeOK, IdInv, SavedInv, HistInv, [Next]_vars,
           TypeOK', IdInv', HistInv'
    PROVE  [History!Next]_<<Doc, Past, NamedContents>>
<1> DEFINE Unseen == UNCHANGED <<Doc, Past, NamedContents>>
           Seen == [History!Next]_<<Doc, Past, NamedContents>>
<1>a. Numbered(points) /\ Numbered(points')
  BY DEF TypeOK, Point, IdInv, HistInv, Numbered
<1>b. Numbered(Autos(points)) /\ Numbered(Autos(points'))
  BY <1>a, NumberedSubset DEF Autos
<1>c. /\ pc \in [Requests -> {"idle", "restoring", "rewinding", "rewound",
                            "undoing", "relabelling"} \cup Working \cup Ended]
      /\ kind \in [Requests -> AllKinds \cup {"none"}] /\ image \in Contents
      /\ image' \in Contents
  BY DEF TypeOK
<1>d. \A r \in Requests : pc[r] \in Working => kind[r] \in Changing \cup {"save"}
  BY DEF IdInv
<1>e. Unseen => Seen
  OBVIOUS
<1> HIDE DEF Unseen, Seen
<1> USE DEF Changing
<1>1. ASSUME NEW r \in Requests, Begin(r) \/ RestoreBegin(r) PROVE Unseen
  <2>1. /\ Quiet /\ TakePoint(TRUE) /\ image' = image
        /\ \E to \in {"working", "restoring"} : pc' = [pc EXCEPT ![r] = to]
        /\ kind'[r] \in Changing \cup {"save", "restore"}
    BY <1>1, <1>c DEF Begin, RestoreBegin, Arrive, Step, session
  <2>2. PICK new : new = Snapshot(TRUE)
    OBVIOUS
  <2>3. /\ new.image = image /\ new.auto = TRUE /\ Latest(new)'
        /\ points' = points \cup {new} /\ new \notin points
    BY <2>1, <2>2, TakePointLatest DEF HistInv
  <2>4. InFlight = {} /\ InFlight' = {r}
    BY <2>1, Arrives DEF Ended
  <2>5. ~ InDoubt /\ ~ Undoing /\ InDoubt'
    BY <2>1, <2>4, KindInFlight
  <2>6. Doc' = image /\ Past' = Images(Autos(points') \ {new})
    BY <1>a, <2>3, <2>5, SeenInDoubtNext
  <2>7. Doc = image /\ Past = Images(Autos(points))
    BY <2>5, SeenQuiet
  <2>8. Autos(points') \ {new} = Autos(points)
    BY <2>3 DEF Autos
  <2>9. new \in Autos(points')
    BY <2>3 DEF Autos
  <2>10. points' \ Autos(points') = points \ Autos(points)
    BY <2>3, <2>8, <2>9
  <2> QED BY <2>6, <2>7, <2>8, <2>10 DEF Unseen, NamedContents
<1>2. ASSUME NEW r \in Requests, EditStep(r) \/ SaveArchive(r) \/ Rollback(r) PROVE Unseen
  <2>1. /\ pc[r] \in Working /\ points' = points /\ kind' = kind
        /\ \E to \in {"blank", "written", "marked", "rewinding"} : pc' = [pc EXCEPT ![r] = to]
    BY <1>2
       DEF EditStep, EditWrite, EditMark, FindBlank, ReplaceBlank, SaveArchive, Rollback, Step,
           Working, session
  <2>3. InFlight = {r} /\ InFlight' = {r}
    BY <2>1, Stays DEF Working, Ended
  <2>4. InDoubt /\ InDoubt'
    BY <1>d, <2>1, <2>3, KindInFlight
  <2> QED BY <2>1, <2>4, StaysInDoubt DEF Unseen
<1>3. ASSUME NEW r \in Requests, RestoreImage(r) PROVE Unseen
  <2>1. /\ pc[r] = "restoring" /\ points' = points /\ kind' = kind
        /\ pc' = [pc EXCEPT ![r] = "rewinding"] /\ kind[r] = "restore"
    BY <1>3 DEF RestoreImage, Step, IdInv
  <2>3. InFlight = {r} /\ InFlight' = {r}
    BY <2>1, Stays DEF Ended
  <2>4. InDoubt /\ InDoubt'
    BY <2>1, <2>3, KindInFlight
  <2> QED BY <2>1, <2>4, StaysInDoubt DEF Unseen
<1>4. ASSUME NEW r \in Requests, Finish(r) PROVE Seen
  <2>1. /\ pc[r] \in Working /\ pc' = [pc EXCEPT ![r] = "ok"] /\ kind' = kind
        /\ image' = image /\ kind[r] \in Changing \cup {"save"}
    BY <1>4, <1>d DEF Finish, Step, Working
  <2>3. InFlight = {r} /\ InFlight' = {}
    BY <2>1, Ends DEF Working, Ended
  <2>4. InDoubt /\ ~ InDoubt' /\ ~ Undoing'
    BY <2>1, <2>3, KindInFlight
  <2>5. PICK own \in points : own.id = token[r].point /\ Latest(own)
    BY <2>1 DEF HistInv, OwnIsLatest
  <2>6. /\ Doc = own.image /\ Past = Images(Autos(points) \ {own})
        /\ Images(Autos(points)) = Append(Past, own.image)
    BY <1>a, <2>4, <2>5, SeenInDoubt
  <2>7. Doc' = image /\ Past' = Images(Autos(points'))
    BY <2>1, <2>4, SeenQuiet
  <2>8. CASE points' = Without(r) /\ stamp = token[r].stamp
    <3>1. own.image = image
      BY <2>1, <2>5, <2>8 DEF HistInv, UntouchedIsOwn, OwnPoint
    <3>2. points' = points \ {own}
      BY <1>a, <2>5, <2>8 DEF Without, Numbered
    <3>3. own \in Autos(points) /\ Autos(points') = Autos(points) \ {own}
      BY <2>5, <3>2 DEF Latest, Autos
    <3>4. points' \ Autos(points') = points \ Autos(points)
      BY <3>2, <3>3
    <3>5. Unseen
      BY <2>6, <2>7, <3>1, <3>3, <3>4 DEF Unseen, NamedContents
    <3> QED BY <1>e, <3>5
  <2>9. CASE points' = Pruned(points)
    <3> DEFINE ps == Autos(points)
    <3>1. Autos(points') = {p \in ps : Cardinality({q \in ps : q.id > p.id}) < AutoLimit}
      BY <2>9 DEF Pruned, Autos
    <3>2. Past' = History!Newest(Append(Past, Doc))
      BY <1>b, <2>6, <2>7, <3>1, ImagesNewest
    <3>3. points' \ Autos(points') = points \ Autos(points)
      BY <2>9 DEF Pruned, Autos
    <3>4. NamedContents' = NamedContents
      BY <3>3 DEF NamedContents
    <3>5. History!Change
      BY <1>c, <2>7, <3>2, <3>4 DEF History!Change
    <3> QED BY <3>5 DEF Seen, History!Next
  <2> QED BY <1>4, <2>8, <2>9 DEF Finish
<1>5. ASSUME NEW r \in Requests, RollbackWithoutPoint(r) PROVE FALSE
  BY <1>5 DEF SavedInv, OwnsPoint, RollbackWithoutPoint, Step, OwnPoint
<1>6. ASSUME NEW r \in Requests, RollbackDrop(r) PROVE Unseen
  <2>1. /\ pc[r] = "rewound" /\ pc' = [pc EXCEPT ![r] = "failed"] /\ kind' = kind
        /\ image' = image /\ points' = Without(r) /\ kind[r] \in Changing \cup {"save"}
    BY <1>6 DEF RollbackDrop, Step, session, HistInv, KindsInFlight
  <2>3. InFlight = {r} /\ InFlight' = {}
    BY <2>1, Ends DEF Working, Ended
  <2>4. InDoubt /\ ~ InDoubt' /\ ~ Undoing'
    BY <2>1, <2>3, KindInFlight
  <2>5. PICK own \in points : own.id = token[r].point /\ Latest(own)
    BY <2>1 DEF HistInv, OwnIsLatest
  <2>6. own.image = image
    BY <2>1, <2>5 DEF HistInv, RewoundIsOwn, OwnPoint
  <2>7. Doc = own.image /\ Past = Images(Autos(points) \ {own})
    BY <1>a, <2>4, <2>5, SeenInDoubt
  <2>8. Doc' = image /\ Past' = Images(Autos(points'))
    BY <2>1, <2>4, SeenQuiet
  <2>9. points' = points \ {own}
    BY <1>a, <2>1, <2>5 DEF Without, Numbered
  <2>10. own \in Autos(points) /\ Autos(points') = Autos(points) \ {own}
    BY <2>5, <2>9 DEF Latest, Autos
  <2>11. points' \ Autos(points') = points \ Autos(points)
    BY <2>9, <2>10
  <2> QED BY <2>6, <2>7, <2>8, <2>10, <2>11 DEF Unseen, NamedContents
<1>7. ASSUME NEW r \in Requests, RestoreWithoutPoint(r) PROVE Seen
  <2>1. /\ pc[r] = "restoring" /\ pc' = [pc EXCEPT ![r] = "failed"] /\ kind' = kind
        /\ UNCHANGED <<image, points>> /\ kind[r] = "restore"
    BY <1>7 DEF RestoreWithoutPoint, Step, session, IdInv
  <2>3. InFlight = {r} /\ InFlight' = {}
    BY <2>1, Ends DEF Working, Ended
  <2>4. InDoubt /\ ~ InDoubt' /\ ~ Undoing'
    BY <2>1, <2>3, KindInFlight
  <2>5. PICK p \in points : Latest(p) /\ p.image = image
    BY <2>1 DEF HistInv, RestoreHasPoint
  <2>6. Doc = image /\ Images(Autos(points)) = Append(Past, Doc)
    BY <1>a, <2>4, <2>5, SeenInDoubt
  <2>7. Doc' = image /\ Past' = Images(Autos(points))
    BY <2>1, <2>4, SeenQuiet
  <2>8. NamedContents' = NamedContents
    BY <2>1 DEF NamedContents
  <2>9. History!Restore
    BY <2>6, <2>7, <2>8 DEF History!Restore
  <2> QED BY <2>9 DEF Seen, History!Next
<1>8. ASSUME NEW r \in Requests, UndoImage(r) PROVE Seen
  <2>1. /\ Quiet /\ pc' = [pc EXCEPT ![r] = "rewinding"] /\ kind'[r] = "undo"
        /\ points' = points
    BY <1>8, <1>c DEF UndoImage, Arrive, Step
  <2>2. PICK p \in points : Latest(p) /\ image' = p.image
    BY <1>8 DEF UndoImage
  <2>3. InFlight = {} /\ InFlight' = {r}
    BY <2>1, Arrives DEF Ended
  <2>4. ~ InDoubt /\ ~ Undoing /\ ~ InDoubt' /\ Undoing'
    BY <2>1, <2>3, KindInFlight
  <2>5. Doc = image /\ Past = Images(Autos(points))
    BY <2>4, SeenQuiet
  <2>6. Newest' = p
    BY <1>a, <2>1, <2>2, NewestIs, NewestIsOne DEF Latest
  <2>7. Doc' = p.image /\ Past' = Images(Autos(points) \ {p})
    BY <2>1, <2>2, <2>4, <2>6 DEF Doc, Past
  <2>8. Numbered(Autos(points) \ {p}) /\ p.image \in Contents
    BY <1>a, NumberedSubset DEF Autos, TypeOK, Point
  <2>9. Past = Append(Past', p.image)
    <3>1. p.id \in Nat /\ \A q \in Autos(points) \ {p} : q.id < p.id
      BY <1>a, <2>2 DEF Latest, Numbered, Autos
    <3>2. (Autos(points) \ {p}) \cup {p} = Autos(points)
      BY <2>2 DEF Latest
    <3> QED BY <2>5, <2>7, <2>8, <3>1, <3>2, ImagesAppend
  <2>10. Past' \in Seq(Contents)
    BY <2>7, <2>8, ImagesType DEF Autos, TypeOK, Point
  <2>11. Past # <<>> /\ Last(Past) = p.image /\ Front(Past) = Past'
    BY <2>8, <2>9, <2>10 DEF Last, Front
  <2>12. NamedContents' = NamedContents
    BY <2>1 DEF NamedContents
  <2>13. History!Undo
    BY <2>7, <2>11, <2>12
    DEF History!Undo, History!Last, History!Front, Last, Front
  <2> QED BY <2>13 DEF Seen, History!Next
<1>9. ASSUME NEW r \in Requests, Rewind(r) PROVE Seen
  <2>1. /\ pc[r] = "rewinding" /\ kind' = kind /\ image' = image /\ points' = points
        /\ kind[r] \in Changing \cup {"save", "restore", "undo"}
        /\ pc' = [pc EXCEPT ![r] = CASE kind[r] = "restore" -> "ok"
                                      [] kind[r] = "undo" -> "undoing"
                                      [] OTHER -> "rewound"]
    BY <1>9 DEF Rewind, HistInv, KindsInFlight
  <2>2. CASE kind[r] \in Changing \cup {"save"}
    <3>1. pc' = [pc EXCEPT ![r] = "rewound"]
      BY <2>1, <2>2
    <3>2. InFlight = {r} /\ InFlight' = {r}
      BY <2>1, <3>1, Stays DEF Ended
    <3>3. InDoubt /\ InDoubt'
      BY <2>1, <2>2, <3>2, KindInFlight
    <3>4. Unseen
      BY <2>1, <3>3, StaysInDoubt DEF Unseen
    <3> QED BY <1>e, <3>4
  <2>3. CASE kind[r] = "undo"
    <3>1. pc' = [pc EXCEPT ![r] = "undoing"]
      BY <2>1, <2>3
    <3>2. InFlight = {r} /\ InFlight' = {r}
      BY <2>1, <3>1, Stays DEF Ended
    <3>3. ~ InDoubt /\ ~ InDoubt' /\ Undoing /\ Undoing'
      BY <2>1, <2>3, <3>2, KindInFlight
    <3>4. Unseen
      BY <2>1, <3>3, StaysSettled DEF Unseen
    <3> QED BY <1>e, <3>4
  <2>4. CASE kind[r] = "restore"
    <3>1. pc' = [pc EXCEPT ![r] = "ok"]
      BY <2>1, <2>4
    <3>2. InFlight = {r} /\ InFlight' = {}
      BY <2>1, <3>1, Ends DEF Ended
    <3>3. InDoubt /\ ~ InDoubt' /\ ~ Undoing'
      BY <2>1, <2>4, <3>2, KindInFlight
    <3>4. PICK p \in points : Latest(p)
      BY <2>1, <2>4 DEF HistInv, RestoreHasPoint
    <3>5. /\ Doc = p.image /\ Past = Images(Autos(points) \ {p})
          /\ Images(Autos(points)) = Append(Past, Doc)
      BY <1>a, <3>3, <3>4, SeenInDoubt
    <3>6. Doc' = image /\ Past' = Images(Autos(points))
      BY <2>1, <3>3, SeenQuiet
    <3>7. PICK own \in points : own.image = image
      BY <2>1 DEF SavedInv, OwnsPoint, RewoundToPoint
    <3>8. image \in NamedContents \cup ToSet(Past) \cup {Doc}
      <4>1. Numbered(Autos(points) \ {p}) /\ \A q \in points : q.image \in Contents
        BY <1>a, NumberedSubset DEF Autos, TypeOK, Point
      <4>2. ToSet(Past) = {q.image : q \in Autos(points) \ {p}}
        BY <3>5, <4>1, ImagesType DEF Autos
      <4> QED BY <3>5, <3>7, <4>2 DEF NamedContents
    <3>9. NamedContents' = NamedContents
      BY <2>1 DEF NamedContents
    <3>10. History!Restore
      BY <3>5, <3>6, <3>8, <3>9 DEF History!Restore, History!ToSet, ToSet
    <3> QED BY <3>10 DEF Seen, History!Next
  <2> QED BY <2>1, <2>2, <2>3, <2>4
<1>10. ASSUME NEW r \in Requests, UndoDrop(r) PROVE Unseen
  <2>1. /\ pc[r] = "undoing" /\ pc' = [pc EXCEPT ![r] = "ok"] /\ kind' = kind
        /\ image' = image /\ points' = Without(r) /\ kind[r] = "undo"
    BY <1>10 DEF UndoDrop, Step, session, HistInv, KindsInFlight
  <2>2. InFlight = {r} /\ InFlight' = {}
    BY <2>1, Ends DEF Ended
  <2>3. ~ InDoubt /\ Undoing /\ ~ InDoubt' /\ ~ Undoing'
    BY <2>1, <2>2, KindInFlight
  <2>4. PICK own \in points : own.id = token[r].point /\ Latest(own)
    BY <2>1 DEF HistInv, OwnIsLatest
  <2>5. Newest = own
    BY <1>a, <2>4, NewestIs, NewestIsOne DEF Latest
  <2>6. Doc = image /\ Past = Images(Autos(points) \ {own})
    BY <2>3, <2>5 DEF Doc, Past
  <2>7. Doc' = image /\ Past' = Images(Autos(points'))
    BY <2>1, <2>3, SeenQuiet
  <2>8. points' = points \ {own}
    BY <1>a, <2>1, <2>4 DEF Without, Numbered
  <2>9. own \in Autos(points) /\ Autos(points') = Autos(points) \ {own}
    BY <2>4, <2>8 DEF Latest, Autos
  <2>10. points' \ Autos(points') = points \ Autos(points)
    BY <2>8, <2>9
  <2> QED BY <2>6, <2>7, <2>9, <2>10 DEF Unseen, NamedContents
<1>11. ASSUME NEW r \in Requests, CreateNamed(r) PROVE Seen
  <2>1. /\ Quiet /\ TakePoint(FALSE) /\ image' = image
        /\ pc' = [pc EXCEPT ![r] = "ok"]
    BY <1>11 DEF CreateNamed, Arrive, Step, session
  <2>2. PICK new : new = Snapshot(FALSE)
    OBVIOUS
  <2>3. /\ new.image = image /\ new.auto = FALSE
        /\ points' = points \cup {new} /\ new \notin points
    BY <2>1, <2>2, TakePointLatest DEF HistInv
  <2>4. InFlight = {} /\ InFlight' = {}
    BY <2>1, OneActor DEF Quiet, Ended
  <2>5. ~ InDoubt /\ ~ Undoing /\ ~ InDoubt' /\ ~ Undoing'
    BY <2>4, KindInFlight
  <2>6. Autos(points') = Autos(points)
    BY <2>3 DEF Autos
  <2>7. points' \ Autos(points') = (points \ Autos(points)) \cup {new}
    BY <2>3, <2>6 DEF Autos
  <2>8. NamedContents' = NamedContents \cup {image}
    BY <2>3, <2>7 DEF NamedContents
  <2>9. Doc = image /\ Doc' = Doc /\ Past' = Past
    BY <2>1, <2>5, <2>6, SeenQuiet
  <2>10. History!Keep
    BY <2>8, <2>9 DEF History!Keep
  <2> QED BY <2>10 DEF Seen, History!Next
<1>12. ASSUME NEW r \in Requests, DeletePoint(r) PROVE Seen
  <2>1. /\ Quiet /\ image' = image /\ pc' = [pc EXCEPT ![r] = "ok"]
    BY <1>12 DEF DeletePoint, Arrive, Step, session
  <2>2. PICK p \in points : points' = points \ {p}
    BY <1>12 DEF DeletePoint
  <2>3. InFlight = {} /\ InFlight' = {}
    BY <2>1, OneActor DEF Quiet, Ended
  <2>4. ~ InDoubt /\ ~ Undoing /\ ~ InDoubt' /\ ~ Undoing'
    BY <2>3, KindInFlight
  <2>5. /\ Doc = image /\ Doc' = Doc
        /\ Past = Images(Autos(points)) /\ Past' = Images(Autos(points'))
    BY <2>1, <2>4, SeenQuiet
  <2>6. CASE p \in Autos(points)
    <3>1. Autos(points') = Autos(points) \ {p}
      BY <2>2 DEF Autos
    <3>2. points' \ Autos(points') = points \ Autos(points)
      BY <2>2, <2>6, <3>1
    <3>3. NamedContents' = NamedContents
      BY <3>2 DEF NamedContents
    <3>4. \E i \in 1 .. Len(Past) : Past' = RemoveAt(Past, i)
      BY <1>b, <2>5, <2>6, <3>1, ImagesRemove
    <3>5. History!Discard
      BY <2>5, <3>3, <3>4 DEF History!Discard, History!RemoveAt, RemoveAt
    <3> QED BY <3>5 DEF Seen, History!Next
  <2>7. CASE p \notin Autos(points)
    <3>1. Autos(points') = Autos(points)
      BY <2>2, <2>7 DEF Autos
    <3>2. points' \ Autos(points') \subseteq points \ Autos(points)
      BY <2>2, <3>1
    <3>3. NamedContents' \in SUBSET NamedContents
      BY <3>2 DEF NamedContents
    <3>4. History!Discard
      BY <2>5, <3>1, <3>3 DEF History!Discard
    <3> QED BY <3>4 DEF Seen, History!Next
  <2> QED BY <2>6, <2>7
<1>13. ASSUME NEW r \in Requests, Rename(r) PROVE Unseen
  <2>1. /\ Quiet /\ image' = image /\ points' = points /\ kind'[r] = "rename"
        /\ pc' = [pc EXCEPT ![r] = "relabelling"]
    BY <1>13, <1>c DEF Rename, Arrive, Step
  <2>2. InFlight = {} /\ InFlight' = {r}
    BY <2>1, Arrives DEF Ended
  <2>3. ~ InDoubt /\ ~ Undoing /\ ~ InDoubt' /\ ~ Undoing'
    BY <2>1, <2>2, KindInFlight
  <2> QED BY <2>1, <2>3, StaysSettled DEF Unseen
<1>14. ASSUME NEW r \in Requests, StoreProfile(r) PROVE Unseen
  <2>1. /\ Quiet /\ image' = image /\ points' = points /\ pc' = [pc EXCEPT ![r] = "ok"]
    BY <1>14 DEF StoreProfile, Arrive, Step
  <2>2. InFlight = {} /\ InFlight' = {}
    BY <2>1, OneActor DEF Quiet, Ended
  <2>3. ~ InDoubt /\ ~ Undoing /\ ~ InDoubt' /\ ~ Undoing'
    BY <2>2, KindInFlight
  <2> QED BY <2>1, <2>3, StaysSettled DEF Unseen
<1>15. ASSUME NEW r \in Requests, Relabel(r) PROVE Unseen
  <2>1. /\ pc[r] = "relabelling" /\ kind' = kind /\ image' = image /\ kind[r] = "rename"
        /\ \E to \in {"ok", "unlabelled"} : pc' = [pc EXCEPT ![r] = to]
    BY <1>15, RelabelRenames DEF session, HistInv, KindsInFlight
  <2>2. InFlight = {r} /\ InFlight' = {}
    BY <2>1, Ends DEF Ended
  <2>3. ~ InDoubt /\ ~ Undoing /\ ~ InDoubt' /\ ~ Undoing'
    BY <2>1, <2>2, KindInFlight
  <2>4. /\ Doc = image /\ Doc' = Doc
        /\ Past = Images(Autos(points)) /\ Past' = Images(Autos(points'))
    BY <2>1, <2>3, SeenQuiet
  <2>5. /\ \A p \in points' : \E o \in points : SamePoint(p, o)
        /\ \A o \in points : \E p \in points' : SamePoint(p, o)
    BY <1>15, RelabelRenames, RenamedPoints
  <2> USE DEF SamePoint
  <2>6. /\ \A p \in Autos(points) : \E q \in Autos(points') : q.id = p.id /\ q.image = p.image
        /\ \A q \in Autos(points') : \E p \in Autos(points) : q.id = p.id /\ q.image = p.image
    BY <2>5 DEF Autos
  <2>7. Past' = Past
    BY <1>b, <2>4, <2>6, ImagesSame
  <2>8. /\ \A p \in points \ Autos(points) :
              \E q \in points' \ Autos(points') : q.image = p.image
        /\ \A q \in points' \ Autos(points') :
              \E p \in points \ Autos(points) : q.image = p.image
    BY <2>5 DEF Autos
  <2>9. NamedContents' = NamedContents
    BY <2>8 DEF NamedContents
  <2> QED BY <2>4, <2>7, <2>9 DEF Unseen
<1>16. ASSUME UNCHANGED vars PROVE Unseen
  <2>1. UNCHANGED <<image, points, pc, kind>>
    BY <1>16 DEF vars
  <2>2. InFlight' = InFlight
    BY <2>1 DEF InFlight
  <2>3. (InDoubt' <=> InDoubt) /\ (Undoing' <=> Undoing)
    BY <2>1, <2>2 DEF InDoubt, Undoing
  <2>4. CASE InDoubt
    BY <2>1, <2>3, <2>4, StaysInDoubt DEF Unseen
  <2>5. CASE ~ InDoubt
    BY <2>1, <2>3, <2>5, StaysSettled DEF Unseen
  <2> QED BY <2>4, <2>5
<1>17. ~ Crash
  BY DEF Crash
<1>18. ASSUME \E r \in Requests : RequestStep(r) PROVE Seen
  BY <1>18, <1>e, <1>1, <1>2, <1>3, <1>4, <1>5, <1>6, <1>7, <1>8, <1>9, <1>10, <1>11,
     <1>12, <1>13, <1>14, <1>15
     DEF RequestStep, RollbackStep, RestoreStep, UndoStep, RenameStep
<1>19. Seen
  BY <1>e, <1>16, <1>17, <1>18 DEF Next, NoMoreRequests
<1> QED BY <1>19 DEF Seen

\* A fresh session: the image as opened, and nothing to go back to.
LEMMA InitMaps == Init => HistInv /\ History!Init
<1> SUFFICES ASSUME Init PROVE HistInv /\ History!Init
  OBVIOUS
<1>1. points = {} /\ IsFiniteSet(points) /\ image \in Contents
  BY FS_EmptySet DEF Init, Contents
<1>2. \A r \in Requests : pc[r] = "idle"
  BY DEF Init
<1>3. HistInv
  BY <1>1, <1>2
     DEF HistInv, OwnIsLatest, UntouchedIsOwn, RewoundIsOwn, RestoreHasPoint, KindsInFlight,
         Working
<1>4. ~ InDoubt /\ ~ Undoing
  BY <1>2 DEF InDoubt, Undoing, InFlight
<1>5. Doc = image /\ Past = Images(Autos(points))
  BY <1>4, SeenQuiet
<1>6. Autos(points) = {} /\ NamedContents = {} /\ Numbered({})
  BY <1>1, FS_EmptySet DEF Autos, NamedContents, Numbered
<1>7. Images({}) = <<>>
  <2>1. Images({}) \in Seq({}) /\ Len(Images({})) = Cardinality({})
    BY <1>6, ImagesType
  <2>2. Len(Images({})) = 0
    BY <2>1, FS_EmptySet
  <2> QED BY <2>1, <2>2, EmptySeq
<1> QED BY <1>1, <1>3, <1>5, <1>6, <1>7 DEF History!Init

\* ImplementsUndoHistory: with requests one after another and no crash, edits,
\* failed requests, downloads, undo, restore and named checkpoints together are
\* a document with a stack of its earlier contents.
THEOREM UndoHistoryIsImplemented ==
    ASSUME ~ Concurrent, ~ MayCrash PROVE Spec => ImplementsUndoHistory
<1>1. Init => HistInv /\ History!Init
  BY InitMaps
<1>2. TypeOK /\ IdInv /\ SavedInv /\ HistInv /\ [Next]_vars => HistInv'
  BY HistStep
<1>3. /\ TypeOK /\ IdInv /\ SavedInv /\ HistInv /\ [Next]_vars
      /\ TypeOK' /\ IdInv' /\ HistInv'
      => [History!Next]_<<Doc, Past, NamedContents>>
  BY MapStep
<1>4. Spec => [](TypeOK /\ IdInv /\ SavedInv)
  BY SavedInvariant
<1> QED BY <1>1, <1>2, <1>3, <1>4, PTL DEF Spec, ImplementsUndoHistory, History!Spec
=============================================================================
