---------------------- MODULE PartitionSelection_proofs ----------------------
(***************************************************************************)
(* PartitionSelection on drives with any number of partitions and any      *)
(* number of requests: type correctness, for requests that overlap as they *)
(* like; where edits land, what listings show, what session.json holds,    *)
(* what failed edits and searches put back and what answers describe, for  *)
(* requests that come one after another.                                   *)
(***************************************************************************)
EXTENDS PartitionSelection, FiniteSetTheorems, SequenceTheorems, TLAPS

Goals == Selected \cup {Unsaid, Beyond}

\* The contents that checkpoints hold.
Held(ps) == {ps[i].volume : i \in 1 .. Len(ps)}
-----------------------------------------------------------------------------
(***************************************************************************)
(* The sequences the model uses.                                           *)
(***************************************************************************)

\* The partitions of a drive can be searched in some order.
LEMMA SearchOrder == SetToSeq(Parts) \in Seq(Parts)
<1>1. Cardinality(Parts) \in Nat /\ ExistsBijection(1 .. Cardinality(Parts), Parts)
  BY PartsAssumption, FS_CardinalityType
<1>2. PICK f \in [1 .. Cardinality(Parts) -> Parts] : IsInjective(f)
  BY <1>1 DEF ExistsBijection, Bijection, Injection, IsInjective
<1>3. SetToSeq(Parts) \in [1 .. Cardinality(Parts) -> Parts]
  BY <1>2 DEF SetToSeq
<1> QED BY <1>1, <1>3

\* The elements of a sequence; a part of it has no others.
Elements(s) == {s[k] : k \in 1 .. Len(s)}

\* A stretch of a sequence has no other elements.
LEMMA PartOf ==
    ASSUME NEW S, NEW s \in Seq(S), NEW m \in Int, NEW n \in Int, m >= 1, n <= Len(s)
    PROVE  SubSeq(s, m, n) \in Seq(Elements(s))
<1>1. \A i \in m .. n : s[i] \in Elements(s)
  BY DEF Elements
<1> QED BY <1>1, SubSeqProperties

\* Nor has a sequence that lost one.
LEMMA WithoutOne ==
    ASSUME NEW S, NEW s \in Seq(S), NEW i \in 1 .. Len(s)
    PROVE  RemoveAt(s, i) \in Seq(Elements(s))
<1>1. /\ Len(s) \in Nat /\ i - 1 \in Int /\ i + 1 \in Int /\ i - 1 <= Len(s)
      /\ i + 1 >= 1
  OBVIOUS
<1>2. SubSeq(s, 1, i - 1) \in Seq(Elements(s)) /\ SubSeq(s, i + 1, Len(s)) \in Seq(Elements(s))
  BY <1>1, PartOf
<1> QED BY <1>2, ConcatProperties DEF RemoveAt

\* A sequence of points of the present sequence holds no other content.
LEMMA HeldByPart ==
    ASSUME TypeOK, NEW ps \in Seq(Elements(points))
    PROVE  ps \in Seq(Point) /\ Held(ps) \subseteq Held(points)
<1>1. points \in Seq(Point) /\ Elements(points) \subseteq Point
  BY DEF TypeOK, Elements
<1>2. \A i \in 1 .. Len(ps) : ps[i] \in Elements(points)
  OBVIOUS
<1> QED BY <1>1, <1>2 DEF Held, Elements

\* The checkpoint of a request, where it has one, is among the points.
LEMMA OwnIsPoint ==
    ASSUME TypeOK, NEW r \in Requests, HasOwn(r)
    PROVE  /\ points[Own(r)] \in Point /\ points[Own(r)].volume \in Held(points)
           /\ RemoveAt(points, Own(r)) \in Seq(Point)
           /\ Held(RemoveAt(points, Own(r))) \subseteq Held(points)
<1>1. points \in Seq(Point)
  BY DEF TypeOK
<1>2. Own(r) \in 1 .. Len(points)
  BY DEF HasOwn, Own
<1>3. RemoveAt(points, Own(r)) \in Seq(Elements(points))
  BY <1>1, <1>2, WithoutOne
<1>4. points[Own(r)] \in Point /\ points[Own(r)].volume \in Held(points)
  BY <1>1, <1>2 DEF Held
<1> QED BY <1>3, <1>4, HeldByPart

\* Without the newest point, where there is one.
LEMMA FrontOfPoints ==
    ASSUME TypeOK
    PROVE  Front(points) \in Seq(Point) /\ Held(Front(points)) \subseteq Held(points)
<1>1. points \in Seq(Point) /\ Len(points) \in Nat
  BY DEF TypeOK
<1>2. Front(points) \in Seq(Elements(points))
  BY <1>1, PartOf DEF Front
<1> QED BY <1>2, HeldByPart

\* The newest point.
LEMMA LastOfPoints ==
    ASSUME TypeOK, points # <<>>
    PROVE  Last(points) \in Point /\ Last(points).volume \in Held(points)
<1>1. points \in Seq(Point) /\ Len(points) \in Nat /\ Len(points) # 0
  BY DEF TypeOK
<1>2. Last(points) = points[Len(points)] /\ Len(points) \in 1 .. Len(points)
  BY <1>1 DEF Last
<1> QED BY <1>1, <1>2 DEF Held

\* A request that begins adds at most a point with the present content.
LEMMA BegunPoints ==
    ASSUME TypeOK, NEW r \in Requests, NEW k \in AllKinds, NEW named \in Goals,
           NEW todo \in Seq(Goals), Begun(r, k, named, todo)
    PROVE  points' \in Seq(Point) /\ Held(points') \subseteq Held(points) \cup {volume}
<1>1. CASE k \notin Wrapped
  BY <1>1 DEF Begun, TypeOK
<1>2. CASE k \in Wrapped
  <2> DEFINE new == [owner |-> r, volume |-> volume, selection |-> selection]
  <2>1. points' = Append(points, new) /\ points \in Seq(Point) /\ new \in Point
    BY <1>2 DEF Begun, TypeOK, Point
  <2>2. /\ points' \in Seq(Point) /\ Len(points') = Len(points) + 1
        /\ points'[Len(points) + 1] = new
        /\ \A i \in 1 .. Len(points) : points'[i] = points[i]
    BY <2>1
  <2>3. new.volume = volume
    OBVIOUS
  <2> QED BY <2>1, <2>2, <2>3 DEF Held
<1> QED BY <1>1, <1>2
-----------------------------------------------------------------------------
(***************************************************************************)
(* Type correctness.                                                       *)
(***************************************************************************)

\* The first goal of a request, and what is left of its goals.
LEMMA GoalType ==
    ASSUME TypeOK, NEW r \in Requests, Applying(r)
    PROVE  Goal(r) \in Goals /\ Tail(req[r].todo) \in Seq(Goals)
<1>1. req[r].todo \in Seq(Goals) /\ req[r].todo # <<>>
  BY DEF Applying, TypeOK, Request, Goals
<1> QED BY <1>1, HeadTailProperties DEF Goal

\* A request that begins is well-formed.
LEMMA BegunType ==
    ASSUME TypeOK, NEW r \in Requests, NEW k \in AllKinds, NEW named \in Goals,
           NEW todo \in Seq(Goals), Begun(r, k, named, todo)
    PROVE  TypeOK'
<1>1. points' \in Seq(Point)
  BY BegunPoints
<1>2. req' \in [Requests -> Request]
  BY DEF Begun, TypeOK, Request, Places, Afters, Goals
<1> QED BY <1>1, <1>2 DEF Begun, TypeOK, files, Point, Request

\* A request of which one field changes is a request.
LEMMA FieldChanges ==
    ASSUME NEW q \in Request
    PROVE  /\ \A pc \in Places : [q EXCEPT !.pc = pc] \in Request
           /\ \A todo \in Seq(Goals) : [q EXCEPT !.todo = todo] \in Request
           /\ \A index \in Selected : [q EXCEPT !.index = index] \in Request
           /\ \A wrote \in BOOLEAN : [q EXCEPT !.wrote = wrote] \in Request
           /\ \A after \in Afters : [q EXCEPT !.after = after] \in Request
           /\ \A text \in Stored \cup {NoFile} : [q EXCEPT !.text = text] \in Request
<1>1. \A pc \in Places : [q EXCEPT !.pc = pc] \in Request
  BY DEF Request, Goals
<1>2. \A todo \in Seq(Goals) : [q EXCEPT !.todo = todo] \in Request
  BY DEF Request, Goals
<1>3. \A index \in Selected : [q EXCEPT !.index = index] \in Request
  BY DEF Request, Goals
<1>4. \A wrote \in BOOLEAN : [q EXCEPT !.wrote = wrote] \in Request
  BY DEF Request, Goals
<1>5. \A after \in Afters : [q EXCEPT !.after = after] \in Request
  BY DEF Request, Goals
<1>6. \A text \in Stored \cup {NoFile} : [q EXCEPT !.text = text] \in Request
  BY DEF Request, Goals
<1> QED BY <1>1, <1>2, <1>3, <1>4, <1>5, <1>6

\* So are the requests among which one does so.
LEMMA RequestChanges ==
    ASSUME NEW rs \in [Requests -> Request], NEW r \in Requests
    PROVE  /\ \A pc \in Places : [rs EXCEPT ![r].pc = pc] \in [Requests -> Request]
           /\ \A todo \in Seq(Goals) : [rs EXCEPT ![r].todo = todo] \in [Requests -> Request]
           /\ \A index \in Selected : [rs EXCEPT ![r].index = index] \in [Requests -> Request]
           /\ \A wrote \in BOOLEAN : [rs EXCEPT ![r].wrote = wrote] \in [Requests -> Request]
           /\ \A after \in Afters : [rs EXCEPT ![r].after = after] \in [Requests -> Request]
           /\ \A text \in Stored \cup {NoFile} :
                 [rs EXCEPT ![r].text = text] \in [Requests -> Request]
<1>1. rs[r] \in Request /\ \A new \in Request : [rs EXCEPT ![r] = new] \in [Requests -> Request]
  OBVIOUS
<1> QED BY <1>1, FieldChanges

\* A request that moves on is a request.
LEMMA MovesOn ==
    ASSUME TypeOK, NEW r \in Requests, NEW pc \in Places
    PROVE  [req EXCEPT ![r].pc = pc] \in [Requests -> Request]
BY RequestChanges DEF TypeOK

\* So is one that leaves out a selection.
LEMMA LosesGoal ==
    ASSUME TypeOK, NEW r \in Requests, NEW todo \in Seq(Goals)
    PROVE  [req EXCEPT ![r].todo = todo] \in [Requests -> Request]
BY RequestChanges DEF TypeOK

\* One that takes up its next selection.
LEMMA LosesGoalAndMoves ==
    ASSUME TypeOK, NEW r \in Requests, NEW todo \in Seq(Goals), NEW pc \in Places
    PROVE  [req EXCEPT ![r].todo = todo, ![r].pc = pc] \in [Requests -> Request]
<1>1. [req EXCEPT ![r].todo = todo] \in [Requests -> Request]
  BY LosesGoal
<1>2. \A rs \in [Requests -> Request] : [rs EXCEPT ![r].pc = pc] \in [Requests -> Request]
  BY RequestChanges
<1> QED BY <1>1, <1>2

\* One that selected the partition table goes on with storing the session.
LEMMA SelectsNone ==
    ASSUME TypeOK, NEW r \in Requests, NEW todo \in Seq(Goals), NEW pc \in Places,
           NEW after \in Afters
    PROVE  [req EXCEPT ![r].todo = todo, ![r].pc = pc, ![r].after = after] \in [Requests -> Request]
<1>1. [req EXCEPT ![r].todo = todo, ![r].pc = pc] \in [Requests -> Request]
  BY LosesGoalAndMoves
<1>2. \A rs \in [Requests -> Request] : [rs EXCEPT ![r].after = after] \in [Requests -> Request]
  BY RequestChanges
<1> QED BY <1>1, <1>2

\* One that has read which partition to mount.
LEMMA ReadsIndex ==
    ASSUME TypeOK, NEW r \in Requests, NEW pc \in Places, NEW index \in Selected
    PROVE  [req EXCEPT ![r].pc = pc, ![r].index = index] \in [Requests -> Request]
<1>1. [req EXCEPT ![r].pc = pc] \in [Requests -> Request]
  BY MovesOn
<1>2. \A rs \in [Requests -> Request] : [rs EXCEPT ![r].index = index] \in [Requests -> Request]
  BY RequestChanges
<1> QED BY <1>1, <1>2

\* One that has changed the volume.
LEMMA HasWritten ==
    ASSUME TypeOK, NEW r \in Requests, NEW pc \in Places
    PROVE  [req EXCEPT ![r].pc = pc, ![r].wrote = TRUE] \in [Requests -> Request]
<1>1. [req EXCEPT ![r].pc = pc] \in [Requests -> Request]
  BY MovesOn
<1>2. \A rs \in [Requests -> Request] : [rs EXCEPT ![r].wrote = TRUE] \in [Requests -> Request]
  BY RequestChanges
<1> QED BY <1>1, <1>2

\* One that is about to store the session.
LEMMA StoresSession ==
    ASSUME TypeOK, NEW r \in Requests, NEW pc \in Places, NEW after \in Afters
    PROVE  [req EXCEPT ![r].pc = pc, ![r].after = after] \in [Requests -> Request]
<1>1. [req EXCEPT ![r].pc = pc] \in [Requests -> Request]
  BY MovesOn
<1>2. \A rs \in [Requests -> Request] : [rs EXCEPT ![r].after = after] \in [Requests -> Request]
  BY RequestChanges
<1> QED BY <1>1, <1>2

\* One that holds the text of the session, or has written it.
LEMMA HoldsText ==
    ASSUME TypeOK, NEW r \in Requests, NEW pc \in Places, NEW text \in Stored \cup {NoFile}
    PROVE  [req EXCEPT ![r].pc = pc, ![r].text = text] \in [Requests -> Request]
<1>1. [req EXCEPT ![r].pc = pc] \in [Requests -> Request]
  BY MovesOn
<1>2. \A rs \in [Requests -> Request] : [rs EXCEPT ![r].text = text] \in [Requests -> Request]
  BY RequestChanges
<1> QED BY <1>1, <1>2

\* The session can be stored.
LEMMA CurrentType == ASSUME TypeOK PROVE Current \in Stored
BY DEF TypeOK, Current, Stored, Dirty

\* Every step keeps the types.
LEMMA TypeStep == TypeOK /\ [Next]_vars => TypeOK'
<1> SUFFICES ASSUME TypeOK, [Next]_vars PROVE TypeOK'
  OBVIOUS
<1> USE DEF TypeOK
<1>1. ASSUME NEW r \in Requests, Arrival(r) PROVE TypeOK'
  <2>1. CASE Edit(r)
    <3>1. PICK named \in Parts \cup {Unsaid, Beyond} : Begun(r, "edit", named, <<named>>)
      BY <2>1 DEF Edit
    <3>2. named \in Goals /\ <<named>> \in Seq(Goals) /\ "edit" \in AllKinds
      BY DEF Goals, Selected, AllKinds
    <3> QED BY <3>1, <3>2, BegunType
  <2>2. CASE Delete(r)
    <3>1. PICK named \in Parts : Begun(r, "delete", named, <<>>)
      BY <2>2 DEF Delete
    <3>2. named \in Goals /\ <<>> \in Seq(Goals) /\ "delete" \in AllKinds
      BY DEF Goals, Selected, AllKinds
    <3> QED BY <3>1, <3>2, BegunType
  <2>3. CASE List(r)
    <3>1. PICK named \in Selected \cup {Unsaid, Beyond} : Begun(r, "list", named, <<named>>)
      BY <2>3 DEF List
    <3>2. named \in Goals /\ <<named>> \in Seq(Goals) /\ "list" \in AllKinds
      BY DEF Goals, AllKinds
    <3> QED BY <3>1, <3>2, BegunType
  <2>4. CASE Search(r)
    <3>1. SetToSeq(Parts) \in Seq(Goals) /\ selection \in Goals
      BY SearchOrder DEF Goals, Selected
    <3>2. Append(SetToSeq(Parts), selection) \in Seq(Goals)
      BY <3>1
    <3>3. Unsaid \in Goals /\ "search" \in AllKinds
      BY DEF Goals, AllKinds
    <3> QED BY <2>4, <3>2, <3>3, BegunType DEF Search
  <2>5. CASE Undo(r)
    <3>1. Last(points) \in Point
      BY <2>5, LastOfPoints DEF Undo
    <3>2. volume' \in [Parts -> SUBSET Requests] /\ selection' \in Selected
      BY <2>5, <3>1 DEF Undo, Point
    <3>3. req' \in [Requests -> Request]
      <4> DEFINE new == [req[r] EXCEPT !.pc = "storing", !.after = "dropping",
                                       !.kind = "undo", !.before = selection]
      <4>1. req' = [req EXCEPT ![r] = new]
        BY <2>5 DEF Undo
      <4>2. new \in Request
        BY DEF Request, Places, Storing, Afters, AllKinds
      <4> QED BY <4>1, <4>2
    <3> QED BY <2>5, <3>2, <3>3 DEF Undo, files, Point
  <2> QED BY <1>1, <2>1, <2>2, <2>3, <2>4, <2>5 DEF Arrival
<1>2. ASSUME NEW r \in Requests, Selecting(r) PROVE TypeOK'
  <2>1. CASE SkipSelection(r)
    <3>1. Tail(req[r].todo) \in Seq(Goals)
      BY <2>1, GoalType DEF SkipSelection
    <3>2. req' = [req EXCEPT ![r].todo = Tail(req[r].todo)]
      BY <2>1 DEF SkipSelection
    <3>3. req' \in [Requests -> Request]
      BY <3>1, <3>2, LosesGoal
    <3> QED BY <2>1, <3>3 DEF SkipSelection, files
  <2>2. CASE SelectTable(r)
    <3>1. Tail(req[r].todo) \in Seq(Goals)
      BY <2>2, GoalType DEF SelectTable
    <3>2. req' \in [Requests -> Request]
      <4>1. /\ req' = [req EXCEPT ![r].todo = Tail(req[r].todo), ![r].pc = "storing",
                                  ![r].after = "applying"]
            /\ "storing" \in Places /\ "applying" \in Afters
        BY <2>2 DEF SelectTable, Places, Storing, Afters
      <4> QED BY <3>1, <4>1, SelectsNone, Zenon
    <3>3. selection' \in Selected
      BY <2>2 DEF SelectTable, Selected
    <3> QED BY <2>2, <3>2, <3>3 DEF SelectTable, files
  <2>3. CASE Choose(r)
    <3>1. Tail(req[r].todo) \in Seq(Goals)
      BY <2>3, GoalType DEF Choose
    <3>2. req' \in [Requests -> Request]
      <4>1. /\ req' = [req EXCEPT ![r].todo = Tail(req[r].todo), ![r].pc = "describing"]
            /\ "describing" \in Places
        BY <2>3 DEF Choose, Places
      <4> QED BY <3>1, <4>1, LosesGoalAndMoves, Zenon
    <3>3. selection' \in Selected /\ caps' \in Selected
      BY <2>3 DEF Choose, Selected
    <3> QED BY <2>3, <3>2, <3>3 DEF Choose, files
  <2>4. CASE ReadIndex(r)
    <3>1. /\ req' = [req EXCEPT ![r].pc = "reading", ![r].index = selection]
          /\ "reading" \in Places
      BY <2>4 DEF ReadIndex, Places
    <3>2. req' \in [Requests -> Request]
      BY <3>1, ReadsIndex, Zenon
    <3> QED BY <2>4, <3>2 DEF ReadIndex, files
  <2>5. CASE Describe(r)
    <3>1. /\ "marked" \in Places /\ "storing" \in Places /\ "applying" \in Afters
          /\ Table \in Selected
      BY DEF Places, Storing, Afters, Selected
    <3>2. req' \in [Requests -> Request]
      <4>1. \/ req' = [req EXCEPT ![r].pc = "marked"]
            \/ req' = [req EXCEPT ![r].pc = "storing", ![r].after = "applying"]
        BY <2>5 DEF Describe
      <4>2. CASE req' = [req EXCEPT ![r].pc = "marked"]
        BY <3>1, <4>2, MovesOn, Zenon
      <4>3. CASE req' = [req EXCEPT ![r].pc = "storing", ![r].after = "applying"]
        BY <3>1, <4>3, StoresSession, Zenon
      <4> QED BY <4>1, <4>2, <4>3
    <3>3. caps' \in Selected
      <4>1. req[r].index \in Selected
        BY DEF Request
      <4> QED BY <2>5, <3>1, <4>1 DEF Describe
    <3> QED BY <2>5, <3>2, <3>3 DEF Describe, files
  <2> QED BY <1>2, <2>1, <2>2, <2>3, <2>4, <2>5 DEF Selecting
<1>3. ASSUME NEW r \in Requests, Persisting(r) PROVE TypeOK'
  <2>1. CASE MakeText(r)
    <3>1. /\ req' = [req EXCEPT ![r].pc = "writing", ![r].text = Current]
          /\ "writing" \in Places /\ Current \in Stored \cup {NoFile}
      BY <2>1, CurrentType DEF MakeText, Places, Storing
    <3>2. req' \in [Requests -> Request]
      BY <3>1, HoldsText, Zenon
    <3> QED BY <2>1, <3>2 DEF MakeText, files
  <2>2. CASE WriteTemporary(r)
    <3>1. /\ req' = [req EXCEPT ![r].pc = "replacing", ![r].text = NoFile]
          /\ "replacing" \in Places /\ NoFile \in Stored \cup {NoFile}
      BY <2>2 DEF WriteTemporary, Places, Storing
    <3>2. req' \in [Requests -> Request]
      BY <3>1, HoldsText, Zenon
    <3>3. temporary' \in Stored \cup {NoFile}
      BY <2>2 DEF WriteTemporary, Request
    <3> QED BY <2>2, <3>2, <3>3 DEF WriteTemporary
  <2>3. CASE ReplaceStored(r)
    <3>1. req[r].after \in Afters
      BY DEF Request
    <3>2. /\ \A after \in Afters : after \in Places /\ NotStored[after] \in Places
      BY DEF Afters, Places, NotStored, Ended
    <3>3. PICK pc \in Places : req' = [req EXCEPT ![r].pc = pc]
      BY <2>3, <3>1, <3>2 DEF ReplaceStored
    <3>4. req' \in [Requests -> Request]
      BY <3>3, MovesOn
    <3>5. stored' \in Stored /\ temporary' \in Stored \cup {NoFile}
      BY <2>3 DEF ReplaceStored
    <3> QED BY <2>3, <3>4, <3>5 DEF ReplaceStored
  <2> QED BY <1>3, <2>1, <2>2, <2>3 DEF Persisting
<1>4. ASSUME NEW r \in Requests, Working(r) PROVE TypeOK'
  <2>1. CASE Mount(r)
    <3>1. /\ req' = [req EXCEPT ![r].pc = "mounted", ![r].index = selection]
          /\ "mounted" \in Places
      BY <2>1 DEF Mount, Places
    <3>2. req' \in [Requests -> Request]
      BY <3>1, ReadsIndex, Zenon
    <3> QED BY <2>1, <3>2 DEF Mount, files
  <2>2. CASE Write(r)
    <3>1. /\ req' = [req EXCEPT ![r].pc = "describing", ![r].wrote = TRUE]
          /\ "describing" \in Places
      BY <2>2 DEF Write, Places
    <3>2. req' \in [Requests -> Request]
      BY <3>1, HasWritten, Zenon
    <3> QED BY <2>2, <3>2 DEF Write, files
  <2>3. CASE Finish(r)
    <3>1. points' \in Seq(Point)
      BY <2>3, OwnIsPoint DEF Finish
    <3>2. /\ req' = [req EXCEPT ![r].pc = "storing", ![r].after = "ok"]
          /\ "storing" \in Places /\ "ok" \in Afters
      BY <2>3 DEF Finish, Places, Storing, Afters
    <3>3. req' \in [Requests -> Request]
      BY <3>2, StoresSession, Zenon
    <3> QED BY <2>3, <3>1, <3>3 DEF Finish, files
  <2>4. CASE Answer(r)
    <3>1. req' = [req EXCEPT ![r].pc = "ok"] /\ "ok" \in Places
      BY <2>4 DEF Answer, Places, Ended
    <3>2. req' \in [Requests -> Request]
      BY <3>1, MovesOn
    <3> QED BY <2>4, <3>2 DEF Answer, files
  <2>5. CASE Fail(r)
    <3>1. HasOwn(r) => points[Own(r)] \in Point
      BY OwnIsPoint
    <3>2. volume' \in [Parts -> SUBSET Requests] /\ selection' \in Selected
      BY <2>5, <3>1 DEF Fail, Point
    <3>3. req' \in [Requests -> Request]
      <4>1. \/ req' = [req EXCEPT ![r].pc = "storing", ![r].after = "dropping"]
            \/ req' = [req EXCEPT ![r].pc = "failed"]
        BY <2>5 DEF Fail
      <4>2. "storing" \in Places /\ "failed" \in Places /\ "dropping" \in Afters
        BY DEF Places, Storing, Ended, Afters
      <4>3. CASE req' = [req EXCEPT ![r].pc = "storing", ![r].after = "dropping"]
        BY <4>2, <4>3, StoresSession, Zenon
      <4>4. CASE req' = [req EXCEPT ![r].pc = "failed"]
        BY <4>2, <4>4, MovesOn, Zenon
      <4> QED BY <4>1, <4>3, <4>4
    <3> QED BY <2>5, <3>2, <3>3 DEF Fail, files, Point
  <2>6. CASE Drop(r)
    <3>1. points' \in Seq(Point)
      BY <2>6, OwnIsPoint, FrontOfPoints DEF Drop
    <3>2. PICK pc \in Places : req' = [req EXCEPT ![r].pc = pc]
      BY <2>6 DEF Drop, Places, Ended
    <3>3. req' \in [Requests -> Request]
      BY <3>2, MovesOn
    <3> QED BY <2>6, <3>1, <3>3 DEF Drop, files
  <2>7. CASE FailListing(r)
    <3>1. req' = [req EXCEPT ![r].pc = "failed"] /\ "failed" \in Places
      BY <2>7 DEF FailListing, Places, Ended
    <3>2. req' \in [Requests -> Request]
      BY <3>1, MovesOn
    <3> QED BY <2>7, <3>2 DEF FailListing, files
  <2>8. CASE InterruptSearch(r)
    <3>1. req[r].todo \in Seq(Goals) /\ req[r].todo # <<>>
      BY <2>8 DEF InterruptSearch, Request, Goals
    <3>2. <<Last(req[r].todo)>> \in Seq(Goals)
      BY <3>1 DEF Last
    <3>3. /\ req' = [req EXCEPT ![r].todo = <<Last(req[r].todo)>>, ![r].pc = "applying"]
          /\ "applying" \in Places
      BY <2>8 DEF InterruptSearch, Places
    <3>4. req' \in [Requests -> Request]
      BY <3>2, <3>3, LosesGoalAndMoves, Zenon
    <3> QED BY <2>8, <3>4 DEF InterruptSearch, files
  <2> QED BY <1>4, <2>1, <2>2, <2>3, <2>4, <2>5, <2>6, <2>7, <2>8 DEF Working
<1>5. CASE NoMoreRequests \/ UNCHANGED vars
  BY <1>5 DEF NoMoreRequests, vars
<1> QED BY <1>1, <1>2, <1>3, <1>4, <1>5 DEF Next

\* The selection, what is stored, the volumes, the checkpoints and the requests
\* are well-formed, for any drive and any interleaving of requests.
THEOREM TypeCorrect == Spec => []TypeOK
<1>1. Init => TypeOK
  <2> SUFFICES ASSUME Init PROVE TypeOK
    OBVIOUS
  <2>1. <<>> \in Seq(Point) /\ <<>> \in Seq(Selected \cup {Unsaid, Beyond})
    OBVIOUS
  <2> QED BY <2>1 DEF Init, TypeOK, Current, Stored, Dirty, Selected, Request, Places, Afters
<1> QED BY <1>1, TypeStep, PTL DEF Spec
-----------------------------------------------------------------------------
(***************************************************************************)
(* Edits land where they mean to, with requests one after another.         *)
(*                                                                         *)
(* Between arrival and mount an edit or listing is alone, so the selection is *)
(* the one it found until it has applied its own (MeansSelection).  What a *)
(* rollback or an undo puts into the volumes are edits that landed before  *)
(* the checkpoint was recorded (Landed), of requests that have arrived     *)
(* (Arrived), so that a request cannot begin with its edit already there.  *)
(***************************************************************************)
Rests(r) == req[r].pc \in {"idle"} \cup Ended

Alone == \A r, q \in Requests : Rests(r) \/ Rests(q) \/ r = q

Pending(r) == req[r].pc = "applying" /\ req[r].todo # <<>>
Selects(r) ==
    \/ req[r].pc = "applying" /\ req[r].todo = <<>>
    \/ req[r].pc \in {"describing", "reading"} /\ ~ req[r].wrote
    \/ req[r].pc \in Storing /\ req[r].after = "applying"

Mine(r) ==
    req[r].kind \in {"edit", "list"} =>
        /\ Pending(r) => req[r].todo = <<req[r].named>> /\ selection = req[r].before
        /\ Selects(r) => req[r].todo = <<>> /\ selection = Meant(r)
        /\ req[r].pc = "mounted" => req[r].index = Meant(r)
MeansSelection == \A r \in Requests : Mine(r)

LandedIn(v) ==
    \A r \in Requests, p \in Parts : r \in v[p] /\ req[r].kind = "edit" => p = Meant(r)
ArrivedIn(v) == \A r \in Requests, p \in Parts : r \in v[p] => req[r].pc # "idle"

Contents == Held(points) \cup {volume}
Landed == \A v \in Contents : LandedIn(v)
Arrived == \A v \in Contents : ArrivedIn(v)

LandInv == Alone /\ MeansSelection /\ Landed /\ Arrived

\* An edit or a listing makes one selection.
LEMMA OneGoal == \A g \in Goals : Head(<<g>>) = g /\ Tail(<<g>>) = <<>>
OBVIOUS

\* The selection it still has to make is the one its request names.
LEMMA PendingGoal ==
    ASSUME NEW r \in Requests, req[r] \in Request, Mine(r), Applying(r),
           req[r].kind \in {"edit", "list"}
    PROVE  Goal(r) = req[r].named /\ Tail(req[r].todo) = <<>> /\ selection = req[r].before
<1>1. req[r].todo = <<req[r].named>> /\ selection = req[r].before
  BY DEF Mine, Pending, Applying
<1>2. req[r].named \in Goals
  BY DEF Request, Goals
<1> QED BY <1>1, <1>2, OneGoal DEF Goal

\* A step of the only request in flight has to be looked at for that one.
LEMMA OnlyOne ==
    ASSUME NEW r \in Requests,
           \A q \in Requests \ {r} : Rests(q) /\ req'[q] = req[q],
           Mine(r)'
    PROVE  Alone' /\ MeansSelection'
<1>1. \A q \in Requests \ {r} : Rests(q)'
  BY DEF Rests
<1>2. \A q \in Requests \ {r} : ~ Pending(q)' /\ ~ Selects(q)' /\ req'[q].pc # "mounted"
  BY <1>1 DEF Rests, Ended, Pending, Selects, Storing
<1> QED BY <1>1, <1>2 DEF Alone, MeansSelection, Mine

\* Whoever arrived keeps what it means, so no content becomes wrong by itself.
Keeps(r) ==
    /\ req[r].pc # "idle" /\ req'[r].pc # "idle"
    /\ req'[r].kind = req[r].kind
    /\ req'[r].named = req[r].named
    /\ req'[r].before = req[r].before

\* One content that was right stays right when every request keeps what it means.
LEMMA ContentKept ==
    ASSUME Landed, Arrived, NEW v \in Contents,
           \A r \in Requests : req[r].pc = "idle" \/ Keeps(r)
    PROVE  LandedIn(v)' /\ ArrivedIn(v)'
<1>1. LandedIn(v) /\ ArrivedIn(v)
  BY DEF Landed, Arrived
<1>2. ASSUME NEW r \in Requests, NEW p \in Parts, r \in v[p]
      PROVE  Keeps(r)
  BY <1>1, <1>2 DEF ArrivedIn
<1> QED BY <1>1, <1>2 DEF LandedIn, ArrivedIn, Keeps, Meant

\* So do all of them when the step adds none.
LEMMA ContentsKept ==
    ASSUME Landed, Arrived, Contents' \subseteq Contents,
           \A r \in Requests : req[r].pc = "idle" \/ Keeps(r)
    PROVE  Landed' /\ Arrived'
<1>1. \A v \in Contents : LandedIn(v)' /\ ArrivedIn(v)'
  BY ContentKept
<1> QED BY <1>1 DEF Landed, Arrived, LandedIn, ArrivedIn, Meant

\* The arrival of a request other than an undo.
LEMMA BegunLands ==
    ASSUME ~ Concurrent, TypeOK, LandInv, NEW r \in Requests, NEW k \in AllKinds,
           NEW named \in Goals, NEW todo \in Seq(Goals), Begun(r, k, named, todo),
           k \in {"edit", "list"} => todo = <<named>>
    PROVE  LandInv'
<1>1. \A q \in Requests \ {r} : Rests(q) /\ req'[q] = req[q]
  BY DEF Begun, Quiet, Rests, TypeOK
<1>2. Mine(r)'
  <2>1. req'[r] = [pc |-> "applying", kind |-> k, named |-> named, before |-> selection,
                   todo |-> todo, index |-> selection, wrote |-> FALSE,
                   after |-> "applying", text |-> NoFile]
        /\ selection' = selection
    BY DEF Begun, TypeOK
  <2>2. /\ req'[r].pc = "applying" /\ req'[r].kind = k /\ req'[r].named = named
        /\ req'[r].todo = todo /\ req'[r].before = selection
    BY <2>1
  <2>3. <<named>> # <<>>
    OBVIOUS
  <2>4. CASE k \in {"edit", "list"}
    <3>1. ~ Selects(r)' /\ req'[r].pc # "mounted"
      BY <2>2, <2>3, <2>4 DEF Selects, Storing
    <3> QED BY <2>1, <2>2, <2>4, <3>1 DEF Mine
  <2> QED BY <2>2, <2>4 DEF Mine
<1>3. Contents' \subseteq Contents
  BY BegunPoints DEF Contents, Begun
<1>4. \A q \in Requests : req[q].pc = "idle" \/ Keeps(q)
  <2>1. ASSUME NEW q \in Requests, q # r, req[q].pc # "idle" PROVE Keeps(q)
    BY <1>1, <2>1 DEF Keeps
  <2> QED BY <2>1 DEF Begun
<1> QED BY <1>1, <1>2, <1>3, <1>4, OnlyOne, ContentsKept DEF LandInv

\* While one request is in flight the others rest.
LEMMA AloneOthersRest ==
    ASSUME LandInv, NEW r \in Requests, ~ Rests(r)
    PROVE  \A q \in Requests \ {r} : Rests(q)
BY DEF LandInv, Alone

\* A step of one request in flight that records no content.
LEMMA StepLands ==
    ASSUME LandInv, NEW r \in Requests, ~ Rests(r), Mine(r)',
           Contents' \subseteq Contents, Keeps(r),
           \A q \in Requests \ {r} : req'[q] = req[q]
    PROVE  LandInv'
<1>1. \A q \in Requests \ {r} : Rests(q) /\ req'[q] = req[q]
  BY AloneOthersRest
<1>2. \A q \in Requests : req[q].pc = "idle" \/ Keeps(q)
  BY <1>1 DEF Keeps
<1> QED BY <1>1, <1>2, OnlyOne, ContentsKept DEF LandInv

\* Every step keeps the four parts, with requests one after another.
LEMMA LandStep ==
    ASSUME ~ Concurrent, TypeOK, LandInv, [Next]_vars
    PROVE  LandInv'
<1>1. ASSUME NEW r \in Requests, Arrival(r) PROVE LandInv'
  <2>1. CASE Edit(r)
    <3>1. PICK named \in Parts \cup {Unsaid, Beyond} : Begun(r, "edit", named, <<named>>)
      BY <2>1 DEF Edit
    <3>2. named \in Goals /\ <<named>> \in Seq(Goals) /\ "edit" \in AllKinds
      BY DEF Goals, Selected, AllKinds
    <3> QED BY <3>1, <3>2, BegunLands
  <2>2. CASE Delete(r)
    <3>1. PICK named \in Parts : Begun(r, "delete", named, <<>>)
      BY <2>2 DEF Delete
    <3>2. named \in Goals /\ <<>> \in Seq(Goals) /\ "delete" \in AllKinds
      BY DEF Goals, Selected, AllKinds
    <3> QED BY <3>1, <3>2, BegunLands
  <2>3. CASE List(r)
    <3>1. PICK named \in Selected \cup {Unsaid, Beyond} : Begun(r, "list", named, <<named>>)
      BY <2>3 DEF List
    <3>2. named \in Goals /\ <<named>> \in Seq(Goals) /\ "list" \in AllKinds
      BY DEF Goals, AllKinds
    <3> QED BY <3>1, <3>2, BegunLands
  <2>4. CASE Search(r)
    <3>1. SetToSeq(Parts) \in Seq(Goals) /\ selection \in Goals
      BY SearchOrder DEF Goals, Selected, TypeOK
    <3>2. Append(SetToSeq(Parts), selection) \in Seq(Goals)
      BY <3>1
    <3>3. Unsaid \in Goals /\ "search" \in AllKinds
      BY DEF Goals, AllKinds
    <3> QED BY <2>4, <3>2, <3>3, BegunLands DEF Search
  <2>5. CASE Undo(r)
    <3>1. \A q \in Requests \ {r} : Rests(q) /\ req'[q] = req[q]
      BY <2>5 DEF Undo, Quiet, Rests, TypeOK
    <3>2. Mine(r)'
      <4>1. req'[r].kind = "undo"
        BY <2>5 DEF Undo, TypeOK, Request
      <4> QED BY <4>1 DEF Mine
    <3>3. Contents' \subseteq Contents
      BY <2>5, LastOfPoints DEF Undo, Contents
    <3>4. \A q \in Requests : req[q].pc = "idle" \/ Keeps(q)
      BY <2>5, <3>1 DEF Undo, Keeps
    <3> QED BY <3>1, <3>2, <3>3, <3>4, OnlyOne, ContentsKept DEF LandInv
  <2> QED BY <1>1, <2>1, <2>2, <2>3, <2>4, <2>5 DEF Arrival
<1>2. ASSUME NEW r \in Requests, Selecting(r) PROVE LandInv'
  <2>1. /\ ~ Rests(r) /\ req[r] \in Request /\ Mine(r)
        /\ Contents' \subseteq Contents
        /\ \A q \in Requests \ {r} : req'[q] = req[q]
    BY <1>2 DEF Selecting, SkipSelection, SelectTable, Choose, ReadIndex, Describe,
                Applying, Rests, Ended, Contents, TypeOK, LandInv, MeansSelection
  <2>2. CASE Applying(r) /\ Goal(r) # Unsaid
    <3>1. req[r].kind \in {"edit", "list"} => Goal(r) = req[r].named /\ Tail(req[r].todo) = <<>>
      BY <2>1, <2>2, PendingGoal
    <3>2. CASE SelectTable(r) \/ Choose(r)
      <4>1. /\ selection' = Goal(r)
            /\ req'[r].todo = Tail(req[r].todo) /\ req'[r].pc \in {"storing", "describing"}
        BY <2>1, <2>2, <3>2 DEF SelectTable, Choose, Applying, TypeOK, Request
      <4>2. Keeps(r)
        BY <2>1, <2>2, <3>2 DEF SelectTable, Choose, Applying, Keeps, TypeOK, Request
      <4>3. Mine(r)'
        BY <2>2, <3>1, <4>1, <4>2 DEF Mine, Pending, Selects, Keeps, Meant
      <4> QED BY <2>1, <4>2, <4>3, StepLands
    <3> QED BY <1>2, <2>2, <3>2 DEF Selecting, SkipSelection, ReadIndex, Describe, Applying
  <2>3. CASE SkipSelection(r)
    <3>1. /\ selection' = selection
          /\ req'[r].todo = Tail(req[r].todo) /\ req'[r].pc = "applying"
      BY <2>1, <2>3 DEF SkipSelection, Applying, TypeOK, Request
    <3>2. req[r].kind \in {"edit", "list"} =>
              req[r].named = Unsaid /\ Tail(req[r].todo) = <<>> /\ selection = req[r].before
      BY <2>1, <2>3, PendingGoal DEF SkipSelection
    <3>3. Keeps(r)
      BY <2>1, <2>3 DEF SkipSelection, Applying, Keeps, TypeOK, Request
    <3>4. Mine(r)'
      BY <3>1, <3>2, <3>3 DEF Mine, Pending, Selects, Keeps, Meant
    <3> QED BY <2>1, <3>3, <3>4, StepLands
  <2>4. CASE ReadIndex(r) \/ Describe(r)
    <3>1. /\ req[r].pc \in {"describing", "reading"}
          /\ selection' = selection /\ req'[r].todo = req[r].todo
          /\ req'[r].wrote = req[r].wrote
          /\ \/ req'[r].pc = "reading"
             \/ req'[r].pc = "marked"
             \/ req'[r].pc = "storing" /\ ~ req[r].wrote
      BY <2>1, <2>4 DEF ReadIndex, Describe, TypeOK, Request
    <3>2. Keeps(r)
      BY <2>1, <2>4, <3>1 DEF ReadIndex, Describe, Keeps, TypeOK, Request
    <3>3. Mine(r)'
      BY <2>1, <3>1, <3>2 DEF Mine, Pending, Selects, Storing, Keeps, Meant
    <3> QED BY <2>1, <3>2, <3>3, StepLands
  <2>5. SelectTable(r) \/ Choose(r) => Applying(r) /\ Goal(r) # Unsaid
    BY NoPartAssumption DEF SelectTable, Choose
  <2> QED BY <1>2, <2>2, <2>3, <2>4, <2>5 DEF Selecting
<1>3. ASSUME NEW r \in Requests, Persisting(r) PROVE LandInv'
  <2>1. /\ ~ Rests(r) /\ req[r] \in Request /\ Mine(r) /\ req[r].pc \in Storing
        /\ Contents' \subseteq Contents /\ selection' = selection
        /\ \A q \in Requests \ {r} : req'[q] = req[q]
    BY <1>3 DEF Persisting, MakeText, WriteTemporary, ReplaceStored, Storing,
                Rests, Ended, Contents, TypeOK, LandInv, MeansSelection
  <2>2. /\ req'[r].kind = req[r].kind /\ req'[r].named = req[r].named
        /\ req'[r].before = req[r].before /\ req'[r].todo = req[r].todo
        /\ req'[r].after = req[r].after
        /\ \/ req'[r].pc \in Storing
           \/ req'[r].pc = req[r].after
           \/ req'[r].pc \in {"broken", "ok", "failed"}
    <3>1. CASE MakeText(r)
      BY <2>1, <3>1 DEF MakeText, Storing, TypeOK, Request
    <3>2. CASE WriteTemporary(r)
      BY <2>1, <3>2 DEF WriteTemporary, Storing, TypeOK, Request
    <3>3. CASE ReplaceStored(r)
      BY <2>1, <3>3 DEF ReplaceStored, NotStored, Afters, TypeOK, Request
    <3> QED BY <1>3, <3>1, <3>2, <3>3 DEF Persisting
  <2>3. req[r].after \in {"applying", "ok", "dropping"}
    BY <2>1 DEF Request, Afters
  <2>4. Keeps(r)
    BY <2>1, <2>2, <2>3 DEF Keeps, Storing
  <2>5. Mine(r)'
    BY <2>1, <2>2, <2>3 DEF Mine, Pending, Selects, Storing, Meant
  <2> QED BY <2>1, <2>4, <2>5, StepLands
<1>4. ASSUME NEW r \in Requests, Working(r) PROVE LandInv'
  <2>1. /\ ~ Rests(r) /\ req[r] \in Request /\ Mine(r)
        /\ \A q \in Requests \ {r} : req'[q] = req[q]
    BY <1>4 DEF Working, Mount, Write, Finish, Answer, Fail, Drop, FailListing,
                InterruptSearch, Ready, Rests, Ended, TypeOK, LandInv, MeansSelection
  <2>2. CASE Mount(r)
    <3>1. /\ req[r].pc = "applying" /\ req[r].todo = <<>>
          /\ req'[r].pc = "mounted" /\ req'[r].index = selection
      BY <2>1, <2>2 DEF Mount, Ready, TypeOK, Request
    <3>2. Keeps(r) /\ Contents' \subseteq Contents
      BY <2>1, <2>2, <3>1 DEF Mount, Keeps, Contents, TypeOK, Request
    <3>3. Mine(r)'
      BY <2>1, <3>1, <3>2 DEF Mine, Pending, Selects, Storing, Keeps, Meant
    <3> QED BY <2>1, <3>2, <3>3, StepLands
  <2>3. CASE Write(r)
    <3>1. /\ req[r].pc = "mounted"
          /\ req'[r].pc = "describing" /\ req'[r].wrote
          /\ volume' = [volume EXCEPT ![req[r].index] = @ \cup {r}] /\ points' = points
      BY <2>1, <2>3 DEF Write, TypeOK, Request
    <3>2. Keeps(r)
      BY <2>1, <2>3, <3>1 DEF Write, Keeps, TypeOK, Request
    <3>3. Mine(r)'
      BY <3>1, <3>2 DEF Mine, Pending, Selects, Storing
    <3>4. \A q \in Requests \ {r} : Rests(q) /\ req'[q] = req[q]
      BY <2>1, AloneOthersRest
    <3>5. \A q \in Requests : req[q].pc = "idle" \/ Keeps(q)
      BY <3>2, <3>4 DEF Keeps
    <3>6. \A v \in Contents : LandedIn(v)' /\ ArrivedIn(v)'
      BY <3>5, ContentKept DEF LandInv
    <3>7. \A q \in Requests, p \in Parts :
             q \in volume'[p] => q \in volume[p] \/ (q = r /\ p = req[r].index)
      BY <3>1 DEF TypeOK
    <3>8. req'[r].kind = "edit" => req[r].index = Meant(r)'
      BY <2>1, <3>1, <3>2 DEF Mine, Keeps, Meant
    <3>9. LandedIn(volume)' /\ ArrivedIn(volume)'
      BY <3>1, <3>6, <3>7, <3>8 DEF LandedIn, ArrivedIn, Contents
    <3>10. Held(points)' = Held(points)
      BY <3>1 DEF Held
    <3>11. Landed' /\ Arrived'
      BY <3>6, <3>9, <3>10 DEF Landed, Arrived, Contents, LandedIn, ArrivedIn
    <3> QED BY <3>3, <3>4, <3>11, OnlyOne DEF LandInv
  <2>4. CASE ~ Mount(r) /\ ~ Write(r)
    <3>1. Contents' \subseteq Contents
      BY <1>4, <2>4, OwnIsPoint, FrontOfPoints DEF Working, Finish, Answer, Fail, Drop,
                                    FailListing, InterruptSearch, Contents
    <3>2. /\ req'[r].kind = req[r].kind /\ req'[r].named = req[r].named
          /\ req'[r].before = req[r].before
          /\ \/ req'[r].pc \in Ended
             \/ req'[r].pc \in Storing /\ req'[r].after # "applying"
             \/ req'[r].pc = "applying" /\ req[r].kind = "search"
      <4>1. CASE Finish(r) \/ Fail(r)
        BY <2>1, <4>1 DEF Finish, Fail, Storing, Ended, TypeOK, Request
      <4>2. CASE Answer(r) \/ Drop(r) \/ FailListing(r)
        BY <2>1, <4>2 DEF Answer, Drop, FailListing, Ended, TypeOK, Request
      <4>3. CASE InterruptSearch(r)
        BY <2>1, <4>3 DEF InterruptSearch, TypeOK, Request
      <4> QED BY <1>4, <2>4, <4>1, <4>2, <4>3 DEF Working
    <3>3. Keeps(r)
      BY <2>1, <3>2 DEF Keeps, Rests, Ended, Storing
    <3>4. Mine(r)'
      BY <3>2 DEF Mine, Ended, Pending, Selects, Storing
    <3> QED BY <2>1, <3>1, <3>3, <3>4, StepLands
  <2> QED BY <2>2, <2>3, <2>4
<1>5. CASE NoMoreRequests \/ UNCHANGED vars
  BY <1>5 DEF NoMoreRequests, vars, LandInv, Alone, MeansSelection, Mine, Landed, Arrived,
              Contents, Held, LandedIn, ArrivedIn, Meant, Rests, Pending, Selects
<1> QED BY <1>1, <1>2, <1>3, <1>4, <1>5 DEF Next

\* The invariant of the section.
LEMMA LandInvariant == ASSUME ~ Concurrent PROVE Spec => [](TypeOK /\ LandInv)
<1>1. Init => LandInv
  <2> SUFFICES ASSUME Init PROVE LandInv
    OBVIOUS
  <2>1. Contents = {[p \in Parts |-> {}]}
    BY DEF Init, Contents, Held
  <2> QED BY <2>1 DEF Init, LandInv, Alone, MeansSelection, Mine, Landed, Arrived,
                      LandedIn, ArrivedIn, Rests
<1>2. TypeOK /\ LandInv /\ [Next]_vars => LandInv'
  BY LandStep
<1> QED BY <1>1, <1>2, TypeCorrect, PTL DEF Spec

\* Requests one after another, whatever they are and however they end: an edit
\* changes no partition but the one its request means.
THEOREM EditsLand == ASSUME ~ Concurrent PROVE Spec => EditsLandWhereMeant
<1>1. ASSUME TypeOK, LandInv, [Next]_vars, NEW r \in Requests, NEW p \in Parts,
             r \in volume'[p] \ volume[p], req[r].kind = "edit"
      PROVE  p = Meant(r)
  <2>1. CASE \E q \in Requests : Write(q)
    <3>1. PICK q \in Requests : Write(q)
      BY <2>1
    <3>2. r = q /\ p = req[q].index /\ req[q].pc = "mounted"
      BY <1>1, <3>1 DEF Write, TypeOK
    <3> QED BY <1>1, <3>2 DEF LandInv, MeansSelection, Mine
  <2>2. CASE ~ \E q \in Requests : Write(q)
    <3>1. volume' \in Contents
      <4>1. ASSUME NEW q \in Requests, Arrival(q) PROVE volume' \in Contents
        BY <1>1, <4>1, LastOfPoints DEF Arrival, Edit, Delete, List, Search, Begun, Undo, Contents
      <4>2. ASSUME NEW q \in Requests, Selecting(q) PROVE volume' \in Contents
        BY <4>2 DEF Selecting, SkipSelection, SelectTable, Choose, ReadIndex, Describe, Contents
      <4>3. ASSUME NEW q \in Requests, Working(q) PROVE volume' \in Contents
        BY <1>1, <2>2, <4>3, OwnIsPoint DEF Working, Mount, Finish, Answer, Fail, Drop,
                                       FailListing, InterruptSearch, Contents
      <4>4. ASSUME NEW q \in Requests, Persisting(q) PROVE volume' \in Contents
        BY <4>4 DEF Persisting, MakeText, WriteTemporary, ReplaceStored, Contents
      <4>5. CASE NoMoreRequests \/ UNCHANGED vars
        BY <4>5 DEF NoMoreRequests, vars, Contents
      <4> QED BY <1>1, <4>1, <4>2, <4>3, <4>4, <4>5 DEF Next
    <3> QED BY <1>1, <3>1 DEF LandInv, Landed, LandedIn
  <2> QED BY <2>1, <2>2
<1>2. TypeOK /\ LandInv /\ [Next]_vars =>
         [\A r \in Requests, p \in Parts :
             r \in volume'[p] \ volume[p] /\ req[r].kind = "edit" => p = Meant(r)]_vars
  BY <1>1
<1> QED BY <1>2, LandInvariant, PTL DEF Spec, EditsLandWhereMeant
-----------------------------------------------------------------------------
(***************************************************************************)
(* A request that may still have to go back has its checkpoint.            *)
(***************************************************************************)

\* With requests one after another a step is one of a request, and the others
\* rest and stay as they are.
LEMMA SoleMover ==
    ASSUME ~ Concurrent, TypeOK, LandInv, NEW r \in Requests,
           Arrival(r) \/ Selecting(r) \/ Persisting(r) \/ Working(r)
    PROVE  \A q \in Requests \ {r} : Rests(q) /\ req'[q] = req[q]
<1>1. CASE Arrival(r)
  <2>1. Quiet /\ \A q \in Requests \ {r} : req'[q] = req[q]
    BY <1>1 DEF Arrival, Edit, Delete, List, Search, Begun, Undo, TypeOK
  <2> QED BY <2>1 DEF Quiet, Rests
<1>2. CASE Selecting(r) \/ Persisting(r) \/ Working(r)
  <2>1. ~ Rests(r)
    BY <1>2 DEF Selecting, SkipSelection, SelectTable, Choose, ReadIndex, Describe, Applying,
                Persisting, MakeText, WriteTemporary, ReplaceStored, Working, Mount, Write,
                Finish, Answer, Fail, Drop, FailListing, InterruptSearch, Ready, Rests, Ended
  <2>2. \A q \in Requests \ {r} : req'[q] = req[q]
    <3>1. CASE Selecting(r)
      BY <3>1 DEF Selecting, SkipSelection, SelectTable, Choose, ReadIndex, Describe, TypeOK
    <3>2. CASE Persisting(r)
      BY <3>2 DEF Persisting, MakeText, WriteTemporary, ReplaceStored, TypeOK
    <3>3. CASE Working(r)
      BY <3>3 DEF Working, Mount, Write, Finish, Answer, Fail, Drop, FailListing,
                  InterruptSearch, TypeOK
    <3> QED BY <1>2, <3>1, <3>2, <3>3
  <2> QED BY <2>1, <2>2, AloneOthersRest
<1> QED BY <1>1, <1>2

BeforeWork == {"applying", "describing", "reading", "mounted", "marked", "broken"}
MayGoBack(r) ==
    /\ req[r].kind \in Wrapped
    /\ req[r].pc \in BeforeWork \/ (req[r].pc \in Storing /\ req[r].after = "applying")
HasWayBack == \A r \in Requests : MayGoBack(r) => HasOwn(r)

\* Who rests has nothing to go back from.
LEMMA RestingStays ==
    ASSUME NEW r \in Requests, Rests(r) PROVE ~ MayGoBack(r)
BY DEF Rests, Ended, MayGoBack, BeforeWork, Storing

\* A step after which only its own request may have to go back.
LEMMA OnlyOwnWay ==
    ASSUME NEW r \in Requests, \A q \in Requests \ {r} : Rests(q) /\ req'[q] = req[q],
           MayGoBack(r)' => HasOwn(r)'
    PROVE  HasWayBack'
<1>1. \A q \in Requests \ {r} : ~ MayGoBack(q)'
  BY DEF Rests, Ended, MayGoBack, BeforeWork, Storing
<1> QED BY <1>1 DEF HasWayBack

\* Every step keeps it.
LEMMA WayStep ==
    ASSUME ~ Concurrent, TypeOK, LandInv, HasWayBack, [Next]_vars
    PROVE  HasWayBack'
<1>1. ASSUME NEW r \in Requests, Edit(r) \/ Delete(r) \/ List(r) \/ Search(r)
      PROVE  HasWayBack'
  <2>1. \A q \in Requests \ {r} : Rests(q) /\ req'[q] = req[q]
    BY <1>1, SoleMover DEF Arrival
  <2>2. PICK k, named, todo : Begun(r, k, named, todo)
    BY <1>1 DEF Edit, Delete, List, Search
  <2>3. req'[r].kind = k
    BY <2>2 DEF Begun, TypeOK
  <2>4. k \in Wrapped => HasOwn(r)'
    <3> SUFFICES ASSUME k \in Wrapped PROVE HasOwn(r)'
      OBVIOUS
    <3> DEFINE new == [owner |-> r, volume |-> volume, selection |-> selection]
    <3>1. points' = Append(points, new) /\ points \in Seq(Point) /\ new \in Point
          /\ new.owner = r
      BY <2>2 DEF Begun, TypeOK, Point
    <3> HIDE DEF new
    <3>2. Len(points) + 1 \in 1 .. Len(points') /\ points'[Len(points) + 1] = new
      BY <3>1
    <3> QED BY <3>1, <3>2 DEF HasOwn
  <2>5. MayGoBack(r)' => HasOwn(r)'
    BY <2>3, <2>4 DEF MayGoBack
  <2> QED BY <2>1, <2>5, OnlyOwnWay
<1>2. ASSUME NEW r \in Requests, Undo(r) PROVE HasWayBack'
  <2>1. \A q \in Requests \ {r} : Rests(q) /\ req'[q] = req[q]
    BY <1>2, SoleMover DEF Arrival
  <2>2. req'[r].kind = "undo"
    BY <1>2 DEF Undo, TypeOK, Request
  <2>3. ~ MayGoBack(r)'
    BY <2>2 DEF MayGoBack, Wrapped
  <2> QED BY <2>1, <2>3, OnlyOwnWay
<1>3. ASSUME NEW r \in Requests, points' = points,
             Selecting(r) \/ Persisting(r) \/ Mount(r) \/ Write(r),
             MayGoBack(r)' => MayGoBack(r)
      PROVE  HasWayBack'
  <2>1. \A q \in Requests \ {r} : Rests(q) /\ req'[q] = req[q]
    BY <1>3, SoleMover DEF Working
  <2>2. MayGoBack(r)' => HasOwn(r)'
    BY <1>3 DEF HasWayBack, HasOwn
  <2> QED BY <2>1, <2>2, OnlyOwnWay
<1>4. ASSUME NEW r \in Requests, Selecting(r) PROVE HasWayBack'
  <2>1. /\ points' = points /\ req'[r].kind = req[r].kind
        /\ req[r].pc \in {"applying", "describing", "reading"}
    <3>1. CASE SkipSelection(r)
      BY <3>1 DEF SkipSelection, Applying, TypeOK, Request
    <3>2. CASE SelectTable(r)
      BY <3>2 DEF SelectTable, Applying, TypeOK, Request
    <3>3. CASE Choose(r)
      BY <3>3 DEF Choose, Applying, TypeOK, Request
    <3>4. CASE ReadIndex(r)
      BY <3>4 DEF ReadIndex, TypeOK, Request
    <3>5. CASE Describe(r)
      BY <3>5 DEF Describe, TypeOK, Request
    <3> QED BY <1>4, <3>1, <3>2, <3>3, <3>4, <3>5 DEF Selecting
  <2>2. MayGoBack(r)' => MayGoBack(r)
    BY <2>1 DEF MayGoBack, BeforeWork
  <2> QED BY <1>3, <1>4, <2>1, <2>2
<1>5. ASSUME NEW r \in Requests, Persisting(r) PROVE HasWayBack'
  <2>1. /\ points' = points /\ req'[r].kind = req[r].kind /\ req'[r].after = req[r].after
        /\ req[r].pc \in Storing
        /\ req'[r].pc \in BeforeWork \cup Storing => req[r].after = "applying" \/
               (req'[r].pc \in Storing /\ req'[r].after # "applying")
    <3>1. CASE MakeText(r)
      BY <3>1 DEF MakeText, Storing, BeforeWork, TypeOK, Request
    <3>2. CASE WriteTemporary(r)
      BY <3>2 DEF WriteTemporary, Storing, BeforeWork, TypeOK, Request
    <3>3. CASE ReplaceStored(r)
      <4>1. /\ req'[r] = [req[r] EXCEPT !.pc = IF temporary = NoFile
                                              THEN NotStored[req[r].after] ELSE req[r].after]
            /\ req[r] \in Request /\ req[r].after \in Afters
        BY <3>3 DEF ReplaceStored, TypeOK, Request
      <4>2. req'[r].pc \in {NotStored[req[r].after], req[r].after}
        BY <4>1 DEF Request
      <4>3. req[r].after # "applying" => req'[r].pc \in {"ok", "failed", "dropping"}
        BY <4>1, <4>2 DEF NotStored, Afters
      <4> QED BY <3>3, <4>1, <4>3 DEF ReplaceStored, Storing, BeforeWork, Request
    <3> QED BY <1>5, <3>1, <3>2, <3>3 DEF Persisting
  <2>2. MayGoBack(r)' => MayGoBack(r)
    BY <2>1 DEF MayGoBack, BeforeWork, Storing
  <2> QED BY <1>3, <1>5, <2>1, <2>2
<1>6. ASSUME NEW r \in Requests, Mount(r) \/ Write(r) PROVE HasWayBack'
  <2>1. /\ points' = points /\ req'[r].kind = req[r].kind
        /\ req[r].pc \in {"applying", "mounted"}
    <3>1. CASE Mount(r)
      BY <3>1 DEF Mount, Ready, TypeOK, Request
    <3>2. CASE Write(r)
      BY <3>2 DEF Write, TypeOK, Request
    <3> QED BY <1>6, <3>1, <3>2
  <2>2. MayGoBack(r)' => MayGoBack(r)
    BY <2>1 DEF MayGoBack, BeforeWork
  <2> QED BY <1>3, <1>6, <2>1, <2>2
<1>7. ASSUME NEW r \in Requests,
             Finish(r) \/ Answer(r) \/ Fail(r) \/ Drop(r) \/ FailListing(r)
             \/ InterruptSearch(r)
      PROVE  HasWayBack'
  <2>1. \A q \in Requests \ {r} : Rests(q) /\ req'[q] = req[q]
    BY <1>7, SoleMover DEF Working
  <2>2. \/ req'[r].pc \in Ended
        \/ req'[r].pc \in Storing /\ req'[r].after # "applying"
        \/ req'[r].kind \notin Wrapped
    <3>1. CASE Finish(r) \/ Fail(r)
      BY <3>1 DEF Finish, Fail, Storing, Ended, TypeOK, Request
    <3>2. CASE Answer(r) \/ Drop(r) \/ FailListing(r)
      BY <3>2 DEF Answer, Drop, FailListing, Ended, TypeOK, Request
    <3>3. CASE InterruptSearch(r)
      BY <3>3 DEF InterruptSearch, Wrapped, TypeOK, Request
    <3> QED BY <1>7, <3>1, <3>2, <3>3
  <2>3. ~ MayGoBack(r)'
    BY <2>2 DEF MayGoBack, BeforeWork, Storing, Ended
  <2> QED BY <2>1, <2>3, OnlyOwnWay
<1>8. CASE NoMoreRequests \/ UNCHANGED vars
  BY <1>8 DEF NoMoreRequests, vars, HasWayBack, MayGoBack, HasOwn
<1> QED BY <1>1, <1>2, <1>4, <1>5, <1>6, <1>7, <1>8 DEF Next, Arrival, Working
-----------------------------------------------------------------------------
(***************************************************************************)
(* What session.json holds.  Selecting, finishing and going back store the *)
(* session as the last thing they do.  With requests one after another the *)
(* text and the temporary file hold the session as it is until the file is *)
(* renamed, and nobody takes the temporary file away.                      *)
(***************************************************************************)
Unsettled == {"describing", "reading", "marked"} \cup Storing

SettledIsStored == (\A r \in Requests : req[r].pc \notin Unsettled) => stored = Current

OnItsWay(r) ==
    /\ req[r].pc = "writing" => req[r].text = Current
    /\ req[r].pc = "replacing" => temporary = Current
    /\ req[r].pc # "broken"

StoreInv == SettledIsStored /\ \A r \in Requests : OnItsWay(r)

\* The session is the same when selection, capabilities and volumes are.
LEMMA CurrentSame == UNCHANGED <<selection, caps, volume>> => Current' = Current
BY DEF Current, Dirty

\* A step of the only request in flight has to be looked at for that one.
LEMMA OnlyOneStores ==
    ASSUME NEW r \in Requests, \A q \in Requests \ {r} : Rests(q) /\ req'[q] = req[q],
           SettledIsStored', OnItsWay(r)'
    PROVE  StoreInv'
<1>1. \A q \in Requests \ {r} : OnItsWay(q)'
  BY DEF Rests, Ended, OnItsWay
<1> QED BY <1>1 DEF StoreInv

\* A step that leaves file and session alone and ends no unsettled request.
LEMMA SettledStays ==
    ASSUME SettledIsStored, NEW r \in Requests, req[r].pc \notin Unsettled,
           \A q \in Requests \ {r} : req'[q] = req[q],
           UNCHANGED <<selection, caps, volume, stored>>
    PROVE  SettledIsStored'
<1> SUFFICES ASSUME \A q \in Requests : req'[q].pc \notin Unsettled PROVE stored' = Current'
  BY DEF SettledIsStored
<1>1. \A q \in Requests : req[q].pc \notin Unsettled
  OBVIOUS
<1> QED BY <1>1, CurrentSame DEF SettledIsStored

\* Every step keeps it.
LEMMA StoreStep ==
    ASSUME ~ Concurrent, TypeOK, LandInv, HasWayBack, StoreInv, [Next]_vars
    PROVE  StoreInv'
<1>1. ASSUME NEW r \in Requests,
             \/ Edit(r) \/ Delete(r) \/ List(r) \/ Search(r)
             \/ SkipSelection(r) \/ Mount(r) \/ Answer(r) \/ Drop(r) \/ FailListing(r)
             \/ InterruptSearch(r)
      PROVE  StoreInv'
  <2>1. \A q \in Requests \ {r} : Rests(q) /\ req'[q] = req[q]
    BY <1>1, SoleMover DEF Arrival, Selecting, Working
  <2>2. /\ req[r].pc \in {"idle", "applying", "mounted", "dropping"}
        /\ req'[r].pc \in {"applying", "mounted", "ok", "failed"}
        /\ UNCHANGED <<selection, caps, volume, stored>>
    <3>1. CASE Edit(r) \/ Delete(r) \/ List(r) \/ Search(r)
      BY <3>1 DEF Edit, Delete, List, Search, Begun, files, TypeOK
    <3>2. CASE SkipSelection(r)
      BY <3>2 DEF SkipSelection, Applying, files, TypeOK, Request
    <3>3. CASE Mount(r)
      BY <3>3 DEF Mount, Ready, files, TypeOK, Request
    <3>4. CASE Answer(r)
      BY <3>4 DEF Answer, Ready, files, TypeOK, Request
    <3>5. CASE Drop(r)
      BY <3>5 DEF Drop, files, TypeOK, Request
    <3>6. CASE FailListing(r) \/ InterruptSearch(r)
      <4>1. req[r].pc # "broken"
        BY DEF StoreInv, OnItsWay
      <4> QED BY <3>6, <4>1 DEF FailListing, InterruptSearch, files, TypeOK, Request
    <3> QED BY <1>1, <3>1, <3>2, <3>3, <3>4, <3>5, <3>6
  <2>3. req[r].pc \notin Unsettled /\ OnItsWay(r)'
    BY <2>2 DEF Unsettled, Storing, OnItsWay
  <2>4. SettledIsStored'
    BY <2>1, <2>2, <2>3, SettledStays DEF StoreInv
  <2> QED BY <2>1, <2>3, <2>4, OnlyOneStores
<1>2. ASSUME NEW r \in Requests,
             \/ SelectTable(r) \/ Choose(r) \/ ReadIndex(r) \/ Describe(r) \/ Write(r)
             \/ Finish(r) \/ Fail(r) \/ Undo(r)
      PROVE  StoreInv'
  <2>1. \A q \in Requests \ {r} : Rests(q) /\ req'[q] = req[q]
    BY <1>2, SoleMover DEF Arrival, Selecting, Working
  <2>2. req'[r].pc \in {"describing", "reading", "marked", "storing"}
    <3>1. CASE SelectTable(r) \/ Choose(r)
      BY <3>1 DEF SelectTable, Choose, TypeOK, Request
    <3>2. CASE ReadIndex(r) \/ Write(r)
      BY <3>2 DEF ReadIndex, Write, TypeOK, Request
    <3>3. CASE Describe(r) \/ Finish(r)
      BY <3>3 DEF Describe, Finish, TypeOK, Request
    <3>4. CASE Fail(r)
      <4>1. HasOwn(r)
        BY <3>4 DEF Fail, HasWayBack, MayGoBack, BeforeWork
      <4> QED BY <3>4, <4>1 DEF Fail, TypeOK, Request
    <3>5. CASE Undo(r)
      BY <3>5 DEF Undo, TypeOK, Request
    <3> QED BY <1>2, <3>1, <3>2, <3>3, <3>4, <3>5
  <2>3. SettledIsStored' /\ OnItsWay(r)'
    BY <2>2 DEF SettledIsStored, Unsettled, Storing, OnItsWay
  <2> QED BY <2>1, <2>3, OnlyOneStores
<1>3. ASSUME NEW r \in Requests, Persisting(r) PROVE StoreInv'
  <2>1. \A q \in Requests \ {r} : Rests(q) /\ req'[q] = req[q]
    BY <1>3, SoleMover
  <2>2. Current' = Current
    BY <1>3, CurrentSame DEF Persisting, MakeText, WriteTemporary, ReplaceStored
  <2>3. CASE MakeText(r)
    <3>1. req'[r].pc = "writing" /\ req'[r].text = Current
      BY <2>3 DEF MakeText, TypeOK, Request
    <3>2. SettledIsStored' /\ OnItsWay(r)'
      BY <2>2, <3>1 DEF SettledIsStored, Unsettled, Storing, OnItsWay
    <3> QED BY <2>1, <3>2, OnlyOneStores
  <2>4. CASE WriteTemporary(r)
    <3>1. req'[r].pc = "replacing" /\ temporary' = req[r].text /\ req[r].text = Current
      BY <2>4 DEF WriteTemporary, StoreInv, OnItsWay, TypeOK, Request
    <3>2. SettledIsStored' /\ OnItsWay(r)'
      BY <2>2, <3>1 DEF SettledIsStored, Unsettled, Storing, OnItsWay
    <3> QED BY <2>1, <3>2, OnlyOneStores
  <2>5. CASE ReplaceStored(r)
    <3>1. temporary = Current
      BY <2>5 DEF ReplaceStored, StoreInv, OnItsWay
    <3>2. temporary # NoFile
      BY <3>1, CurrentType, NoFileAssumption DEF Stored, Selected
    <3>3. stored' = Current /\ req'[r].pc = req[r].after /\ req[r].after \in Afters
      BY <2>5, <3>1, <3>2 DEF ReplaceStored, TypeOK, Request
    <3>4. SettledIsStored' /\ OnItsWay(r)'
      BY <2>2, <3>3 DEF SettledIsStored, Afters, OnItsWay
    <3> QED BY <2>1, <3>4, OnlyOneStores
  <2> QED BY <1>3, <2>3, <2>4, <2>5 DEF Persisting
<1>4. CASE NoMoreRequests \/ UNCHANGED vars
  <2>1. UNCHANGED vars /\ Current' = Current
    BY <1>4, CurrentSame DEF NoMoreRequests, vars
  <2> QED BY <2>1 DEF vars, StoreInv, SettledIsStored, OnItsWay
<1> QED BY <1>1, <1>2, <1>3, <1>4 DEF Next, Arrival, Selecting, Working

\* Requests one after another, however they end: when none is in flight, a
\* restart finds the selection, the capabilities and the unsaved edits as they
\* were (_persist_session() at the end of a selection, of the finaliser of the
\* middleware and of an undo).
THEOREM SelectionIsStored == ASSUME ~ Concurrent PROVE Spec => []StoredIsCurrent
<1>1. Init => HasWayBack /\ StoreInv
  <2> SUFFICES ASSUME Init PROVE HasWayBack /\ StoreInv
    OBVIOUS
  <2>1. \A r \in Requests : req[r].kind = "none" /\ req[r].pc = "idle"
    BY DEF Init
  <2> QED BY <2>1 DEF Init, HasWayBack, MayGoBack, Wrapped, StoreInv, SettledIsStored, OnItsWay
<1>2. TypeOK /\ StoreInv => StoredIsCurrent
  BY DEF StoreInv, SettledIsStored, StoredIsCurrent, Quiet, Ended, Unsettled, Storing
<1>3. TypeOK /\ LandInv /\ HasWayBack /\ [Next]_vars => HasWayBack'
  BY WayStep
<1>4. TypeOK /\ LandInv /\ HasWayBack /\ StoreInv /\ [Next]_vars => StoreInv'
  BY StoreStep
<1> QED BY <1>1, <1>2, <1>3, <1>4, LandInvariant, PTL DEF Spec
-----------------------------------------------------------------------------
(***************************************************************************)
(* Every checkpoint belongs to a request that has arrived, and holds the   *)
(* selection that the request found.                                       *)
(***************************************************************************)
OwnersArrived ==
    \A pt \in Elements(points) :
        req[pt.owner].pc # "idle" /\ pt.selection = req[pt.owner].before

\* Whoever arrived stays so, and remembers the selection it found.
LEMMA BeforeKept ==
    ASSUME TypeOK, [Next]_vars
    PROVE  \A q \in Requests : req[q].pc # "idle" =>
               req'[q].pc # "idle" /\ req'[q].before = req[q].before
<1> SUFFICES ASSUME NEW q \in Requests, req[q].pc # "idle"
             PROVE  req'[q].pc # "idle" /\ req'[q].before = req[q].before
  OBVIOUS
<1> DEFINE Same == req'[q].pc # "idle" /\ req'[q].before = req[q].before
<1>1. ASSUME NEW r \in Requests, Arrival(r) PROVE Same
  BY <1>1 DEF Arrival, Edit, Delete, List, Search, Begun, Undo, TypeOK
<1>2. ASSUME NEW r \in Requests, Selecting(r) PROVE Same
  <2>1. CASE SkipSelection(r)
    BY <2>1 DEF SkipSelection, TypeOK, Request
  <2>2. CASE SelectTable(r)
    BY <2>2 DEF SelectTable, TypeOK, Request
  <2>3. CASE Choose(r)
    BY <2>3 DEF Choose, TypeOK, Request
  <2>4. CASE ReadIndex(r)
    BY <2>4 DEF ReadIndex, TypeOK, Request
  <2>5. CASE Describe(r)
    BY <2>5 DEF Describe, TypeOK, Request
  <2> QED BY <1>2, <2>1, <2>2, <2>3, <2>4, <2>5 DEF Selecting
<1>3. ASSUME NEW r \in Requests, Persisting(r) PROVE Same
  <2>1. CASE MakeText(r)
    BY <2>1 DEF MakeText, TypeOK, Request
  <2>2. CASE WriteTemporary(r)
    BY <2>2 DEF WriteTemporary, TypeOK, Request
  <2>3. CASE ReplaceStored(r)
    <3>1. req[r].after # "idle" /\ NotStored[req[r].after] # "idle"
      BY DEF TypeOK, Request, Afters, NotStored
    <3> QED BY <2>3, <3>1 DEF ReplaceStored, TypeOK, Request
  <2> QED BY <1>3, <2>1, <2>2, <2>3 DEF Persisting
<1>4. ASSUME NEW r \in Requests, Working(r) PROVE Same
  <2>1. CASE Mount(r)
    BY <2>1 DEF Mount, TypeOK, Request
  <2>2. CASE Write(r)
    BY <2>2 DEF Write, TypeOK, Request
  <2>3. CASE Finish(r)
    BY <2>3 DEF Finish, TypeOK, Request
  <2>4. CASE Answer(r) \/ Drop(r)
    <3>1. PICK pc \in {"ok", "failed"} : req' = [req EXCEPT ![r].pc = pc]
      BY <2>4 DEF Answer, Drop
    <3> QED BY <3>1 DEF TypeOK, Request
  <2>5. CASE Fail(r)
    BY <2>5 DEF Fail, TypeOK, Request
  <2>6. CASE InterruptSearch(r)
    BY <2>6 DEF InterruptSearch, TypeOK, Request
  <2>7. CASE FailListing(r)
    BY <2>7 DEF FailListing, TypeOK, Request
  <2> QED BY <1>4, <2>1, <2>2, <2>3, <2>4, <2>5, <2>6, <2>7 DEF Working
<1>5. CASE NoMoreRequests \/ UNCHANGED vars
  BY <1>5 DEF NoMoreRequests, vars
<1> QED BY <1>1, <1>2, <1>3, <1>4, <1>5 DEF Next

\* A sequence of some of the points has no other elements.
LEMMA FewerPoints ==
    ASSUME NEW ps \in Seq(Elements(points)) PROVE Elements(ps) \subseteq Elements(points)
BY DEF Elements

\* Every step keeps it.
LEMMA OwnersStep == TypeOK /\ OwnersArrived /\ [Next]_vars => OwnersArrived'
<1> SUFFICES ASSUME TypeOK, OwnersArrived, [Next]_vars PROVE OwnersArrived'
  OBVIOUS
<1>a. points \in Seq(Point) /\ \A pt \in Elements(points) : pt \in Point
  BY DEF TypeOK, Elements
<1>b. \A pt \in Elements(points) :
          req'[pt.owner].pc # "idle" /\ pt.selection = req'[pt.owner].before
  BY <1>a, BeforeKept DEF OwnersArrived, Point
<1>c. Elements(points') \subseteq Elements(points) => OwnersArrived'
  BY <1>b DEF OwnersArrived
<1>1. ASSUME NEW r \in Requests, Edit(r) \/ Delete(r) \/ List(r) \/ Search(r)
      PROVE  OwnersArrived'
  <2> DEFINE new == [owner |-> r, volume |-> volume, selection |-> selection]
  <2>1. /\ points' \in {points, Append(points, new)}
        /\ req'[r].pc = "applying" /\ req'[r].before = selection
    BY <1>1 DEF Edit, Delete, List, Search, Begun, TypeOK
  <2>2. new \in Point /\ new.owner = r /\ new.selection = selection
    BY DEF Point, TypeOK
  <2> HIDE DEF new
  <2>3. Elements(Append(points, new)) \subseteq Elements(points) \cup {new}
    BY <1>a, <2>2 DEF Elements
  <2> QED BY <1>b, <2>1, <2>2, <2>3 DEF OwnersArrived
<1>2. Front(points) \in Seq(Elements(points))
  <2>1. Len(points) \in Nat
    BY <1>a
  <2> QED BY <1>a, <2>1, PartOf DEF Front
<1>3. ASSUME NEW r \in Requests, Finish(r) \/ Drop(r) PROVE OwnersArrived'
  <2>1. \/ points' = points \/ points' = Front(points)
        \/ HasOwn(r) /\ points' = RemoveAt(points, Own(r))
    BY <1>3 DEF Finish, Drop
  <2>2. HasOwn(r) => Own(r) \in 1 .. Len(points)
    BY DEF HasOwn, Own
  <2>3. HasOwn(r) => RemoveAt(points, Own(r)) \in Seq(Elements(points))
    BY <1>a, <2>2, WithoutOne
  <2> QED BY <1>c, <1>2, <2>1, <2>3, FewerPoints
<1>4. CASE points' = points
  BY <1>4, <1>c
<1>5. ASSUME NEW r \in Requests,
             Selecting(r) \/ Persisting(r) \/ Mount(r) \/ Write(r) \/ Answer(r) \/ Fail(r)
             \/ FailListing(r) \/ InterruptSearch(r) \/ Undo(r)
      PROVE  points' = points
  BY <1>5 DEF Selecting, SkipSelection, SelectTable, Choose, ReadIndex, Describe, Persisting,
              MakeText, WriteTemporary, ReplaceStored, Mount, Write, Answer, Fail,
              FailListing, InterruptSearch, Undo
<1>6. NoMoreRequests \/ UNCHANGED vars => points' = points
  BY DEF NoMoreRequests, vars
<1> QED BY <1>1, <1>2, <1>3, <1>4, <1>5, <1>6 DEF Next, Arrival, Working

\* The point a failing edit goes back to holds the selection it found.
LEMMA OwnHoldsBefore ==
    ASSUME TypeOK, OwnersArrived, NEW r \in Requests, HasOwn(r)
    PROVE  points[Own(r)].selection = req[r].before
<1>1. Own(r) \in 1 .. Len(points) /\ points[Own(r)].owner = r
  BY DEF HasOwn, Own
<1> QED BY <1>1 DEF OwnersArrived, Elements
-----------------------------------------------------------------------------
(***************************************************************************)
(* Who writes, and who stores the session for what.                        *)
(***************************************************************************)

\* Only edits and deletions write, only they are finished, only they and undos
\* go back, and a request does nothing before it arrives.
WritesRightly(r) ==
    /\ req[r].pc = "idle" => req[r].kind = "none" /\ ~ req[r].wrote
    /\ req[r].wrote \/ req[r].pc = "marked" => req[r].kind \in Wrapped
    /\ req[r].pc \in Storing /\ req[r].after = "ok" => req[r].kind \in Wrapped
    /\ req[r].pc = "dropping" \/ (req[r].pc \in Storing /\ req[r].after = "dropping") =>
           req[r].kind \in Wrapped \cup {"undo"}
OnlyEditsWrite == \A r \in Requests : WritesRightly(r)

\* Every step keeps it.
LEMMA WritesStep == TypeOK /\ OnlyEditsWrite /\ [Next]_vars => OnlyEditsWrite'
<1> SUFFICES ASSUME TypeOK, OnlyEditsWrite, [Next]_vars PROVE OnlyEditsWrite'
  OBVIOUS
<1> USE DEF Storing
<1>a. ASSUME NEW r \in Requests, \A q \in Requests \ {r} : req'[q] = req[q], WritesRightly(r)'
      PROVE  OnlyEditsWrite'
  BY <1>a DEF OnlyEditsWrite, WritesRightly
<1>1. ASSUME NEW r \in Requests, Arrival(r) PROVE OnlyEditsWrite'
  <2>1. \A q \in Requests \ {r} : req'[q] = req[q]
    BY <1>1 DEF Arrival, Edit, Delete, List, Search, Begun, Undo, TypeOK
  <2>2. CASE Undo(r)
    <3>1. /\ req'[r].pc = "storing" /\ req'[r].after = "dropping" /\ req'[r].kind = "undo"
          /\ req'[r].wrote = req[r].wrote /\ ~ req[r].wrote
      BY <2>2 DEF Undo, OnlyEditsWrite, WritesRightly, TypeOK, Request
    <3> QED BY <1>a, <2>1, <3>1 DEF WritesRightly
  <2>3. CASE ~ Undo(r)
    <3>1. req'[r].pc = "applying" /\ ~ req'[r].wrote
      BY <1>1, <2>3 DEF Arrival, Edit, Delete, List, Search, Begun, TypeOK
    <3> QED BY <1>a, <2>1, <3>1 DEF WritesRightly
  <2> QED BY <2>2, <2>3
<1>2. ASSUME NEW r \in Requests, Selecting(r) PROVE OnlyEditsWrite'
  <2>1. \A q \in Requests \ {r} : req'[q] = req[q]
    BY <1>2 DEF Selecting, SkipSelection, SelectTable, Choose, ReadIndex, Describe, TypeOK
  <2>2. /\ req'[r].kind = req[r].kind /\ req'[r].wrote = req[r].wrote
        /\ \/ req'[r].pc \in {"applying", "describing", "reading"}
           \/ req'[r].pc = "storing" /\ req'[r].after = "applying"
           \/ req'[r].pc = "marked" /\ req[r].wrote
    <3>1. CASE SkipSelection(r)
      BY <3>1 DEF SkipSelection, Applying, TypeOK, Request
    <3>2. CASE SelectTable(r)
      BY <3>2 DEF SelectTable, Applying, TypeOK, Request
    <3>3. CASE Choose(r)
      BY <3>3 DEF Choose, TypeOK, Request
    <3>4. CASE ReadIndex(r)
      BY <3>4 DEF ReadIndex, TypeOK, Request
    <3>5. CASE Describe(r)
      BY <3>5 DEF Describe, TypeOK, Request
    <3> QED BY <1>2, <3>1, <3>2, <3>3, <3>4, <3>5 DEF Selecting
  <2>3. WritesRightly(r)'
    BY <2>2 DEF OnlyEditsWrite, WritesRightly
  <2> QED BY <1>a, <2>1, <2>3
<1>3. ASSUME NEW r \in Requests, Persisting(r) PROVE OnlyEditsWrite'
  <2>1. \A q \in Requests \ {r} : req'[q] = req[q]
    BY <1>3 DEF Persisting, MakeText, WriteTemporary, ReplaceStored, TypeOK
  <2>2. /\ req'[r].kind = req[r].kind /\ req'[r].wrote = req[r].wrote
        /\ req'[r].after = req[r].after /\ req[r].after \in Afters
        /\ req[r].pc \in Storing
        /\ \/ req'[r].pc \in Storing
           \/ req'[r].pc = req[r].after
           \/ req'[r].pc \in {"broken", "ok", "failed"}
    <3>1. CASE MakeText(r)
      BY <3>1 DEF MakeText, TypeOK, Request
    <3>2. CASE WriteTemporary(r)
      BY <3>2 DEF WriteTemporary, TypeOK, Request
    <3>3. CASE ReplaceStored(r)
      BY <3>3 DEF ReplaceStored, NotStored, Afters, TypeOK, Request
    <3> QED BY <1>3, <3>1, <3>2, <3>3 DEF Persisting
  <2>3. WritesRightly(r)'
    BY <2>2 DEF OnlyEditsWrite, WritesRightly, Afters
  <2> QED BY <1>a, <2>1, <2>3
<1>4. ASSUME NEW r \in Requests, Working(r) PROVE OnlyEditsWrite'
  <2>1. \A q \in Requests \ {r} : req'[q] = req[q]
    BY <1>4 DEF Working, Mount, Write, Finish, Answer, Fail, Drop, FailListing,
                InterruptSearch, TypeOK
  <2>2. /\ req'[r].kind = req[r].kind
        /\ req'[r].wrote = req[r].wrote \/ req[r].kind \in Wrapped
        /\ \/ req'[r].pc \in {"mounted", "describing", "applying"} \cup Ended
           \/ req'[r].pc = "storing" /\ req[r].kind \in Wrapped
    <3>1. CASE Mount(r)
      BY <3>1 DEF Mount, TypeOK, Request
    <3>2. CASE Write(r)
      BY <3>2 DEF Write, TypeOK, Request
    <3>3. CASE Finish(r)
      <4>1. req[r].kind \in Wrapped
        BY <3>3 DEF Finish, OnlyEditsWrite, WritesRightly
      <4> QED BY <3>3, <4>1 DEF Finish, TypeOK, Request
    <3>4. CASE Answer(r) \/ Drop(r)
      BY <3>4 DEF Answer, Drop, Ended, TypeOK, Request
    <3>5. CASE Fail(r)
      BY <3>5 DEF Fail, Ended, TypeOK, Request
    <3>6. CASE FailListing(r)
      BY <3>6 DEF FailListing, Ended, TypeOK, Request
    <3>7. CASE InterruptSearch(r)
      BY <3>7 DEF InterruptSearch, TypeOK, Request
    <3> QED BY <1>4, <3>1, <3>2, <3>3, <3>4, <3>5, <3>6, <3>7 DEF Working
  <2>3. WritesRightly(r)'
    BY <2>2 DEF OnlyEditsWrite, WritesRightly, Ended
  <2> QED BY <1>a, <2>1, <2>3
<1>5. CASE NoMoreRequests \/ UNCHANGED vars
  BY <1>5 DEF NoMoreRequests, vars, OnlyEditsWrite, WritesRightly
<1> QED BY <1>1, <1>2, <1>3, <1>4, <1>5 DEF Next
-----------------------------------------------------------------------------
(***************************************************************************)
(* What a request has of the selection and of the capabilities on its way, *)
(* with requests one after another: a search will end on the selection it  *)
(* found, and the capabilities that a naming request leaves behind were    *)
(* read from the partition it names, or none.                              *)
(***************************************************************************)
Returns(r) ==
    /\ req[r].kind = "search"
    /\ req[r].pc \in {"applying", "describing", "reading", "broken"} \cup Storing
    => IF req[r].todo = <<>>
       THEN selection = req[r].before
       ELSE Last(req[r].todo) = req[r].before

\* The request stores what it selected or changed.
StoresOwn(r) == req[r].pc \in Storing /\ req[r].after # "dropping"

Described(r) == req[r].pc \in {"mounted", "marked"} \/ Ready(r) \/ StoresOwn(r)

Describes(r) ==
    req[r].kind \in {"edit", "list"} /\ req[r].named \in Parts =>
        /\ req[r].pc \in {"describing", "reading", "mounted", "marked"} \/ StoresOwn(r) =>
               selection = req[r].named
        /\ req[r].pc = "reading" => req[r].index = req[r].named
        /\ Described(r) => caps \in {req[r].named, Table}

\* A rollback has put the selection back.
WentBack(r) ==
    /\ req[r].kind \in Wrapped
    /\ req[r].pc = "dropping" \/ (req[r].pc \in Storing /\ req[r].after = "dropping")
    => selection = req[r].before

AnswersInv == \A r \in Requests : Returns(r) /\ Describes(r) /\ WentBack(r)

\* Dropping the first goal keeps the last one.
LEMMA LastOfTail ==
    ASSUME NEW s \in Seq(Goals), s # <<>>
    PROVE  /\ Tail(s) \in Seq(Goals)
           /\ Tail(s) = <<>> => Last(s) = Head(s)
           /\ Tail(s) # <<>> => Last(Tail(s)) = Last(s)
<1>1. /\ Len(s) \in Nat /\ Len(s) > 0 /\ Tail(s) \in Seq(Goals)
      /\ Len(Tail(s)) = Len(s) - 1 /\ \A i \in 1 .. Len(Tail(s)) : Tail(s)[i] = s[i + 1]
  BY HeadTailProperties, EmptySeq
<1>2. CASE Tail(s) = <<>>
  <2>1. Len(s) = 1
    BY <1>1, <1>2
  <2> QED BY <1>2, <2>1 DEF Last
<1>3. CASE Tail(s) # <<>>
  <2>1. Len(Tail(s)) \in 1 .. Len(Tail(s))
    BY <1>1, <1>3, EmptySeq
  <2>2. Tail(s)[Len(Tail(s))] = s[Len(s)]
    BY <1>1, <2>1
  <2> QED BY <1>1, <1>3, <2>2 DEF Last
<1> QED BY <1>1, <1>2, <1>3

\* A step of the only request in flight has to be looked at for that one.
LEMMA OnlyOneAnswers ==
    ASSUME TypeOK, NEW r \in Requests,
           \A q \in Requests \ {r} : Rests(q) /\ req'[q] = req[q],
           (Returns(r) /\ Describes(r) /\ WentBack(r))'
    PROVE  AnswersInv'
<1>1. \A q \in Requests \ {r} : req'[q].pc \in {"idle"} \cup Ended
  BY DEF Rests
<1>2. \A q \in Requests \ {r} : Returns(q)' /\ Describes(q)' /\ WentBack(q)'
  BY <1>1 DEF Returns, Describes, Described, WentBack, StoresOwn, Storing, Ready, Ended
<1> QED BY <1>2 DEF AnswersInv

\* The arrival of a request other than an undo.
LEMMA BegunAnswers ==
    ASSUME ~ Concurrent, TypeOK, NEW r \in Requests, NEW k \in AllKinds,
           NEW named \in Goals, NEW todo \in Seq(Goals), Begun(r, k, named, todo),
           k \in {"edit", "list"} => todo = <<named>>,
           k = "search" => todo # <<>> /\ Last(todo) = selection
    PROVE  AnswersInv'
<1>1. \A q \in Requests \ {r} : Rests(q) /\ req'[q] = req[q]
  BY DEF Begun, Quiet, Rests, TypeOK
<1>2. /\ req'[r].pc = "applying" /\ req'[r].kind = k /\ req'[r].named = named
      /\ req'[r].todo = todo /\ req'[r].before = selection
  BY DEF Begun, TypeOK
<1>3. <<named>> # <<>>
  OBVIOUS
<1>4. Returns(r)'
  BY <1>2 DEF Returns
<1>5. Describes(r)' /\ WentBack(r)'
  BY <1>2, <1>3 DEF Describes, Described, WentBack, StoresOwn, Storing, Ready
<1> QED BY <1>1, <1>4, <1>5, OnlyOneAnswers

\* Every step keeps it.
LEMMA AnswersStep ==
    ASSUME ~ Concurrent, TypeOK, LandInv, OwnersArrived, HasWayBack, OnlyEditsWrite,
           AnswersInv, [Next]_vars
    PROVE  AnswersInv'
<1> USE DEF Storing
<1>1. ASSUME NEW r \in Requests, Arrival(r) PROVE AnswersInv'
  <2>1. CASE Edit(r)
    <3>1. PICK named \in Parts \cup {Unsaid, Beyond} : Begun(r, "edit", named, <<named>>)
      BY <2>1 DEF Edit
    <3>2. named \in Goals /\ <<named>> \in Seq(Goals) /\ "edit" \in AllKinds
      BY DEF Goals, Selected, AllKinds
    <3> QED BY <3>1, <3>2, BegunAnswers
  <2>2. CASE Delete(r)
    <3>1. PICK named \in Parts : Begun(r, "delete", named, <<>>)
      BY <2>2 DEF Delete
    <3>2. named \in Goals /\ <<>> \in Seq(Goals) /\ "delete" \in AllKinds
      BY DEF Goals, Selected, AllKinds
    <3> QED BY <3>1, <3>2, BegunAnswers
  <2>3. CASE List(r)
    <3>1. PICK named \in Selected \cup {Unsaid, Beyond} : Begun(r, "list", named, <<named>>)
      BY <2>3 DEF List
    <3>2. named \in Goals /\ <<named>> \in Seq(Goals) /\ "list" \in AllKinds
      BY DEF Goals, AllKinds
    <3> QED BY <3>1, <3>2, BegunAnswers
  <2>4. CASE Search(r)
    <3> DEFINE order == SetToSeq(Parts)
    <3>1. order \in Seq(Goals) /\ selection \in Goals
      BY SearchOrder DEF Goals, Selected, TypeOK
    <3>2. Begun(r, "search", Unsaid, Append(order, selection))
      BY <2>4 DEF Search
    <3> HIDE DEF order
    <3>3. /\ Append(order, selection) \in Seq(Goals) /\ Append(order, selection) # <<>>
          /\ Last(Append(order, selection)) = selection
      BY <3>1 DEF Last
    <3>4. Unsaid \in Goals /\ "search" \in AllKinds
      BY DEF Goals, AllKinds
    <3> QED BY <3>2, <3>3, <3>4, BegunAnswers
  <2>5. CASE Undo(r)
    <3>1. \A q \in Requests \ {r} : Rests(q) /\ req'[q] = req[q]
      BY <2>5 DEF Undo, Quiet, Rests, TypeOK
    <3>2. req'[r].kind = "undo"
      BY <2>5 DEF Undo, TypeOK, Request
    <3>3. Returns(r)' /\ Describes(r)' /\ WentBack(r)'
      BY <3>2 DEF Returns, Describes, WentBack, Wrapped
    <3> QED BY <3>1, <3>3, OnlyOneAnswers
  <2> QED BY <1>1, <2>1, <2>2, <2>3, <2>4, <2>5 DEF Arrival
<1>2. ASSUME NEW r \in Requests, Selecting(r) PROVE AnswersInv'
  <2>1. ~ Rests(r) /\ req[r] \in Request /\ Mine(r) /\ Returns(r) /\ Describes(r)
    BY <1>2 DEF Selecting, SkipSelection, SelectTable, Choose, ReadIndex, Describe,
                Applying, Rests, Ended, TypeOK, LandInv, MeansSelection, AnswersInv
  <2>2. \A q \in Requests \ {r} : Rests(q) /\ req'[q] = req[q]
    BY <1>2, SoleMover
  <2>3. req[r].before \in Selected /\ req[r].todo \in Seq(Goals)
    BY <2>1 DEF Request, Goals
  <2>4. CASE SkipSelection(r) \/ SelectTable(r) \/ Choose(r)
    <3>1. /\ req[r].todo # <<>> /\ req[r].pc = "applying"
          /\ req'[r].todo = Tail(req[r].todo) /\ req'[r].kind = req[r].kind
          /\ req'[r].before = req[r].before /\ req'[r].named = req[r].named
          /\ \/ req'[r].pc \in {"applying", "describing"}
             \/ req'[r].pc = "storing" /\ req'[r].after = "applying"
      BY <2>1, <2>4 DEF SkipSelection, SelectTable, Choose, Applying, TypeOK, Request
    <3>2. Head(req[r].todo) = Unsaid \/ selection' = Head(req[r].todo)
      BY <2>4 DEF SkipSelection, SelectTable, Choose, Goal
    <3>3. Returns(r)'
      <4>1. SUFFICES ASSUME req[r].kind = "search"
                     PROVE  IF Tail(req[r].todo) = <<>>
                            THEN selection' = req[r].before
                            ELSE Last(Tail(req[r].todo)) = req[r].before
        BY <3>1 DEF Returns
      <4>2. Last(req[r].todo) = req[r].before /\ req[r].before # Unsaid
        BY <2>1, <2>3, <3>1, <4>1, NoPartAssumption DEF Returns, Selected
      <4> QED BY <2>3, <3>1, <3>2, <4>2, LastOfTail
    <3>4. Describes(r)'
      <4>1. SUFFICES ASSUME req[r].kind \in {"edit", "list"}, req[r].named \in Parts
                     PROVE  Describes(r)'
        BY <3>1 DEF Describes
      <4>2. Goal(r) = req[r].named
        BY <2>1, <3>1, <4>1, PendingGoal DEF Applying
      <4>3. Choose(r)
        BY <2>4, <4>1, <4>2, NoPartAssumption DEF SkipSelection, SelectTable
      <4>4. req'[r].pc = "describing" /\ selection' = req[r].named
        BY <4>2, <4>3 DEF Choose, TypeOK, Request
      <4> QED BY <3>1, <4>4 DEF Describes, Described, StoresOwn, Ready
    <3>5. WentBack(r)'
      BY <3>1 DEF WentBack
    <3> QED BY <2>2, <3>3, <3>4, <3>5, OnlyOneAnswers
  <2>5. CASE ReadIndex(r)
    <3>1. /\ req[r].pc = "describing" /\ req'[r].pc = "reading" /\ req'[r].index = selection
          /\ req'[r].todo = req[r].todo /\ req'[r].kind = req[r].kind
          /\ req'[r].before = req[r].before /\ req'[r].named = req[r].named
          /\ UNCHANGED <<selection, caps>>
      BY <2>1, <2>5 DEF ReadIndex, TypeOK, Request
    <3>2. Returns(r)' /\ Describes(r)' /\ WentBack(r)'
      BY <2>1, <3>1 DEF Returns, Describes, Described, WentBack, StoresOwn, Ready
    <3> QED BY <2>2, <3>2, OnlyOneAnswers
  <2>6. CASE Describe(r)
    <3>1. /\ req[r].pc = "reading"
          /\ \/ req'[r].pc = "marked"
             \/ req'[r].pc = "storing" /\ req'[r].after = "applying"
          /\ req'[r].todo = req[r].todo /\ req'[r].kind = req[r].kind
          /\ req'[r].before = req[r].before /\ req'[r].named = req[r].named
          /\ selection' = selection /\ caps' \in {req[r].index, Table}
      BY <2>1, <2>6 DEF Describe, TypeOK, Request
    <3>2. Returns(r)' /\ Describes(r)' /\ WentBack(r)'
      BY <2>1, <3>1 DEF Returns, Describes, Described, WentBack, StoresOwn, Ready
    <3> QED BY <2>2, <3>2, OnlyOneAnswers
  <2> QED BY <1>2, <2>4, <2>5, <2>6 DEF Selecting
<1>3. ASSUME NEW r \in Requests, Persisting(r) PROVE AnswersInv'
  <2>1. /\ req[r] \in Request /\ Returns(r) /\ Describes(r) /\ WentBack(r)
        /\ req[r].pc \in Storing /\ UNCHANGED <<selection, caps>>
    BY <1>3 DEF Persisting, MakeText, WriteTemporary, ReplaceStored, TypeOK, AnswersInv
  <2>2. \A q \in Requests \ {r} : Rests(q) /\ req'[q] = req[q]
    BY <1>3, SoleMover
  <2>3. /\ req'[r].kind = req[r].kind /\ req'[r].named = req[r].named
        /\ req'[r].before = req[r].before /\ req'[r].todo = req[r].todo
        /\ req'[r].after = req[r].after /\ req[r].after \in Afters
        /\ \/ req'[r].pc \in Storing
           \/ req'[r].pc = req[r].after
           \/ req'[r].pc \in {"broken", "ok", "failed"}
    <3>1. CASE MakeText(r)
      BY <2>1, <3>1 DEF MakeText, TypeOK, Request
    <3>2. CASE WriteTemporary(r)
      BY <2>1, <3>2 DEF WriteTemporary, TypeOK, Request
    <3>3. CASE ReplaceStored(r)
      BY <2>1, <3>3 DEF ReplaceStored, NotStored, Afters, TypeOK, Request
    <3> QED BY <1>3, <3>1, <3>2, <3>3 DEF Persisting
  <2>4. Returns(r)'
    BY <2>1, <2>3 DEF Returns
  <2>5. Describes(r)' /\ WentBack(r)'
    BY <2>1, <2>3 DEF Describes, Described, WentBack, StoresOwn, Ready, Afters
  <2> QED BY <2>2, <2>4, <2>5, OnlyOneAnswers
<1>4. ASSUME NEW r \in Requests, Working(r) PROVE AnswersInv'
  <2>1. ~ Rests(r) /\ req[r] \in Request /\ Mine(r) /\ Returns(r) /\ Describes(r)
    BY <1>4 DEF Working, Mount, Write, Finish, Answer, Fail, Drop, FailListing,
                InterruptSearch, Ready, Rests, Ended, TypeOK, LandInv, MeansSelection,
                AnswersInv
  <2>2. \A q \in Requests \ {r} : Rests(q) /\ req'[q] = req[q]
    BY <1>4, SoleMover
  <2>3. CASE Mount(r)
    <3>1. /\ Ready(r) /\ req'[r].pc = "mounted" /\ req'[r].kind = req[r].kind
          /\ req'[r].named = req[r].named /\ UNCHANGED <<selection, caps>>
      BY <2>1, <2>3 DEF Mount, TypeOK, Request
    <3>2. req[r].kind \in {"edit", "list"} => selection = Meant(r)
      BY <2>1, <3>1 DEF Mine, Selects, Ready
    <3>3. Returns(r)' /\ Describes(r)' /\ WentBack(r)'
      BY <2>1, <3>1, <3>2, NoPartAssumption
      DEF Returns, Describes, Described, WentBack, StoresOwn, Ready, Meant
    <3> QED BY <2>2, <3>3, OnlyOneAnswers
  <2>4. CASE Write(r)
    <3>1. /\ req[r].pc = "mounted" /\ req'[r].pc = "describing" /\ req'[r].kind = req[r].kind
          /\ req'[r].named = req[r].named /\ UNCHANGED <<selection, caps>>
          /\ req[r].kind \in Wrapped
      BY <2>1, <2>4 DEF Write, TypeOK, Request
    <3>2. Returns(r)' /\ Describes(r)' /\ WentBack(r)'
      BY <2>1, <3>1 DEF Returns, Describes, Described, WentBack, StoresOwn, Ready, Wrapped
    <3> QED BY <2>2, <3>2, OnlyOneAnswers
  <2>5. CASE InterruptSearch(r)
    <3>1. /\ req[r].kind = "search" /\ req[r].pc \in {"applying", "broken"}
          /\ req[r].todo # <<>>
          /\ req'[r].kind = "search" /\ req'[r].todo = <<Last(req[r].todo)>>
          /\ req'[r].before = req[r].before
      BY <2>1, <2>5 DEF InterruptSearch, TypeOK, Request
    <3>2. Last(req[r].todo) = req[r].before
      BY <2>1, <3>1 DEF Returns
    <3>3. \A x : <<x>> # <<>> /\ Last(<<x>>) = x
      BY DEF Last
    <3>4. Returns(r)' /\ Describes(r)' /\ WentBack(r)'
      BY <3>1, <3>2, <3>3 DEF Returns, Describes, WentBack, Wrapped
    <3> QED BY <2>2, <3>4, OnlyOneAnswers
  <2>6. CASE Finish(r)
    <3>1. /\ req[r].pc = "marked" /\ req'[r].pc = "storing" /\ req'[r].after = "ok"
          /\ req'[r].kind = req[r].kind /\ req'[r].named = req[r].named
          /\ UNCHANGED <<selection, caps>>
      BY <2>1, <2>6 DEF Finish, TypeOK, Request
    <3>2. req[r].kind \in Wrapped
      BY <3>1 DEF OnlyEditsWrite, WritesRightly
    <3>3. Returns(r)' /\ Describes(r)' /\ WentBack(r)'
      BY <2>1, <3>1, <3>2 DEF Returns, Describes, Described, WentBack, StoresOwn, Ready,
                              Wrapped
    <3> QED BY <2>2, <3>3, OnlyOneAnswers
  <2>7. CASE Fail(r)
    <3>1. HasOwn(r) /\ req[r].kind \in Wrapped
      BY <2>7 DEF Fail, HasWayBack, MayGoBack, BeforeWork
    <3>2. /\ req'[r].pc = "storing" /\ req'[r].after = "dropping"
          /\ req'[r].kind = req[r].kind /\ req'[r].before = req[r].before
          /\ selection' = points[Own(r)].selection
      BY <2>1, <2>7, <3>1 DEF Fail, TypeOK, Request
    <3>3. Returns(r)' /\ Describes(r)' /\ WentBack(r)'
      BY <3>1, <3>2, OwnHoldsBefore DEF Returns, Describes, Described, WentBack, StoresOwn,
                                        Ready, Wrapped
    <3> QED BY <2>2, <3>3, OnlyOneAnswers
  <2>8. CASE Drop(r) \/ Answer(r) \/ FailListing(r)
    <3>1. req'[r].pc \in Ended
      BY <2>1, <2>8 DEF Drop, Answer, FailListing, Ended, TypeOK, Request
    <3>2. Returns(r)' /\ Describes(r)' /\ WentBack(r)'
      BY <3>1 DEF Returns, Describes, Described, WentBack, StoresOwn, Ready, Ended
    <3> QED BY <2>2, <3>2, OnlyOneAnswers
  <2> QED BY <1>4, <2>3, <2>4, <2>5, <2>6, <2>7, <2>8 DEF Working
<1>5. CASE NoMoreRequests \/ UNCHANGED vars
  BY <1>5 DEF NoMoreRequests, vars, AnswersInv, Returns, Describes, Described, WentBack,
              StoresOwn, Ready
<1> QED BY <1>1, <1>2, <1>3, <1>4, <1>5 DEF Next

\* The invariant of the section.
LEMMA AnswersInvariant ==
    ASSUME ~ Concurrent
    PROVE  Spec => [](TypeOK /\ LandInv /\ HasWayBack /\ OwnersArrived /\ AnswersInv
                      /\ OnlyEditsWrite)
<1>1. Init => HasWayBack /\ OwnersArrived /\ AnswersInv /\ OnlyEditsWrite
  <2> SUFFICES ASSUME Init PROVE HasWayBack /\ OwnersArrived /\ AnswersInv /\ OnlyEditsWrite
    OBVIOUS
  <2>1. /\ Elements(points) = {}
        /\ \A r \in Requests : req[r].kind = "none" /\ req[r].pc = "idle" /\ ~ req[r].wrote
    BY DEF Init, Elements
  <2> QED BY <2>1 DEF HasWayBack, MayGoBack, Wrapped, OwnersArrived, AnswersInv,
                      OnlyEditsWrite, WritesRightly, Returns, Describes, WentBack, Storing
<1>2. TypeOK /\ LandInv /\ OwnersArrived /\ HasWayBack /\ OnlyEditsWrite /\ AnswersInv
         /\ [Next]_vars => AnswersInv'
  BY AnswersStep
<1>3. TypeOK /\ LandInv /\ HasWayBack /\ [Next]_vars => HasWayBack'
  BY WayStep
<1> QED BY <1>1, <1>2, <1>3, OwnersStep, WritesStep, LandInvariant, PTL DEF Spec

\* A listing that ends well.
LEMMA ListingAnswered ==
    ASSUME TypeOK, LandInv, [Next]_vars, NEW r \in Requests, req[r].kind = "list",
           req[r].pc = "mounted"
    PROVE  req[r].index = Meant(r)
BY DEF LandInv, MeansSelection, Mine

\* Requests one after another: a listing shows the partition its request means,
\* the one it names or else the selected one (apply_partition() before the
\* mount of every reading route).
THEOREM ListingsShowMeant == ASSUME ~ Concurrent PROVE Spec => ListingShowsMeant
<1>1. TypeOK /\ LandInv /\ [Next]_vars =>
         [\A r \in Requests :
             req[r].kind = "list" /\ req[r].pc = "mounted" /\ req'[r].pc = "ok"
                 => req[r].index = Meant(r)]_vars
  BY ListingAnswered
<1> QED BY <1>1, LandInvariant, PTL DEF Spec, ListingShowsMeant

\* How a request in flight ends: whatever moves is the request itself.
LEMMA Ending ==
    ASSUME ~ Concurrent, TypeOK, LandInv, [Next]_vars, NEW r \in Requests,
           req'[r].pc \in Ended, req[r].pc # req'[r].pc
    PROVE  Answer(r) \/ Fail(r) \/ Drop(r) \/ FailListing(r) \/ ReplaceStored(r)
<1> USE DEF Ended
<1>1. PICK q \in Requests : Arrival(q) \/ Selecting(q) \/ Persisting(q) \/ Working(q)
  BY DEF Next, NoMoreRequests, vars
<1>2. q = r
  BY <1>1, SoleMover
<1>3. ~ Arrival(r)
  <2>1. ~ Undo(r)
    BY DEF Undo, TypeOK, Request
  <2> QED BY <2>1 DEF Arrival, Edit, Delete, List, Search, Begun, TypeOK
<1>4. ~ Selecting(r)
  <2>1. ~ SkipSelection(r)
    BY DEF SkipSelection, TypeOK, Request
  <2>2. ~ SelectTable(r) /\ ~ Choose(r)
    BY DEF SelectTable, Choose, TypeOK, Request
  <2>3. ~ ReadIndex(r) /\ ~ Describe(r)
    BY DEF ReadIndex, Describe, TypeOK, Request
  <2> QED BY <2>1, <2>2, <2>3 DEF Selecting
<1>5. ~ MakeText(r) /\ ~ WriteTemporary(r)
  BY DEF MakeText, WriteTemporary, TypeOK, Request
<1>6. ~ Mount(r) /\ ~ Write(r)
  BY DEF Mount, Write, TypeOK, Request
<1>7. ~ InterruptSearch(r) /\ ~ Finish(r)
  BY DEF InterruptSearch, Finish, TypeOK, Request
<1> QED BY <1>1, <1>2, <1>3, <1>4, <1>5, <1>6, <1>7 DEF Persisting, Working

\* How a request ends when its session has been stored, or has not.
LEMMA EndsStored ==
    ASSUME TypeOK, NEW r \in Requests, ReplaceStored(r), req'[r].pc \in Ended
    PROVE  /\ req[r].pc = "replacing" /\ UNCHANGED <<selection, caps>>
           /\ req'[r].pc = "ok" => req[r].after = "ok"
           /\ req'[r].pc = "failed" => req[r].after = "dropping"
<1>1. /\ req'[r].pc \in {NotStored[req[r].after], req[r].after} /\ req[r].after \in Afters
  BY DEF ReplaceStored, TypeOK, Request
<1> QED BY <1>1 DEF ReplaceStored, NotStored, Afters, Ended

\* An edit that fails and a search that ends leave the selection as it was.
LEMMA PutBack ==
    ASSUME ~ Concurrent, TypeOK, LandInv, HasWayBack, OwnersArrived, AnswersInv,
           OnlyEditsWrite, [Next]_vars, NEW r \in Requests, PutsBack(r), req[r].pc # req'[r].pc
    PROVE  selection' = req[r].before
<1>1. Answer(r) \/ Fail(r) \/ Drop(r) \/ FailListing(r) \/ ReplaceStored(r)
  BY Ending DEF PutsBack, Ended
<1>2. CASE Fail(r)
  <2>1. HasOwn(r)
    BY <1>2 DEF Fail, HasWayBack, MayGoBack, BeforeWork
  <2>2. selection' = points[Own(r)].selection
    BY <1>2, <2>1 DEF Fail
  <2> QED BY <2>1, <2>2, OwnHoldsBefore
<1>3. CASE Answer(r)
  <2>1. req'[r].pc = "ok" /\ selection' = selection
    BY <1>3 DEF Answer, TypeOK, Request
  <2>2. req[r].kind = "search" /\ Ready(r)
    BY <1>3, <2>1 DEF Answer, PutsBack
  <2> QED BY <2>1, <2>2 DEF AnswersInv, Returns, Ready
<1>4. CASE Drop(r)
  <2>1. /\ req[r].pc = "dropping" /\ selection' = selection
        /\ req'[r].pc = IF req[r].kind = "undo" THEN "ok" ELSE "failed"
    BY <1>4 DEF Drop, TypeOK, Request
  <2>2. req[r].kind \in Wrapped
    BY <2>1 DEF PutsBack, OnlyEditsWrite, WritesRightly
  <2> QED BY <2>1, <2>2 DEF AnswersInv, WentBack
<1>5. CASE FailListing(r)
  <2>1. req'[r].pc = "failed" /\ req[r].kind \in {"list", "search"}
    BY <1>5 DEF FailListing, TypeOK, Request
  <2> QED BY <2>1 DEF PutsBack, Wrapped
<1>6. CASE ReplaceStored(r)
  <2>1. /\ req[r].pc = "replacing" /\ selection' = selection
        /\ req'[r].pc = "ok" => req[r].after = "ok"
        /\ req'[r].pc = "failed" => req[r].after = "dropping"
    BY <1>6, EndsStored DEF PutsBack, Ended
  <2>2. ~ (req[r].kind = "search" /\ req'[r].pc = "ok")
    BY <2>1 DEF OnlyEditsWrite, WritesRightly, Storing, Wrapped
  <2> QED BY <2>1, <2>2 DEF PutsBack, AnswersInv, WentBack, Storing
<1> QED BY <1>1, <1>2, <1>3, <1>4, <1>5, <1>6

\* Requests one after another: an edit that fails leaves the selection as it
\* found it, and so does a search of the whole drive, finished or interrupted
\* (rollback_automatic_checkpoint(), and the finally of the search).
THEOREM SelectionsArePutBack == ASSUME ~ Concurrent PROVE Spec => SelectionPutBack
<1>1. TypeOK /\ LandInv /\ HasWayBack /\ OwnersArrived /\ AnswersInv /\ OnlyEditsWrite
         /\ [Next]_vars =>
         [\A r \in Requests :
             PutsBack(r) /\ req[r].pc # req'[r].pc => selection' = req[r].before]_vars
  BY PutBack
<1> QED BY <1>1, AnswersInvariant, PTL DEF Spec, SelectionPutBack

\* A request that named a partition and succeeds.
LEMMA NamedAnswered ==
    ASSUME ~ Concurrent, TypeOK, LandInv, AnswersInv, OnlyEditsWrite, [Next]_vars,
           NEW r \in Requests, AnswersNamed(r)
    PROVE  selection' = req[r].named /\ caps' \in {req[r].named, Table}
<1>1. /\ req[r].kind \in {"edit", "list"} /\ req[r].named \in Parts
      /\ req[r].pc # "ok" /\ req'[r].pc = "ok"
  BY DEF AnswersNamed
<1>2. Answer(r) \/ Fail(r) \/ Drop(r) \/ FailListing(r) \/ ReplaceStored(r)
  BY <1>1, Ending DEF Ended
<1>3. CASE ReplaceStored(r)
  <2>1. /\ req[r].pc = "replacing" /\ UNCHANGED <<selection, caps>> /\ req[r].after = "ok"
    BY <1>1, <1>3, EndsStored DEF Ended
  <2> QED BY <1>1, <2>1 DEF AnswersInv, Describes, Described, StoresOwn, Storing
<1>4. CASE Answer(r)
  <2>1. UNCHANGED <<selection, caps>> /\ req[r].kind = "list"
        /\ (req[r].pc = "mounted" \/ (Ready(r) /\ selection = Table))
    BY <1>1, <1>4 DEF Answer
  <2>2. Ready(r) => selection = req[r].named
    BY <1>1, NoPartAssumption DEF LandInv, MeansSelection, Mine, Selects, Ready, Meant
  <2> QED BY <1>1, <2>1, <2>2 DEF AnswersInv, Describes, Described
<1>5. ~ Drop(r)
  BY <1>1 DEF Drop, TypeOK, Request
<1>6. ~ Fail(r) /\ ~ FailListing(r)
  BY <1>1 DEF Fail, FailListing, TypeOK, Request
<1> QED BY <1>2, <1>3, <1>4, <1>5, <1>6

\* Requests one after another: the capabilities in the answer to a request that
\* named a partition are those of that partition, or none when it does not mount
\* (refresh_gemdos_capabilities() after the selection and after the change).
THEOREM AnswersDescribeNamed == ASSUME ~ Concurrent PROVE Spec => AnswerDescribesNamed
<1>1. TypeOK /\ LandInv /\ AnswersInv /\ OnlyEditsWrite /\ [Next]_vars =>
         [\A r \in Requests :
             AnswersNamed(r) =>
                 selection' = req[r].named /\ caps' \in {req[r].named, Table}]_vars
  BY NamedAnswered
<1> QED BY <1>1, AnswersInvariant, PTL DEF Spec, AnswerDescribesNamed
=============================================================================
