---------------------- MODULE OperationRegistry_proofs ----------------------
(***************************************************************************)
(* Safety of OperationRegistry for every set of identifiers and browsers.  *)
(*                                                                         *)
(* RunningHasWorker is not inductive: that a late abort or a restart       *)
(* leaves the outcome of a finished operation alone depends on which       *)
(* states the record may have at each point of the worker (WorkerInv).     *)
(* Unless a unit of work lasts for over an hour only the records of ended  *)
(* operations are purged (Remembered), which makes an abort that was       *)
(* acknowledged visible at every boundary the worker reaches.              *)
(***************************************************************************)
EXTENDS OperationRegistry, TLAPS

\* What the record says while the worker is at each of its points.
WorkerInv ==
    \A id \in Ids :
        /\ worker[id] = "idle" => State(id) = "absent"
        /\ worker[id] = "posted" => State(id) \in {"absent", "cancelling"}
        /\ worker[id] \in Live => State(id) \in Unfinished \cup {"absent"}
        /\ State(id) = "running" => worker[id] \in Live
        /\ worker[id] = "working" => units[id] < MaxUnits

\* What is remembered of each operation as long as no unit lasts too long.
Remembered ==
    LongUnits \/ \A id \in Ids :
        /\ items[id].stale => worker[id] = "ended"
        /\ worker[id] \in Live => State(id) \in Unfinished
        /\ id \in asked /\ worker[id] \in {"posted", "boundary", "working"} =>
              State(id) = "cancelling"
        /\ worker[id] = "idle" => id \notin asked

IInv == TypeOK /\ WorkerInv /\ Remembered
-----------------------------------------------------------------------------
\* Whoever invented an identifier is a browser.
LEMMA OwnerType == \A id \in Ids : Owner(id) \in Owners
  BY DEF Ids, Owner

\* The three parts of the invariant hold when the server first starts.
LEMMA InitInvariant == Init => IInv
  BY OwnerType, UnitsAssumption
  DEF Init, IInv, TypeOK, WorkerInv, Remembered, Item, Absent, State, Live, Unfinished, Terminal

\* Every step of the registry preserves the three parts of the invariant.
LEMMA StepInvariant == IInv /\ [Next]_vars => IInv'
<1> SUFFICES ASSUME IInv, [Next]_vars PROVE IInv'
  OBVIOUS
<1> USE OwnerType, UnitsAssumption, LongUnitsAssumption
<1> USE DEF IInv, Item, Fresh, Absent, State, Live, Unfinished, Terminal
<1>1. ASSUME NEW id \in Ids, Post(id) PROVE IInv'
  <2>1. TypeOK'
    BY <1>1 DEF TypeOK, WorkerInv, Post
  <2>2. WorkerInv'
    BY <1>1 DEF TypeOK, WorkerInv, Post
  <2>3. Remembered'
    BY <1>1 DEF TypeOK, WorkerInv, Remembered, Post
  <2> QED BY <2>1, <2>2, <2>3
<1>2. ASSUME NEW id \in Ids, Start(id) PROVE IInv'
  <2>1. TypeOK'
    BY <1>2 DEF TypeOK, WorkerInv, Start, Purged
  <2>2. WorkerInv'
    BY <1>2 DEF TypeOK, WorkerInv, Start, Purged
  <2>3. Remembered'
    BY <1>2 DEF TypeOK, WorkerInv, Remembered, Start, Purged
  <2> QED BY <2>1, <2>2, <2>3
<1>3. ASSUME NEW id \in Ids, Report(id) PROVE IInv'
  <2>1. TypeOK'
    <3>1. [items[id] EXCEPT !.stale = FALSE] \in Item
      BY DEF TypeOK
    <3>2. items' = [items EXCEPT ![id] = [items[id] EXCEPT !.stale = FALSE]]
      BY <1>3 DEF Report
    <3>3. items' \in [Ids -> Item]
      BY <3>1, <3>2 DEF TypeOK
    <3> QED BY <1>3, <3>3 DEF TypeOK, Report
  <2>2. WorkerInv'
    BY <1>3 DEF TypeOK, WorkerInv, Report
  <2>3. Remembered'
    BY <1>3 DEF TypeOK, WorkerInv, Remembered, Report
  <2> QED BY <2>1, <2>2, <2>3
<1>4. ASSUME NEW id \in Ids, Interrupt(id) PROVE IInv'
  <2>1. TypeOK'
    BY <1>4 DEF TypeOK, WorkerInv, Interrupt
  <2>2. WorkerInv'
    BY <1>4 DEF TypeOK, WorkerInv, Interrupt
  <2>3. Remembered'
    BY <1>4 DEF TypeOK, WorkerInv, Remembered, Interrupt
  <2> QED BY <2>1, <2>2, <2>3
<1>5. ASSUME NEW id \in Ids, Unit(id) PROVE IInv'
  <2>1. TypeOK'
    BY <1>5 DEF TypeOK, WorkerInv, Unit
  <2>2. WorkerInv'
    BY <1>5 DEF TypeOK, WorkerInv, Unit
  <2>3. Remembered'
    BY <1>5 DEF TypeOK, WorkerInv, Remembered, Unit
  <2> QED BY <2>1, <2>2, <2>3
<1>6. ASSUME NEW id \in Ids, Cancelled(id) \/ Finish(id) \/ Fail(id) PROVE IInv'
  <2>1. TypeOK'
    BY <1>6 DEF TypeOK, WorkerInv, Cancelled, Finish, Fail, SetTerminal
  <2>2. WorkerInv'
    BY <1>6 DEF TypeOK, WorkerInv, Cancelled, Finish, Fail, SetTerminal
  <2>3. Remembered'
    BY <1>6 DEF TypeOK, WorkerInv, Remembered, Cancelled, Finish, Fail, SetTerminal
  <2> QED BY <2>1, <2>2, <2>3
<1>7. ASSUME NEW id \in Ids, NEW o \in Owners, Cancel(id, o) PROVE IInv'
  <2>1. TypeOK'
    <3>1. /\ Fresh("cancelling", o) \in Item
          /\ [items[id] EXCEPT !.state = "cancelling", !.stale = FALSE] \in Item
      BY DEF TypeOK
    <3>2. \/ items' = items
          \/ items' = [items EXCEPT ![id] = Fresh("cancelling", o)]
          \/ items' = [items EXCEPT ![id] =
                          [items[id] EXCEPT !.state = "cancelling", !.stale = FALSE]]
      BY <1>7 DEF Cancel
    <3>3. items' \in [Ids -> Item]
      BY <3>1, <3>2 DEF TypeOK
    <3> QED BY <1>7, <3>3 DEF TypeOK, Cancel
  <2>2. WorkerInv'
    BY <1>7 DEF TypeOK, WorkerInv, Cancel
  <2>3. Remembered'
    BY <1>7 DEF TypeOK, WorkerInv, Remembered, Cancel
  <2> QED BY <2>1, <2>2, <2>3
<1>8. ASSUME NEW o \in Owners, ClearTerminal(o) PROVE IInv'
  <2>1. TypeOK'
    BY <1>8 DEF TypeOK, WorkerInv, ClearTerminal
  <2>2. WorkerInv'
    BY <1>8 DEF TypeOK, WorkerInv, ClearTerminal
  <2>3. Remembered'
    BY <1>8 DEF TypeOK, WorkerInv, Remembered, ClearTerminal
  <2> QED BY <2>1, <2>2, <2>3
<1>9. ASSUME NEW id \in Ids, Age(id) PROVE IInv'
  <2>1. TypeOK'
    BY <1>9 DEF TypeOK, WorkerInv, Age
  <2>2. WorkerInv'
    BY <1>9 DEF TypeOK, WorkerInv, Age
  <2>3. Remembered'
    BY <1>9 DEF TypeOK, WorkerInv, Remembered, Age
  <2> QED BY <2>1, <2>2, <2>3
<1>10. ASSUME Restart PROVE IInv'
  <2>1. TypeOK'
    BY <1>10 DEF TypeOK, WorkerInv, Restart, Reloaded
  <2>2. WorkerInv'
    BY <1>10 DEF TypeOK, WorkerInv, Restart, Reloaded
  <2>3. Remembered'
    BY <1>10 DEF TypeOK, WorkerInv, Remembered, Restart, Reloaded
  <2> QED BY <2>1, <2>2, <2>3
<1>11. ASSUME UNCHANGED vars PROVE IInv'
  <2>1. TypeOK'
    BY <1>11 DEF TypeOK, WorkerInv, vars
  <2>2. WorkerInv'
    BY <1>11 DEF TypeOK, WorkerInv, vars
  <2>3. Remembered'
    BY <1>11 DEF TypeOK, WorkerInv, Remembered, vars
  <2> QED BY <2>1, <2>2, <2>3
<1> QED
  BY <1>1, <1>2, <1>3, <1>4, <1>5, <1>6, <1>7, <1>8, <1>9, <1>10, <1>11 DEF Next, WorkerStep
-----------------------------------------------------------------------------
\* The invariant holds in every state the registry reaches.
THEOREM Invariant == Spec => []IInv
<1>1. Init => IInv
  BY InitInvariant
<1>2. IInv /\ [Next]_vars => IInv'
  BY StepInvariant
<1> QED BY <1>1, <1>2, PTL DEF Spec

\* Records, threads, counters and acknowledged aborts are always well-formed.
THEOREM TypeCorrect == Spec => []TypeOK
<1>1. IInv => TypeOK
  BY DEF IInv
<1> QED BY <1>1, Invariant, PTL

\* A record says "running" only while a thread runs for it, however aborts,
\* clearing, purging and restarts are interleaved.
THEOREM RunningRecords == Spec => []RunningHasWorker
<1>1. IInv => RunningHasWorker
  BY DEF IInv, WorkerInv, RunningHasWorker
<1> QED BY <1>1, Invariant, PTL

\* The outcome of an operation is never overwritten: by then no thread of it
\* is left, a late abort does not touch it and a restart does not either.
THEOREM OutcomesAreFinal == Spec => TerminalIsFinal
<1> DEFINE Kept == \A id \in Ids :
                      State(id) \in Terminal => State(id)' \in {State(id), "absent"}
<1>1. ASSUME IInv, [Next]_vars PROVE Kept
  <2> USE DEF IInv, TypeOK, Item, WorkerInv, State, Live, Unfinished, Terminal, Absent, Fresh
  <2> SUFFICES ASSUME NEW x \in Ids, State(x) \in Terminal
               PROVE State(x)' \in {State(x), "absent"}
    OBVIOUS
  <2>1. worker[x] = "ended"
    BY <1>1
  <2>2. ASSUME NEW id \in Ids, Post(id) \/ Age(id)
        PROVE State(x)' \in {State(x), "absent"}
    BY <1>1, <2>2 DEF Post, Age
  <2>8. ASSUME NEW id \in Ids, Start(id) PROVE State(x)' \in {State(x), "absent"}
    <3>1. x # id
      BY <2>1, <2>8 DEF Start
    <3>2. items'[x] = Purged[x]
      BY <2>8, <3>1 DEF Start, Purged
    <3> QED BY <3>2 DEF Purged
  <2>3. ASSUME NEW id \in Ids, WorkerStep(id) PROVE State(x)' \in {State(x), "absent"}
    BY <1>1, <2>1, <2>3
    DEF WorkerStep, Report, Interrupt, Unit, Cancelled, Finish, Fail, SetTerminal
  <2>4. ASSUME NEW id \in Ids, NEW o \in Owners, Cancel(id, o)
        PROVE State(x)' \in {State(x), "absent"}
    BY <1>1, <2>1, <2>4 DEF Cancel
  <2>5. ASSUME NEW o \in Owners, ClearTerminal(o) PROVE State(x)' \in {State(x), "absent"}
    BY <1>1, <2>5 DEF ClearTerminal
  <2>6. ASSUME Restart PROVE State(x)' \in {State(x), "absent"}
    BY <1>1, <2>6 DEF Restart, Reloaded
  <2>7. CASE UNCHANGED vars
    BY <2>7 DEF vars
  <2> QED BY <1>1, <2>2, <2>3, <2>4, <2>5, <2>6, <2>7, <2>8 DEF Next
<1>2. IInv /\ [Next]_vars => [Kept]_vars
  BY <1>1
<1> QED BY <1>2, Invariant, PTL DEF Spec, TerminalIsFinal

\* As long as no unit of work lasts for over an hour, a running operation can
\* always be polled and aborted.
THEOREM LiveOperationsListed == ASSUME ~ LongUnits PROVE Spec => []LiveIsListed
<1>1. IInv => LiveIsListed
  BY DEF IInv, Remembered, LiveIsListed
<1> QED BY <1>1, Invariant, PTL

\* Under the same condition no unit is started after an acknowledged abort.
THEOREM AbortsAreHeeded == ASSUME ~ LongUnits PROVE Spec => CancelStopsWork
<1> DEFINE Heeded == \A id \in Ids :
                worker[id] = "boundary" /\ worker'[id] = "working" => id \notin asked
<1>1. ASSUME IInv, [Next]_vars PROVE Heeded
  <2> SUFFICES ASSUME NEW x \in Ids, worker[x] = "boundary", worker'[x] = "working"
               PROVE x \notin asked
    OBVIOUS
  <2>1. Report(x)
    BY <1>1
    DEF Next, WorkerStep, Post, Start, Report, Interrupt, Unit, Cancelled, Finish, Fail,
        SetTerminal, Cancel, ClearTerminal, Age, Restart, vars, IInv, TypeOK
  <2> QED BY <1>1, <2>1 DEF Report, IInv, Remembered
<1>2. IInv /\ [Next]_vars => [Heeded]_vars
  BY <1>1
<1> QED BY <1>2, Invariant, PTL DEF Spec, CancelStopsWork
=============================================================================
