-------------------------- MODULE OperationRegistry --------------------------
(***************************************************************************)
(* The registry of tracked operations (src/app/operations.py).             *)
(*                                                                         *)
(* A browser invents an identifier, posts a long request under it, polls   *)
(* the record the request keeps in the registry, and may ask for it to be  *)
(* aborted.  The request's thread (the worker) learns of the abort at the  *)
(* next progress report, which is its only safe boundary.  The requests    *)
(* for progress and the abort travel separately from the request itself,   *)
(* so an abort may arrive before the worker has started or after it ended. *)
(* Every operation of the registry runs under its lock and ends by storing *)
(* all records with an atomic replacement, so what a restart reads back is *)
(* what memory held: one variable stands for both.                         *)
(***************************************************************************)
EXTENDS Naturals

CONSTANTS
    Owners,     \* the browsers
    Numbers,    \* tell the operations of one browser apart
    NoOwner,    \* the owner field of a record that does not exist
    MaxUnits,   \* bound: units of work (disks, files) in one operation
    LongUnits   \* whether one unit of work may last for over an hour

ASSUME UnitsAssumption == MaxUnits \in Nat
ASSUME LongUnitsAssumption == LongUnits \in BOOLEAN

VARIABLES
    items,      \* items[id]: the record kept for the operation
    worker,     \* worker[id]: where the request's thread is
    units,      \* units[id]: units of work it has finished
    asked       \* the operations whose abort the registry has acknowledged

vars == <<items, worker, units, asked>>
-----------------------------------------------------------------------------
\* The operation identifiers browsers invent, and who invented one.
Ids == Owners \X Numbers
Owner(id) == id[1]

Terminal == {"complete", "failed", "cancelled", "interrupted", "paused"}
Unfinished == {"running", "cancelling"}

Absent == [state |-> "absent", owner |-> NoOwner, stale |-> FALSE]
\* `stale`: more than an hour has passed since the record's updatedAt.
Item == [state : Terminal \cup Unfinished \cup {"absent"},
         owner : Owners \cup {NoOwner},
         stale : BOOLEAN]
Fresh(state, owner) == [state |-> state, owner |-> owner, stale |-> FALSE]

State(id) == items[id].state
Live == {"boundary", "working", "aborting"}

TypeOK ==
    /\ items \in [Ids -> Item]
    /\ worker \in [Ids -> {"idle", "posted", "ended"} \cup Live]
    /\ units \in [Ids -> 0 .. MaxUnits]
    /\ asked \subseteq Ids

Init ==
    /\ items = [id \in Ids |-> Absent]
    /\ worker = [id \in Ids |-> "idle"]
    /\ units = [id \in Ids |-> 0]
    /\ asked = {}
-----------------------------------------------------------------------------
\* The browser invents the identifier and sends the request (the function
\* trackedPaneOperation of operation-ui.js); from now on it can send an abort.
Post(id) ==
    /\ worker[id] = "idle"
    /\ worker' = [worker EXCEPT ![id] = "posted"]
    /\ UNCHANGED <<items, units, asked>>

(***************************************************************************)
(* The worker: OperationRegistry.tracked around one request.               *)
(***************************************************************************)

\* start() drops every record untouched for an hour, its own included, before
\* it looks for an abort that arrived first.
Purged == [id \in Ids |-> IF items[id].stale THEN Absent ELSE items[id]]

\* Mistake: start() overwrites the record without looking for an earlier abort.
StartForgetsAbort(id) ==
    /\ worker[id] = "posted"
    /\ items' = [Purged EXCEPT ![id] = Fresh("running", Owner(id))]
    /\ worker' = [worker EXCEPT ![id] = "boundary"]
    /\ UNCHANGED <<units, asked>>

Start(id) ==
    /\ worker[id] = "posted"
    /\ items' = [Purged EXCEPT ![id] =
                    Fresh(IF Purged[id].state = "cancelling"
                            THEN "cancelling" ELSE "running",
                          Owner(id))]
    /\ worker' = [worker EXCEPT ![id] = "boundary"]
    /\ UNCHANGED <<units, asked>>

\* update(): the progress report before a unit.  A record that is gone is
\* ignored and the work continues.
Report(id) ==
    /\ worker[id] = "boundary"
    /\ units[id] < MaxUnits
    /\ State(id) # "cancelling"
    /\ items' = [items EXCEPT ![id].stale = FALSE]
    /\ worker' = [worker EXCEPT ![id] = "working"]
    /\ UNCHANGED <<units, asked>>

\* update() of a record marked "cancelling" raises OperationCancelled.
Interrupt(id) ==
    /\ worker[id] = "boundary"
    /\ units[id] < MaxUnits
    /\ State(id) = "cancelling"
    /\ worker' = [worker EXCEPT ![id] = "aborting"]
    /\ UNCHANGED <<items, units, asked>>

\* The request's own work between two reports.
Unit(id) ==
    /\ worker[id] = "working"
    /\ units' = [units EXCEPT ![id] = @ + 1]
    /\ worker' = [worker EXCEPT ![id] = "boundary"]
    /\ UNCHANGED <<items, asked>>

\* Mistake: only a running record may become terminal.
SetTerminalIfRunning(id, state) ==
    /\ items' = IF State(id) # "running" THEN items
                ELSE [items EXCEPT ![id].state = state, ![id].stale = FALSE]
    /\ worker' = [worker EXCEPT ![id] = "ended"]
    /\ UNCHANGED <<units, asked>>

\* _set_terminal(): nothing is done for a record that is gone.
SetTerminal(id, state) ==
    /\ items' = IF State(id) = "absent" THEN items
                ELSE [items EXCEPT ![id].state = state, ![id].stale = FALSE]
    /\ worker' = [worker EXCEPT ![id] = "ended"]
    /\ UNCHANGED <<units, asked>>

\* Mistake: an outcome that is not one of the terminal states.
CancelledAsAborted(id) == worker[id] = "aborting" /\ SetTerminal(id, "aborted")

Cancelled(id) == worker[id] = "aborting" /\ SetTerminal(id, "cancelled")
Finish(id) == worker[id] = "boundary" /\ SetTerminal(id, "complete")
Fail(id) == worker[id] \in {"boundary", "working"} /\ SetTerminal(id, "failed")
-----------------------------------------------------------------------------
(***************************************************************************)
(* Requests that arrive on their own, time and restarts.                   *)
(***************************************************************************)

\* Mistake: any record becomes "cancelling", a finished one included.
CancelAnyState(id, o) ==
    /\ worker[id] # "idle"
    /\ items[id].owner \in {NoOwner, o}
    /\ items' = [items EXCEPT ![id] = Fresh("cancelling", o)]
    /\ asked' = asked \cup {id}
    /\ UNCHANGED <<worker, units>>

\* cancel() by browser o.  An abort of an unknown operation is recorded, so
\* that it is seen by a worker that starts later.  A record of another
\* browser is refused; a finished one is returned as it is.
Cancel(id, o) ==
    /\ worker[id] # "idle"
    /\ items[id].owner \in {NoOwner, o}
    /\ items' = CASE State(id) = "absent" ->
                        [items EXCEPT ![id] = Fresh("cancelling", o)]
                  [] State(id) = "running" ->
                        [items EXCEPT ![id].state = "cancelling",
                                      ![id].stale = FALSE]
                  [] OTHER -> items
    /\ asked' = IF State(id) \in Terminal THEN asked ELSE asked \cup {id}
    /\ UNCHANGED <<worker, units>>

\* Mistake: every record of the browser is removed.
ClearEverything(o) ==
    /\ items' = [id \in Ids |->
                    IF items[id].owner \in {NoOwner, o} THEN Absent ELSE items[id]]
    /\ UNCHANGED <<worker, units, asked>>

\* clear_terminal() by browser o.
ClearTerminal(o) ==
    /\ items' = [id \in Ids |->
                    IF State(id) \in Terminal /\ items[id].owner \in {NoOwner, o}
                    THEN Absent ELSE items[id]]
    /\ UNCHANGED <<worker, units, asked>>

\* An hour passes without a report: after the end, or within one unit of work.
Age(id) ==
    /\ worker[id] = "ended" \/ (LongUnits /\ worker[id] = "working")
    /\ State(id) # "absent"
    /\ items' = [items EXCEPT ![id].stale = TRUE]
    /\ UNCHANGED <<worker, units, asked>>

\* Mistake: only an operation that was being aborted is marked.
ReloadedIfCancelling(item) ==
    IF item.state = "cancelling" THEN [item EXCEPT !.state = "interrupted"] ELSE item

\* The process dies and starts again: requests in flight and workers are gone
\* and _load() marks what was unfinished.
Reloaded(item) ==
    IF item.state \in Unfinished THEN [item EXCEPT !.state = "interrupted"] ELSE item

Restart ==
    /\ items' = [id \in Ids |-> Reloaded(items[id])]
    /\ worker' = [id \in Ids |-> IF worker[id] = "idle" THEN "idle" ELSE "ended"]
    /\ UNCHANGED <<units, asked>>
-----------------------------------------------------------------------------
WorkerStep(id) ==
    Report(id) \/ Interrupt(id) \/ Unit(id) \/ Cancelled(id) \/ Finish(id) \/ Fail(id)

Next ==
    \/ \E id \in Ids : Post(id) \/ Start(id) \/ WorkerStep(id) \/ Age(id)
    \/ \E id \in Ids, o \in Owners : Cancel(id, o)
    \/ \E o \in Owners : ClearTerminal(o)
    \/ Restart

Spec == Init /\ [][Next]_vars

\* A thread of the server keeps running; nobody has to abort, clear or restart.
FairSpec == Spec /\ \A id \in Ids : WF_vars(Start(id) \/ WorkerStep(id))
-----------------------------------------------------------------------------
(***************************************************************************)
(* Properties.                                                             *)
(***************************************************************************)

\* A record says "running" only while a thread is running for it: the Jobs
\* panel never shows a job that nothing will ever finish (a restart has to
\* see to that, and an abort must not restart a finished record).
RunningHasWorker == \A id \in Ids : State(id) = "running" => worker[id] \in Live

\* While its worker runs, an operation has a record that can be polled and
\* aborted, whatever other browsers start, clear or abort meanwhile.
LiveIsListed == \A id \in Ids : worker[id] \in Live => State(id) \in Unfinished

\* What an operation ended as is never changed afterwards, by a late abort or
\* by a restart: the record keeps its outcome until it is removed.
TerminalIsFinal ==
    [][\A id \in Ids : State(id) \in Terminal => State(id)' \in {State(id), "absent"}]_vars

\* Once an abort has been acknowledged, no further unit of the operation is
\* started, also when the abort overtook the request.
CancelStopsWork ==
    [][\A id \in Ids : worker[id] = "boundary" /\ worker'[id] = "working"
                            => id \notin asked]_vars

\* An aborted operation reaches an end that the panel shows.
AbortReachesEnd ==
    \A id \in Ids : (id \in asked /\ worker[id] \notin {"idle", "ended"}) ~> State(id) \notin Unfinished
=============================================================================
