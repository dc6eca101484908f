----------------------------- MODULE DesktopHost -----------------------------
(***************************************************************************)
(* The Linux desktop shell (src/desktop/__main__.py) opening local images. *)
(* Four parties take turns: the user's choosers, drops and file            *)
(* associations; the main loop, which runs callbacks in order; the page,   *)
(* where each choice is reviewed; and one worker thread that asks the      *)
(* private server to open the reviewed images, one after another.          *)
(***************************************************************************)
EXTENDS Naturals, Sequences

CONSTANT Selections     \* what the user chooses to open

VARIABLES
    pageLoaded,     \* the page has finished loading
    pendingPaths,   \* choices made before the page can be told of them
    callbacks,      \* GLib.idle_add: what the main loop runs next
    openQueue,      \* reviewed plans for the worker
    openWorker,     \* what the worker is doing, and which plan it holds
    hostStopping,   \* the application is shutting down
    pane            \* what the page shows for each choice

hostVars ==
    <<pageLoaded, pendingPaths, callbacks, openQueue, openWorker, hostStopping, pane>>
-----------------------------------------------------------------------------
Callback == [call : {"review", "opening", "image", "error"}, selection : Selections]
PaneStates == {"unused", "chosen", "under review", "declined", "submitted", "opening", "open", "refused"}
NoPlan == [doing |-> "none"]
WorkerStates ==
    {NoPlan, [doing |-> "waiting"], [doing |-> "ended"]}
        \cup [doing : {"opening"}, selection : Selections]

HostTypeOK ==
    /\ pageLoaded \in BOOLEAN /\ hostStopping \in BOOLEAN
    /\ pendingPaths \in Seq(Selections) /\ openQueue \in Seq(Selections)
    /\ callbacks \in Seq(Callback)
    /\ openWorker \in WorkerStates
    /\ pane \in [Selections -> PaneStates]

HostInit ==
    /\ pageLoaded = FALSE /\ hostStopping = FALSE
    /\ pendingPaths = <<>> /\ openQueue = <<>> /\ callbacks = <<>>
    /\ openWorker = NoPlan
    /\ pane = [s \in Selections |-> "unused"]

Review(s) == [call |-> "review", selection |-> s]
Deliver(call, s) == callbacks' = Append(callbacks, [call |-> call, selection |-> s])
PaneBecomes(s, state) == pane' = [pane EXCEPT ![s] = state]

\* Mistake: the list is emptied although the page cannot be told yet.
DrainAlways(paths) ==
    /\ pendingPaths' = <<>>
    /\ callbacks' = IF pageLoaded' THEN callbacks \o [i \in 1 .. Len(paths) |-> Review(paths[i])]
                    ELSE callbacks

\* _drain_paths(): every pending choice becomes a callback, in order.
DrainPaths(paths) ==
    IF pageLoaded'
    THEN /\ pendingPaths' = <<>>
         /\ callbacks' = callbacks \o [i \in 1 .. Len(paths) |-> Review(paths[i])]
    ELSE pendingPaths' = paths /\ UNCHANGED callbacks

\* A chooser, a drop or a file association.
ChooseFiles(s) ==
    /\ ~ hostStopping
    /\ pane[s] = "unused"
    /\ PaneBecomes(s, "chosen")
    /\ UNCHANGED pageLoaded
    /\ DrainPaths(Append(pendingPaths, s))
    /\ UNCHANGED <<openQueue, openWorker, hostStopping>>

\* _loaded().
FinishLoading ==
    /\ ~ hostStopping
    /\ ~ pageLoaded /\ pageLoaded' = TRUE
    /\ DrainPaths(pendingPaths)
    /\ UNCHANGED <<openQueue, openWorker, hostStopping, pane>>

\* _start_open_worker(): unless one is alive.
StartWorker ==
    openWorker' = IF openWorker.doing \in {"none", "ended"} THEN [doing |-> "waiting"] ELSE openWorker

\* _review_open_plans(): the plan is sound, and goes to the worker.
PlanQueued(s) == openQueue' = Append(openQueue, s) /\ StartWorker /\ UNCHANGED callbacks

\* The file is gone by now, and the answer is an error.
PlanRefused(s) == Deliver("error", s) /\ UNCHANGED <<openQueue, openWorker>>

\* The user accepts the review: the page posts its plan to _desktop_message().
SubmitPlan(s) ==
    /\ ~ hostStopping
    /\ pane[s] = "under review"
    /\ PaneBecomes(s, "submitted")
    /\ PlanQueued(s) \/ PlanRefused(s)
    /\ UNCHANGED <<pageLoaded, pendingPaths, hostStopping>>

DeclinePlan(s) ==
    /\ ~ hostStopping
    /\ pane[s] = "under review"
    /\ PaneBecomes(s, "declined")
    /\ UNCHANGED <<pageLoaded, pendingPaths, callbacks, openQueue, openWorker, hostStopping>>

\* The main loop tells the page: _deliver_selection(), _deliver_opening(),
\* _deliver_image(), _deliver_error().  An error takes a pane out of the opening
\* state, and only then; a file that is gone is an error at once.
RunCallback ==
    /\ callbacks # <<>>
    /\ LET s == Head(callbacks).selection
       IN  CASE Head(callbacks).call = "review" ->
                    \E state \in {"under review", "refused"} : PaneBecomes(s, state)
             [] Head(callbacks).call = "opening" -> PaneBecomes(s, "opening")
             [] Head(callbacks).call = "image" -> PaneBecomes(s, "open")
             [] Head(callbacks).call = "error" -> PaneBecomes(s, "refused")
    /\ callbacks' = Tail(callbacks)
    /\ UNCHANGED <<pageLoaded, pendingPaths, openQueue, openWorker, hostStopping>>

\* _open_plans(): the next plan, announced before its request is made.
TakePlan ==
    /\ openWorker.doing = "waiting" /\ ~ hostStopping
    /\ openQueue # <<>>
    /\ openQueue' = Tail(openQueue)
    /\ openWorker' = [doing |-> "opening", selection |-> Head(openQueue)]
    /\ Deliver("opening", Head(openQueue))
    /\ UNCHANGED <<pageLoaded, pendingPaths, hostStopping, pane>>

\* Mistake: a plan that fails is dropped without telling the page.
FinishPlanSilently ==
    /\ openWorker.doing = "opening"
    /\ openWorker' = [doing |-> IF hostStopping THEN "ended" ELSE "waiting"]
    /\ \/ Deliver("image", openWorker.selection)
       \/ UNCHANGED callbacks
    /\ UNCHANGED <<pageLoaded, pendingPaths, openQueue, hostStopping, pane>>

\* The server answers, refuses, or does not answer in an hour.
FinishPlan ==
    /\ openWorker.doing = "opening"
    /\ openWorker' = [doing |-> IF hostStopping THEN "ended" ELSE "waiting"]
    /\ \E call \in {"image", "error"} : Deliver(call, openWorker.selection)
    /\ UNCHANGED <<pageLoaded, pendingPaths, openQueue, hostStopping, pane>>

\* _stop_workers(): on closing the window and again on shutdown.
StopHost ==
    /\ ~ hostStopping /\ hostStopping' = TRUE
    /\ openWorker' = IF openWorker.doing = "waiting" THEN [doing |-> "ended"] ELSE openWorker
    /\ UNCHANGED <<pageLoaded, pendingPaths, callbacks, openQueue, pane>>

HostNext ==
    \/ \E s \in Selections : ChooseFiles(s) \/ SubmitPlan(s) \/ DeclinePlan(s)
    \/ FinishLoading \/ RunCallback \/ TakePlan \/ FinishPlan \/ StopHost
-----------------------------------------------------------------------------
\* "A pane is put into the opening state before the work starts and nothing else
\* takes it out again": as long as the application runs, what the user chose is
\* put before him, and what he submits ends with an image or an error, even what
\* was chosen before the page had loaded or behind a plan that failed.
ChosenIsAnswered ==
    \A s \in Selections :
        pane[s] \in {"chosen", "submitted", "opening"}
            ~> pane[s] \in {"under review", "open", "refused"} \/ hostStopping
=============================================================================
