------------------------------ MODULE AppUpdate ------------------------------
(***************************************************************************)
(* The update of the application itself (src/app/app_update.py): one       *)
(* AppUpdater per server, asked from every About box.  A check and an      *)
(* installation each run in a thread of their own, started only when the   *)
(* phase is not a busy one; the thread is given an event by which the user *)
(* may stop the download, and gives the event up as its very last step,    *)
(* after the phase has changed.  Requests that use a floppy drive hold the *)
(* Activity counter, which an installation looks at before it asks for the *)
(* password, and a restart before it happens; apt itself starts later.     *)
(***************************************************************************)
EXTENDS Naturals, FiniteSets, MediaActivity

CONSTANTS
    Threads,        \* threads started for a check or an installation
    NoThread        \* no cancel event

ASSUME UpdateAssumption == NoThread \notin Threads

VARIABLES
    phase,          \* AppUpdater._state.phase
    release,        \* AppUpdater._state.release
    thread,         \* what each thread is doing
    cancelEvent,    \* AppUpdater._cancel, by the thread it was given to
    cancelled,      \* threads whose event is set
    debFile,        \* the downloaded file in the folder of updates
    appInstalled,      \* what apt was given last
    restarting      \* the page was told that it may restart

updateVars ==
    <<phase, release, thread, cancelEvent, cancelled, debFile, appInstalled, restarting>>
-----------------------------------------------------------------------------
BusyPhases == {"checking", "downloading", "installing"}
Phases == BusyPhases \cup {"idle", "current", "available", "installed", "failed"}
Releases == {"none", "installable", "to download by hand"}
Steps == {"idle", "checking", "downloading", "downloaded", "asking", "installing", "ending"}
Packages == {"none", "partial", "unverified", "verified"}

UpdateTypeOK ==
    /\ phase \in Phases /\ release \in Releases
    /\ thread \in [Threads -> Steps]
    /\ cancelEvent \in Threads \cup {NoThread}
    /\ cancelled \subseteq Threads
    /\ debFile \in Packages /\ appInstalled \in Packages
    /\ restarting \in BOOLEAN

\* A process that has just started, with what an earlier one left in the folder.
FreshProcess ==
    /\ phase = "idle" /\ release = "none"
    /\ thread = [t \in Threads |-> "idle"]
    /\ cancelEvent = NoThread /\ cancelled = {}
    /\ restarting = FALSE

UpdateInit ==
    /\ FreshProcess
    /\ debFile \in {"none", "partial"}
    /\ appInstalled = "none"

Busy == phase \in BusyPhases
ThreadAt(t, step) == thread[t] = step
Goes(t, step) == thread' = [thread EXCEPT ![t] = step]
Become(newPhase, newRelease) == phase' = newPhase /\ release' = newRelease
-----------------------------------------------------------------------------
(***************************************************************************)
(* Requests of the About box.                                              *)
(***************************************************************************)

\* check(): a new state, which forgets the release an earlier check found.
StartCheck(t) ==
    /\ ~ Busy
    /\ ThreadAt(t, "idle")
    /\ Become("checking", "none")
    /\ Goes(t, "checking")
    /\ UNCHANGED <<cancelEvent, cancelled, debFile, appInstalled, restarting>>

\* install(): only the release that a check found.  While a drive is in use the
\* answer only says so.
StartInstall(t) ==
    /\ phase = "available" /\ release = "installable"
    /\ ~ MediaBusy
    /\ ThreadAt(t, "idle")
    /\ Become("downloading", release)
    /\ Goes(t, "downloading")
    /\ cancelEvent' = t
    /\ cancelled' = cancelled \ {t}
    /\ UNCHANGED <<debFile, appInstalled, restarting>>

\* Mistake: the phase is put back at once, for the About box to show.
CancelAtOnce ==
    /\ cancelEvent # NoThread
    /\ cancelled' = cancelled \cup {cancelEvent}
    /\ Become("available", release)
    /\ UNCHANGED <<thread, cancelEvent, debFile, appInstalled, restarting>>

\* cancel(): whatever event the updater points at.
Cancel ==
    /\ cancelEvent # NoThread
    /\ cancelled' = cancelled \cup {cancelEvent}
    /\ UNCHANGED <<phase, release, thread, cancelEvent, debFile, appInstalled, restarting>>

\* restart_refusal(): the page asks, and sends the message when nothing is in use.
AskRestart ==
    /\ phase = "installed"
    /\ ~ MediaBusy
    /\ restarting' = TRUE
    /\ UNCHANGED <<phase, release, thread, cancelEvent, cancelled, debFile, appInstalled>>
-----------------------------------------------------------------------------
(***************************************************************************)
(* The threads.                                                            *)
(***************************************************************************)

\* The request to GitHub ends one way or another; it has a time limit.
EndCheck(t) ==
    /\ ThreadAt(t, "checking")
    /\ \/ Become("failed", "none") \/ Become("current", "none")
       \/ \E found \in Releases \ {"none"} : Become("available", found)
    /\ Goes(t, "idle")
    /\ UNCHANGED <<cancelEvent, cancelled, debFile, appInstalled, restarting>>

\* _fetch(): blocks of the package, into a partial file.  The event is looked at
\* between blocks, and the partial file goes whatever happens.
FetchBlock(t) ==
    /\ ThreadAt(t, "downloading") /\ t \notin cancelled
    /\ debFile' = "partial"
    /\ UNCHANGED <<phase, release, thread, cancelEvent, cancelled, appInstalled, restarting>>

StopFetch(t) ==
    /\ ThreadAt(t, "downloading")
    /\ \/ t \in cancelled /\ Become("available", release)
       \/ Become("failed", release)
    /\ debFile' = "none"
    /\ Goes(t, "ending")
    /\ UNCHANGED <<cancelEvent, cancelled, appInstalled, restarting>>

\* Mistake: the file is handed on without its sum.
PackageUnverified(t) ==
    /\ ThreadAt(t, "downloading")
    /\ debFile' = "unverified"
    /\ Goes(t, "downloaded")
    /\ UNCHANGED <<phase, release, cancelEvent, cancelled, appInstalled, restarting>>

\* download(): the last block has come, so the event is not looked at again.  A
\* file that differs from SHA256SUMS is removed.
PackageArrives(t) ==
    /\ ThreadAt(t, "downloading")
    /\ \/ debFile' = "verified" /\ Goes(t, "downloaded") /\ UNCHANGED <<phase, release>>
       \/ debFile' = "none" /\ Goes(t, "ending") /\ Become("failed", release)
    /\ UNCHANGED <<cancelEvent, cancelled, appInstalled, restarting>>

\* Mistake: the thread waits until no drive is in use.
AskWhenFree(t) ==
    /\ ThreadAt(t, "downloaded") /\ ~ MediaBusy
    /\ Become("installing", release) /\ Goes(t, "asking")
    /\ UNCHANGED <<cancelEvent, cancelled, debFile, appInstalled, restarting>>

\* A drive may have been started while the package came.  When none is in use the
\* system asks for the password, and the lock is let go.
AskPassword(t) ==
    /\ ThreadAt(t, "downloaded")
    /\ \/ MediaBusy /\ Become("available", release) /\ Goes(t, "ending")
       \/ ~ MediaBusy /\ Become("installing", release) /\ Goes(t, "asking")
    /\ UNCHANGED <<cancelEvent, cancelled, debFile, appInstalled, restarting>>

\* install(): there is no pkexec, or the prompt is dismissed or refused.
RefusePassword(t) ==
    /\ ThreadAt(t, "asking")
    /\ Become("available", release) \/ Become("failed", release)
    /\ Goes(t, "ending")
    /\ UNCHANGED <<cancelEvent, cancelled, debFile, appInstalled, restarting>>

\* install(): the prompt is answered, however long that took, and apt runs as
\* root with the package.  Nothing looks at the drives again.
StartApt(t) ==
    /\ ThreadAt(t, "asking")
    /\ Goes(t, "installing")
    /\ appInstalled' = debFile
    /\ UNCHANGED <<phase, release, cancelEvent, cancelled, debFile, restarting>>

\* apt fails or succeeds, and then the package is removed.
EndInstall(t) ==
    /\ ThreadAt(t, "installing")
    /\ \/ Become("failed", release) /\ UNCHANGED debFile
       \/ Become("installed", release) /\ debFile' = "none"
    /\ Goes(t, "ending")
    /\ UNCHANGED <<cancelEvent, cancelled, appInstalled, restarting>>

\* finally: the event is given up, whoever's it is by now.
GiveUpEvent(t) ==
    /\ ThreadAt(t, "ending")
    /\ cancelEvent' = NoThread
    /\ Goes(t, "idle")
    /\ UNCHANGED <<phase, release, cancelled, debFile, appInstalled, restarting>>

\* The window is closed, or replaced by a new process after the page was told
\* that it may restart; the threads end where they are.
EndProcess ==
    /\ phase' = "idle" /\ release' = "none"
    /\ thread' = [t \in Threads |-> "idle"]
    /\ cancelEvent' = NoThread /\ cancelled' = {}
    /\ restarting' = FALSE
    /\ UNCHANGED <<debFile, appInstalled>>

ThreadStep(t) ==
    \/ EndCheck(t) \/ FetchBlock(t) \/ StopFetch(t) \/ PackageArrives(t)
    \/ AskPassword(t) \/ RefusePassword(t) \/ StartApt(t) \/ EndInstall(t) \/ GiveUpEvent(t)

UpdateNext ==
    \/ \E t \in Threads : StartCheck(t) \/ StartInstall(t) \/ ThreadStep(t)
    \/ Cancel \/ AskRestart

\* The updater among requests that take drives and give them back, and with a
\* process that may end.
AmongRequests ==
    \/ UpdateNext /\ UNCHANGED inUse
    \/ UNCHANGED updateVars /\ inUse' \in SUBSET Drives
    \/ EndProcess /\ inUse' = {}

UpdateSpec == UpdateInit /\ inUse = {} /\ [][AmongRequests]_<<updateVars, inUse>>

\* A check and a download have time limits, and what follows them runs by
\* itself; the password prompt may stay open for ever.
UpdateFairness(t) ==
    /\ WF_updateVars(EndCheck(t) \/ StopFetch(t) \/ PackageArrives(t))
    /\ WF_updateVars(AskPassword(t))
    /\ WF_updateVars(GiveUpEvent(t))
-----------------------------------------------------------------------------
StillWorking(t) == thread[t] \notin {"idle", "ending"}

\* The phase is that of the one thread at work.  No thread compares before it
\* sets the phase, so two at work would overwrite each other's outcome and share
\* the partial file.  What apt is given has the published sum, whatever was left
\* in the folder by a download that was cancelled, failed or cut off.
UpdateIsSafe ==
    /\ Cardinality({t \in Threads : StillWorking(t)}) <= 1
    /\ Busy <=> \E t \in Threads : StillWorking(t)
    /\ appInstalled \in {"none", "verified"}

\* What create_desktop_blueprint promises of the requests that use a drive: an
\* update waits for them, so apt never starts while one is running.  The code does
\* not keep it, as the drives are looked at before the password is asked for.
InstallSparesDrives ==
    [][\A t \in Threads :
        ~ ThreadAt(t, "installing") /\ thread'[t] = "installing" => ~ MediaBusy]_<<updateVars, inUse>>

\* A check or a download that has begun ends, with an outcome to show, or hands
\* over to apt; a cancelled one included, and one whose event an earlier thread
\* gave up, and one that finds a drive in use for as long as its request takes.
UpdateSettles ==
    phase \in {"checking", "downloading"} ~> phase \notin {"checking", "downloading"}
=============================================================================
