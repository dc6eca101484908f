------------------------------ MODULE Emulator ------------------------------
(***************************************************************************)
(* The managed interactive emulator (src/app/routes/tools.py,              *)
(* InteractiveEmulator) and the media the routes hand to it: the working   *)
(* image itself, or a scratch floppy that holds one BASIC program and is   *)
(* discarded with the run.  One lock covers a whole start or stop; a       *)
(* process ends on its own at any time, and a thread per process then      *)
(* waits for the lock to release what the process used.  A bounded run     *)
(* holds its request and its media until its process has ended.            *)
(***************************************************************************)
EXTENDS Naturals, FiniteSets

CONSTANTS
    Runs,           \* interactive and bounded runs
    NoRun,          \* no process is registered
    Floppies,       \* how many disks an install request inserts
    MaxFloppies     \* the drives of the machine: MAXIMUM_FLOPPY_DRIVES, 2

ASSUME EmulatorAssumption == NoRun \notin Runs /\ Floppies \subseteq Nat

VARIABLES
    process,        \* the interactive process that is registered
    held,           \* the run whose media context is registered
    alive,          \* runs whose emulator is running
    reaping,        \* runs whose thread has yet to take the lock
    medium,         \* what each run was given to boot
    scratch,        \* runs whose scratch floppy exists
    viewer,         \* the display server and its VNC bridge are running
    recorded        \* runs that are in the file's project history

emulatorVars == <<process, held, alive, reaping, medium, scratch, viewer, recorded>>
-----------------------------------------------------------------------------
Media == {"image", "scratch"}
NotRun(run) == run \notin DOMAIN medium
Given(run, what) == [r \in DOMAIN medium \cup {run} |-> IF r = run THEN what ELSE medium[r]]

EmulatorTypeOK ==
    /\ process \in Runs \cup {NoRun} /\ held \in Runs \cup {NoRun}
    /\ alive \subseteq Runs /\ reaping \subseteq Runs /\ scratch \subseteq Runs
    /\ recorded \subseteq Runs
    /\ DOMAIN medium \subseteq Runs /\ \A run \in DOMAIN medium : medium[run] \in Media
    /\ viewer \in BOOLEAN

EmulatorInit ==
    /\ process = NoRun /\ held = NoRun
    /\ alive = {} /\ reaping = {} /\ scratch = {} /\ recorded = {}
    /\ medium = [run \in {} |-> "image"]
    /\ viewer = FALSE
-----------------------------------------------------------------------------
\* The scratch floppies left when the registered media context is left.
Released == scratch \ {held}

\* emulator_command() refuses more disks than the machine has drives.
Insertable(disks) == disks <= MaxFloppies

\* Entering the media context of a run: a scratch floppy is made for it.
Entered(run, what) == Released \cup IF what = "scratch" THEN {run} ELSE {}

\* InteractiveEmulator.start(): what ran is stopped, then the new run starts.
StartInteractive(run, what, disks) ==
    /\ NotRun(run) /\ Insertable(disks)
    /\ process' = run /\ held' = run
    /\ alive' = (alive \ {process}) \cup {run}
    /\ reaping' = reaping \cup {run}
    /\ medium' = Given(run, what)
    /\ scratch' = Entered(run, what)
    /\ viewer' = TRUE
    /\ recorded' = IF disks = 0 THEN recorded \cup {run} ELSE recorded

\* The run of a file or project in the editor, and the run of an installer,
\* which inserts the disks the request names.
EditorRun(run) == \E what \in Media : StartInteractive(run, what, 0)
InstallerRun(run) == \E disks \in Floppies \ {0} : StartInteractive(run, "image", disks)

\* The command is refused, or a process cannot be started: what ran before is
\* gone all the same, and what was entered for the new run is left again.
StartFails(run, what) ==
    /\ NotRun(run)
    /\ process' = NoRun /\ held' = NoRun
    /\ alive' = alive \ {process}
    /\ medium' = Given(run, what)
    /\ scratch' = Released
    /\ viewer' = FALSE
    /\ UNCHANGED <<reaping, recorded>>

\* InteractiveEmulator.stop().
StopInteractive ==
    /\ process' = NoRun /\ held' = NoRun
    /\ alive' = alive \ {process}
    /\ scratch' = Released
    /\ viewer' = FALSE
    /\ UNCHANGED <<reaping, medium, recorded>>

\* The emulator quits, or the fifteen minutes of its wrapper are over.
ProcessEnds(run) ==
    /\ run \in alive
    /\ alive' = alive \ {run}
    /\ UNCHANGED <<process, held, reaping, medium, scratch, viewer, recorded>>

\* Mistake: the thread of an older process releases what the newer one uses.
ReapUnchecked(run) ==
    /\ run \in reaping /\ run \notin alive
    /\ reaping' = reaping \ {run}
    /\ process' = NoRun /\ held' = NoRun
    /\ scratch' = Released
    /\ viewer' = FALSE
    /\ UNCHANGED <<alive, medium, recorded>>

\* _reap(): the thread has seen its process end and got the lock.
Reap(run) ==
    /\ run \in reaping /\ run \notin alive
    /\ reaping' = reaping \ {run}
    /\ IF process = run
       THEN process' = NoRun /\ held' = NoRun /\ scratch' = Released /\ viewer' = FALSE
       ELSE UNCHANGED <<process, held, scratch, viewer>>
    /\ UNCHANGED <<alive, medium, recorded>>
-----------------------------------------------------------------------------
\* A bounded run or a capture of the drive: media, process and display belong
\* to the request, whichever way the process ends.
StartBounded(run, what) ==
    /\ NotRun(run)
    /\ alive' = alive \cup {run}
    /\ medium' = Given(run, what)
    /\ scratch' = scratch \cup IF what = "scratch" THEN {run} ELSE {}
    /\ UNCHANGED <<process, held, reaping, viewer, recorded>>

Bounded == {run \in DOMAIN medium : run \in alive /\ run # process}

EndBounded(run) ==
    /\ run \in Bounded
    /\ alive' = alive \ {run}
    /\ scratch' = scratch \ {run}
    /\ \/ recorded' = recorded \cup {run}
       \/ UNCHANGED recorded        \* it timed out, or could not be recorded
    /\ UNCHANGED <<process, held, reaping, medium, viewer>>

EmulatorNext ==
    \/ \E run \in Runs :
           \/ EditorRun(run) \/ InstallerRun(run)
           \/ \E what \in Media : StartFails(run, what) \/ StartBounded(run, what)
           \/ run = process /\ ProcessEnds(run)
           \/ Reap(run)
           \/ EndBounded(run)
    \/ StopInteractive

EmulatorSpec == EmulatorInit /\ [][EmulatorNext]_emulatorVars
-----------------------------------------------------------------------------
\* "Only one managed interactive emulator runs at a time" (README.md:1289), and
\* the thread of an ended process takes nothing from its successor: a running
\* process is the registered one with its viewer and its media, or a bounded
\* one, and a scratch floppy never outlives the last of them unreaped.
RunsKeepTheirMedia ==
    /\ \A run \in alive : run \notin reaping \/ (process = run /\ held = run /\ viewer)
    /\ \A run \in alive : medium[run] = "scratch" => run \in scratch
    /\ \A run \in scratch : run \in alive \/ (held = run /\ run \in reaping)
    /\ viewer => process # NoRun

\* "The working image itself is never given to the emulator, so Run and Debug
\* cannot corrupt it" (README.md:1295).
WorkingImageNeverGiven == \A run \in alive : medium[run] # "image"
=============================================================================
