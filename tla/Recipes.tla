------------------------------- MODULE Recipes -------------------------------
(***************************************************************************)
(* The headless commands that keep a recipe of what they did, the workflow *)
(* bundle exported from a session, and recipe-run, which does it again     *)
(* (app/cli.py, app/headless.py, app/workflow_recipe.py). The user's files *)
(* are outside the program: they may be edited, and time passes, between   *)
(* any two steps of a run.                                                 *)
(*                                                                         *)
(* An image is the serial number of its volume and the entries of each of  *)
(* its partitions, every entry with the moment stamped on it; a partition  *)
(* that was compacted is tidy.                                             *)
(***************************************************************************)
EXTENDS Naturals, FiniteSets, SequencesExt

CONSTANTS
    ImagePaths,   \* where the user keeps images
    DriveParts,   \* the partitions of an image; 0 is the one used by default
    Serials,      \* what os.urandom() can give a new volume
    MaxTime,      \* bound on the clock
    MaxCommands,  \* bound on the commands and runs started
    NoImageFile,  \* there is no image file at a path, no recipe, no run
    NoPart        \* --partition was not given

ASSUME DefaultPartition == 0 \in DriveParts

VARIABLES
    disk,      \* the image at each path
    time,      \* the clock
    session,   \* the image open in the browser and its retained checkpoints
    recipe,    \* the recipe document kept last
    replay,    \* the recipe run under way: what it has opened
    result,    \* how the last run ended
    commands   \* commands and runs so far

recipeVars == <<disk, time, session, recipe, replay, result, commands>>

Entry(name, when) == [name |-> name, stamp |-> when]
Nameless == Entry("", 0)
EmptyPart == [held |-> {}, tidy |-> TRUE]
Part(p) == IF p = NoPart THEN 0 ELSE p

\* format_volume(): the serial number is drawn afresh.
NewImage(serial) == [serial |-> serial, parts |-> [p \in DriveParts |-> EmptyPart]]

\* A file put, or a folder made, without a datestamp is stamped with the clock.
Holding(image, p, name, when) ==
    [image EXCEPT !.parts[p] = [held |-> {e \in @.held : e.name # name} \cup {Entry(name, when)},
                                tidy |-> FALSE]]

Compacted(image, p) == [image EXCEPT !.parts[p].tidy = TRUE]

\* manifest_fingerprint(): what is held, not how the bytes lie.
Fingerprint(image) == [p \in DriveParts |-> {e.name : e \in image.parts[p].held}]

-----------------------------------------------------------------------------
(* Recipes: the source image, the actions in order, the expected output *)

Step(kind, p, entry) == [kind |-> kind, part |-> p, entry |-> entry]

Document(source, steps, output) == [source |-> source, steps |-> steps, output |-> output]

\* What one action of a recipe does to the open image when it is run again. The
\* partition an action records is not selected: the default one is worked on. A
\* patch restores the datestamp of a file; a folder it makes is stamped anew.
Redone(image, step, when) ==
    CASE step.kind = "import-file" -> Holding(image, 0, step.entry.name, when)
      [] step.kind = "compact"     -> Compacted(image, 0)
      [] step.kind = "apply-patch" ->
            Holding(image, 0, step.entry.name,
                    IF step.entry.name = "folder" THEN when ELSE step.entry.stamp)
      [] OTHER -> image

RedoneAll(image, steps, when) == FoldLeft(LAMBDA open, step : Redone(open, step, when), image, steps)

-----------------------------------------------------------------------------
RecipesInit ==
    /\ disk = [p \in ImagePaths |-> NoImageFile]
    /\ time = 0
    /\ session = NoImageFile
    /\ recipe = NoImageFile
    /\ replay = NoImageFile
    /\ result = "none"
    /\ commands = 0

Command == commands < MaxCommands /\ replay = NoImageFile /\ commands' = commands + 1

\* save_image() to a path that is free and is not one of the inputs.
Saved(path, image, document) ==
    /\ Command
    /\ disk[path] = NoImageFile
    /\ disk' = [disk EXCEPT ![path] = image]
    /\ recipe' = document
    /\ result' = "none"
    /\ UNCHANGED <<time, session, replay>>

Create(path) ==
    \E serial \in Serials :
        Saved(path, NewImage(serial),
              Document(NoImageFile, <<Step("create", NoPart, Nameless)>>, NewImage(serial)))

ImportFile(from, path, p) ==
    /\ disk[from] # NoImageFile
    /\ LET output == Holding(disk[from], Part(p), "payload", time)
       IN Saved(path, output, Document(disk[from], <<Step("import-file", p, Entry("payload", time))>>, output))

Compact(from, path, p) ==
    /\ disk[from] # NoImageFile
    /\ LET output == Compacted(disk[from], Part(p))
       IN Saved(path, output, Document(disk[from], <<Step("compact", p, Nameless)>>, output))

\* save and convert-container leave the bytes of the volume as they are.
SaveCopy(from, path) ==
    /\ disk[from] # NoImageFile
    /\ Saved(path, disk[from], Document(disk[from], <<Step("save", NoPart, Nameless)>>, disk[from]))

-----------------------------------------------------------------------------
(* The browser's session and its workflow bundle *)

OpenSession(path) ==
    /\ Command
    /\ disk[path] # NoImageFile
    /\ session' = [now |-> disk[path], points |-> <<>>, dirty |-> FALSE, added |-> <<>>]
    /\ UNCHANGED <<disk, time, recipe, replay, result>>

\* An edit, with the checkpoint the request middleware takes before it.
EditSession(name) ==
    /\ Command
    /\ session # NoImageFile
    /\ name \notin {session.added[i].name : i \in DOMAIN session.added}
    /\ session' = [now |-> Holding(session.now, 0, name, time),
                   points |-> Append(session.points, session.now),
                   dirty |-> TRUE, added |-> Append(session.added, Entry(name, time))]
    /\ UNCHANGED <<disk, time, recipe, replay, result>>

\* The oldest checkpoint makes room.
PruneCheckpoint ==
    /\ replay = NoImageFile
    /\ session # NoImageFile /\ session.points # <<>>
    /\ session' = [session EXCEPT !.points = Tail(@), !.added = Tail(@)]
    /\ UNCHANGED <<disk, time, recipe, replay, result, commands>>

\* The base is the oldest checkpoint, or an image never edited.
CheckpointSource == IF session.points = <<>> THEN session.now ELSE Head(session.points)

\* The output is what a replay of the patch gives, here and now.
ExportWorkflow ==
    /\ Command
    /\ session # NoImageFile
    /\ session.points # <<>> \/ ~session.dirty
    /\ LET base  == CheckpointSource
           steps == [i \in DOMAIN session.added |-> Step("apply-patch", NoPart, session.added[i])]
       IN recipe' = Document(base, steps, RedoneAll(base, steps, time))
    /\ UNCHANGED <<disk, time, session, replay, result>>

-----------------------------------------------------------------------------
(* recipe-run *)

\* Every source's size and checksum are compared before anything is opened.
StartRun(given, target) ==
    /\ Command
    /\ recipe # NoImageFile
    /\ disk[target] = NoImageFile
    /\ recipe.source # NoImageFile => disk[given] # NoImageFile /\ given # target
    /\ IF recipe.source = NoImageFile \/ disk[given] = recipe.source
       THEN /\ result' = "none"
            /\ replay' = [given |-> given, target |-> target, opened |-> NoImageFile]
       ELSE /\ result' = "source-mismatch"
            /\ UNCHANGED replay
    /\ UNCHANGED <<disk, time, session, recipe>>

\* The image is opened again, its fingerprint compared, and the actions redone.
OpenAndRedo ==
    /\ replay # NoImageFile /\ replay.opened = NoImageFile
    /\ IF recipe.source = NoImageFile
       THEN /\ \E serial \in Serials : replay' = [replay EXCEPT !.opened = NewImage(serial)]
            /\ UNCHANGED result
       ELSE /\ disk[replay.given] # NoImageFile
            /\ IF Fingerprint(disk[replay.given]) = Fingerprint(recipe.source)
               THEN /\ replay' = [replay EXCEPT !.opened =
                                     RedoneAll(disk[replay.given], recipe.steps, time)]
                    /\ UNCHANGED result
               ELSE /\ replay' = NoImageFile
                    /\ result' = "fingerprint-mismatch"
    /\ UNCHANGED <<disk, time, session, recipe, commands>>

\* Mistake: the written file replaces the output and is compared afterwards.
PublishThenVerify ==
    /\ replay # NoImageFile /\ replay.opened # NoImageFile
    /\ disk' = [disk EXCEPT ![replay.target] = replay.opened]
    /\ result' = IF replay.opened = recipe.output THEN "ok" ELSE "output-mismatch"
    /\ replay' = NoImageFile
    /\ UNCHANGED <<time, session, recipe, commands>>

\* The temporary file is compared with the record and only then renamed.
Publish ==
    /\ replay # NoImageFile /\ replay.opened # NoImageFile
    /\ IF replay.opened = recipe.output
       THEN /\ disk' = [disk EXCEPT ![replay.target] = replay.opened]
            /\ result' = "ok"
       ELSE /\ result' = "output-mismatch"
            /\ UNCHANGED disk
    /\ replay' = NoImageFile
    /\ UNCHANGED <<time, session, recipe, commands>>

\* The run is killed; at most a temporary file with a name of its own is left.
KillRun ==
    /\ replay # NoImageFile
    /\ replay' = NoImageFile
    /\ UNCHANGED <<disk, time, session, recipe, result, commands>>

-----------------------------------------------------------------------------
(* The world outside *)

Wait ==
    /\ time < MaxTime
    /\ time' = time + 1
    /\ UNCHANGED <<disk, session, recipe, replay, result, commands>>

\* While a run is under way another program rewrites an image the user keeps.
Rewritten(path) ==
    /\ replay # NoImageFile
    /\ path # replay.target
    /\ disk[path] # NoImageFile
    /\ \E name \in {"payload", "other"} :
          disk' = [disk EXCEPT ![path] = Holding(@, 0, name, time)]
    /\ UNCHANGED <<time, session, recipe, replay, result, commands>>

RecipesNext ==
    \/ \E path \in ImagePaths : Create(path)
    \/ \E from, path \in ImagePaths, p \in DriveParts \cup {NoPart} :
          ImportFile(from, path, p) \/ Compact(from, path, p)
    \/ \E from, path \in ImagePaths : SaveCopy(from, path)
    \/ \E path \in ImagePaths : OpenSession(path)
    \/ \E name \in {"file", "folder"} : EditSession(name)
    \/ PruneCheckpoint
    \/ ExportWorkflow
    \/ \E given, target \in ImagePaths : StartRun(given, target)
    \/ OpenAndRedo
    \/ Publish
    \/ KillRun
    \/ Wait
    \/ \E path \in ImagePaths : Rewritten(path)

RecipesSpec == RecipesInit /\ [][RecipesNext]_recipeVars

-----------------------------------------------------------------------------
Images == [serial : Serials,
           parts : [DriveParts -> [held : SUBSET [name : {"payload", "other", "file", "folder"},
                                                  stamp : 0..MaxTime],
                                   tidy : BOOLEAN]]]

RecipesTypeOK ==
    /\ \A p \in ImagePaths : disk[p] # NoImageFile => disk[p] \in Images
    /\ time \in 0..MaxTime
    /\ recipe # NoImageFile => recipe.output \in Images
    /\ result \in {"none", "source-mismatch", "fingerprint-mismatch", "output-mismatch", "ok"}

(***************************************************************************)
(* What a recipe run publishes is what the recipe recorded, byte for byte, *)
(* whatever happened to the sources and the clock since they were compared *)
(* (save_image() with _verify_recipe_outputs()); no other file is touched. *)
(***************************************************************************)
PublishedIsRecorded ==
    [][replay # NoImageFile /\ replay' = NoImageFile /\ disk' # disk =>
          \E path \in ImagePaths : disk' = [disk EXCEPT ![path] = recipe.output]]_recipeVars

(***************************************************************************)
(* A recipe run over the very source it was recorded from rebuilds its     *)
(* output ("Run a recipe by mapping each source alias to a current path",  *)
(* docs/CLI-GUIDE.md:257): it is refused only when a source was changed.   *)
(* It fails: the serial number of a created volume is random, imported     *)
(* files and made folders are stamped with the clock, and the recorded     *)
(* partition is never selected.                                            *)
(***************************************************************************)
RecordedRecipesReplay ==
    [][result' = "output-mismatch" /\ result # result' =>
          recipe.source # NoImageFile /\ disk[replay.given] # recipe.source]_recipeVars
=============================================================================
