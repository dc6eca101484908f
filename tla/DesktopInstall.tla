--------------------------- MODULE DesktopInstall ---------------------------
(***************************************************************************)
(* What a volume starts and shows: the desktop configurations and the AUTO *)
(* folder, into which programs and replacement desktops are installed      *)
(* (src/app/drive_preparation.py, src/app/desktop_replacement.py,          *)
(* src/app/gemdos_install_service.py).                                     *)
(*                                                                         *)
(* A record is its letter and the program or mask it names.  AUTO is the   *)
(* order of its directory, with free records and folders in it.  A request *)
(* that fails is undone whole by its checkpoint, so each is one step.      *)
(***************************************************************************)
EXTENDS Naturals, FiniteSets, SequencesExt

CONSTANTS
    MaxInstalls,    \* bounds the requests and the changes of the operator
    MaxAuto         \* bounds the directory of AUTO

VARIABLES
    programs,       \* programs on the volume
    desktopFiles,   \* the records of each configuration; none when it is absent
    auto,           \* the directory of AUTO
    shell,          \* what Geneva's GEM.CNF starts as its desktop
    olderTos,       \* the hardware profile names a TOS 1.x
    installs        \* requests so far

desktopVars == <<programs, desktopFiles, auto, shell, olderTos, installs>>
-----------------------------------------------------------------------------
Newdesk == "NEWDESK.INF"
Desktop == "DESKTOP.INF"
DesktopNames == {Newdesk, Desktop}
InstalledPrograms == {"GAME.PRG", "TOOL.GTP", "NEOLOAD.PRG", "GENEVA.PRG"}
Record(letter, names) == [letter |-> letter, names |-> names]
Masks == {"*.PRG", "*.GTP", "*.*"}

\* RECORD_ORDER, for the letters that occur.
RecordOrder == [N |-> 1, G |-> 2, Y |-> 3, M |-> 4, X |-> 5]
Rank(record) == RecordOrder[record.letter]

AutoPrograms == {"XBOOT.PRG", "JAR10.PRG", "JAR5.PRG", "NEOLOAD.PRG", "GENEVA.PRG", "CLOCK.PRG"}
Jars == {"JAR10.PRG", "JAR5.PRG"}
BootManagers == {"XBOOT.PRG"}
Free == "free record"

DesktopTypeOK ==
    /\ programs \subseteq InstalledPrograms
    /\ \A name \in DesktopNames : \A k \in DOMAIN desktopFiles[name] :
           /\ desktopFiles[name][k].letter \in DOMAIN RecordOrder
           /\ desktopFiles[name][k].names \in InstalledPrograms \cup Masks \cup {"C"}
    /\ \A k \in DOMAIN auto : auto[k] \in AutoPrograms \cup {Free, "FOLDER"}
    /\ shell \in {"absent", "commented", "NEODESK.EXE", "another"}
    /\ olderTos \in BOOLEAN

\* default_desktop(), in the spelling of either TOS.
DefaultDesktop(name) ==
    IF name = Desktop THEN <<Record("M", "C"), Record("G", "*.PRG")>>
    ELSE <<Record("N", "*.*"), Record("G", "*.PRG"), Record("Y", "*.GTP"), Record("M", "C")>>

\* A volume with a game on it and whatever the operator arranged in AUTO.
DesktopInit ==
    /\ programs = {"GAME.PRG", "TOOL.GTP"}
    /\ desktopFiles = [name \in DesktopNames |-> <<>>]
    /\ auto \in {<<>>, <<"FOLDER", "CLOCK.PRG", Free, "XBOOT.PRG">>, <<"CLOCK.PRG", "JAR5.PRG">>}
    /\ shell = "absent"
    /\ olderTos \in BOOLEAN
    /\ installs = 0
-----------------------------------------------------------------------------
(***************************************************************************)
(* The desktop configuration.                                              *)
(***************************************************************************)

\* desktop_file_for()
Read == IF olderTos THEN Desktop ELSE Newdesk
Present == {name \in DesktopNames : desktopFiles[name] # <<>>}

\* application_record(): the extension chooses the letter, and the older TOS
\* knows no #Y.
Application(program, name) ==
    Record(IF program = "TOOL.GTP" /\ name # Desktop THEN "Y" ELSE "G", program)

\* Mistake: the record goes to the end of its letter, behind the mask.
InsertedBehind(records, record) ==
    LET behind == {k \in DOMAIN records : Rank(records[k]) > Rank(record)}
    IN  IF behind = {} THEN Append(records, record)
        ELSE InsertAt(records, CHOOSE k \in behind : \A j \in behind : k <= j, record)

\* merge_desktop(): above the first record of the same letter, or of a letter
\* that comes after.
Inserted(records, record) ==
    LET same == {k \in DOMAIN records : records[k].letter = record.letter}
        after == {k \in DOMAIN records : Rank(records[k]) > Rank(record)}
        places == IF same # {} THEN same ELSE after
    IN  IF places = {} THEN Append(records, record)
        ELSE InsertAt(records, CHOOSE k \in places : \A j \in places : k <= j, record)

\* A record for the same program takes the place of the one that is there.
Merged(records, record) == IF record \in ToSet(records) THEN records ELSE Inserted(records, record)

\* _install_on_desktop(): the file this TOS reads, and the other when it is there.
WithApplication(program, onDesktop) ==
    [name \in DesktopNames |->
        IF name # Read /\ name \notin Present THEN <<>>
        ELSE LET found == IF name \in Present THEN desktopFiles[name] ELSE DefaultDesktop(name)
                 listed == Merged(found, Application(program, name))
             IN  IF onDesktop /\ name = Newdesk THEN Merged(listed, Record("X", program)) ELSE listed]

\* desktop_record_paths(): what a repair removes.
Stale(record) == record.letter \in {"G", "Y", "X"} /\ record.names \notin programs \cup Masks
-----------------------------------------------------------------------------
(***************************************************************************)
(* The AUTO folder.                                                        *)
(***************************************************************************)
IsProgram(slot) == slot \in AutoPrograms

\* _auto_order()
AutoOrder(directory) == SelectSeq(directory, IsProgram)

\* A new name takes the first free record.
Stored(directory, name) ==
    LET free == {k \in DOMAIN directory : directory[k] = Free}
    IN  IF free = {} THEN Append(directory, name)
        ELSE [directory EXCEPT ![CHOOSE k \in free : \A j \in free : k <= j] = name]

StoredOnce(directory, name) == IF name \in ToSet(directory) THEN directory ELSE Stored(directory, name)

\* _run_first_in_auto(): every program is taken out and stored again, the boot
\* managers and the named one in front.
RunFirst(directory, name) ==
    LET order == AutoOrder(directory)
        Leads(p) == p \in BootManagers
        Follows(p) == p \notin BootManagers \cup {name}
        wanted == SelectSeq(order, Leads) \o <<name>> \o SelectSeq(order, Follows)
        emptied == [k \in DOMAIN directory |-> IF IsProgram(directory[k]) THEN Free ELSE directory[k]]
    IN  IF wanted = order THEN directory ELSE FoldLeft(Stored, emptied, wanted)

\* _install_cookie_jar(): any jar that is there is left where it is.
WithJar(directory) ==
    IF ToSet(directory) \cap Jars # {} THEN directory
    ELSE RunFirst(Stored(directory, "JAR10.PRG"), "JAR10.PRG")

\* _start_neodesk_under_geneva()
ShellFor(cnf, held) ==
    IF cnf = "commented" /\ "NEOLOAD.PRG" \in held THEN "NEODESK.EXE" ELSE cnf
-----------------------------------------------------------------------------
(***************************************************************************)
(* The requests.                                                           *)
(***************************************************************************)
OneInstall == installs < MaxInstalls /\ installs' = installs + 1

\* install_desktop_application()
InstallOnDesktop(program, onDesktop) ==
    /\ OneInstall
    /\ program \in programs
    /\ desktopFiles' = WithApplication(program, onDesktop)
    /\ UNCHANGED <<programs, auto, shell, olderTos>>

\* find_desktop(): NeoDesk or Geneva, in a folder, an archive or a disk image,
\* with the cookie jar when the whole distribution is there.
Distributions == [program : {"NEOLOAD.PRG", "GENEVA.PRG"}, jar : BOOLEAN]

\* install_desktop_replacement(): companions are written over what is there,
\* GEM.CNF with them; what goes into AUTO is not.
InstallReplacement(found, onDesktop) ==
    /\ OneInstall
    /\ Len(auto) < MaxAuto
    /\ programs' = programs \cup {found.program}
    /\ auto' = LET stored == StoredOnce(auto, found.program)
               IN  IF found.jar THEN WithJar(stored) ELSE stored
    /\ desktopFiles' = WithApplication(found.program, onDesktop)
    /\ shell' = ShellFor(IF found.program = "GENEVA.PRG" THEN "commented" ELSE shell, programs')
    /\ UNCHANGED olderTos

\* _write_desktop() of prepare_drive(): only when this TOS finds none.
WriteDesktop ==
    /\ OneInstall
    /\ Read \notin Present
    /\ desktopFiles' = [desktopFiles EXCEPT ![Read] = DefaultDesktop(Read)]
    /\ UNCHANGED <<programs, auto, shell, olderTos>>

\* repair_drive_software(): records of programs that are not on the volume.
RepairRecords ==
    /\ OneInstall
    /\ LET Kept(record) == ~Stale(record)
       IN  desktopFiles' = [name \in DesktopNames |-> SelectSeq(desktopFiles[name], Kept)]
    /\ desktopFiles' # desktopFiles
    /\ UNCHANGED <<programs, auto, shell, olderTos>>

\* The operator deletes a program, chooses a shell or a machine.
ChangeVolume ==
    /\ OneInstall
    /\ \/ \E program \in programs : programs' = programs \ {program} /\ UNCHANGED <<auto, shell, olderTos>>
       \/ \E k \in DOMAIN auto :
              /\ IsProgram(auto[k])
              /\ auto' = [auto EXCEPT ![k] = Free] /\ UNCHANGED <<programs, shell, olderTos>>
       \/ shell # "absent" /\ shell' = "another" /\ UNCHANGED <<programs, auto, olderTos>>
       \/ olderTos' = ~olderTos /\ UNCHANGED <<programs, auto, shell>>
    /\ UNCHANGED desktopFiles

DesktopNext ==
    \/ \E program \in InstalledPrograms, onDesktop \in BOOLEAN : InstallOnDesktop(program, onDesktop)
    \/ \E found \in Distributions, onDesktop \in BOOLEAN : InstallReplacement(found, onDesktop)
    \/ WriteDesktop \/ RepairRecords \/ ChangeVolume
DesktopSpec == DesktopInit /\ [][DesktopNext]_desktopVars
-----------------------------------------------------------------------------
RecordsInOrder(records) ==
    \A j, k \in DOMAIN records :
        records[j].letter = records[k].letter =>
            /\ records[j].names \in InstalledPrograms /\ records[k].names \in Masks => j < k
            /\ records[j].names = records[k].names => j = k

\* The programs of a desktop start: each is installed once and above the mask of
\* its letter, in either spelling and after any installations, repairs and
\* changes of the machine; a jar that is installed runs before everything but a
\* boot manager, and no other program that AUTO holds changes its place in the
\* order.
ProgramsStart ==
    [][/\ \A name \in DesktopNames : RecordsInOrder(desktopFiles'[name])
       /\ LET Others(p) == p \in (AutoPrograms \ BootManagers) \cap ToSet(auto) \cap ToSet(auto')
          IN  SelectSeq(auto, Others) = SelectSeq(auto', Others)
       /\ "JAR10.PRG" \in ToSet(auto') \ ToSet(auto) =>
              \A j, k \in DOMAIN AutoOrder(auto') :
                  AutoOrder(auto')[j] = "JAR10.PRG" /\ k < j => AutoOrder(auto')[k] \in BootManagers]_desktopVars

\* "A shell line naming another program is somebody's choice and stays"
\* (desktop_replacement.py:944).
ShellChoiceStays == [][shell = "another" => shell' = "another"]_desktopVars
=============================================================================
