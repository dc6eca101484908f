SPECIFICATION ServicesSpec
CONSTANTS
    ImageNames = {"disk", "copy"}
    NoFile = NoFile
    MaxClock = 4
    Threads = {u1, u2}
    NoThread = NoThread
    Drives = {1, 2}
    Controllers = {1}
    Tracks = 2
    MaxEdits = 1
    NoContent = NoContent
    Selections = {s1, s2}
    Labels = {d1, d2, d3}
    ClashFolders = {{d1}, {d2, d3}}
    Paths = {x, y}
    FileContents = {v1, v2, v3}
    Absent = Absent
    MaxStaged = 3
    DriveSizes = {6, 9, 11}
    Primary = 2
    IcdExtra = 2
    MaxPartitions = 5
    AskedSizes = {1, 2}
    Share = Share
    Runs = {r1, r2, r3}
    NoRun = NoRun
    Floppies = {0, 2, 3}
    MaxFloppies = 2
    Volumes = {1}
    ItemNames = {"A", "B"}
    MaxItems = 4
    MaxProjects = 2
    NoItem = NoItem
    NoProject = NoProject
    PatchPaths <- MCPatchPaths
    FilesHold = {"c1", "c2"}
    SessionIds = {i1}
    Owners = {o1, o2}
    NothingKept = NothingKept
    Editors = {e1, e2}
    Texts = {t1, t2, t3}
    MaxTexts = 3
    NoText = NoText
    Leafs = {"A", "B"}
    DiscTops = {"A"}
    NameLimit = 2
    FoundNames <- MCFoundNames
    MaxFound = 4
    Partitions = {1, 2, 3}
    Extended = {3}
    HasLoader = {"icd"}
    MaxPreparations = 2
    MaxInstalls = 3
    MaxAuto = 6
    MediaOf <- MCMediaOf
    Window = 2
    MaxAnswered = 4
    DayLength = 2
    MaxNow = 3
    MaxRequests = 3
    NoSources = NoSources
    Disks <- MCDisks
    FluxCaptures <- MCFluxCaptures
    BytesPerSector = 4
    MaxRun = 5
    MaxSectorWrites = 1
    NoImage = NoImage
    StartRoms <- MCStartRoms
    OtherRoms <- MCOtherRoms
    BankFiles <- MCBankFiles
    BankSizes = {2, 4}
    Erased = 255
    Cartridge = 171
    System = 7
    NewName = 8
    Jobs <- MCJobs
    MaxRom = 8
    MaxRomEdits = 2
    NoDocument = NoDocument
    ImagePaths = {"a", "b", "c"}
    DriveParts = {0, 1}
    Serials = {1}
    MaxTime = 1
    MaxCommands = 3
    NoImageFile = NoImageFile
    NoPart = NoPart
    Namings <- MCNamings
    ShortName <- MCShortName
    BlockValues = {1, 2}
    FatLimit = 2
    MaxWrites = 2
    NoPackage = NoPackage
    SectorBytes = 16
    RecordBytes = 8
    LogicalSizes <- MCLogicalSizes
    Fat16From = 6
    MostClusters = 10
    MostPerCluster = 4
    CountLimit = 28
    WordSize = 65536
    BootMagic = 4660
    FloppyMedia = 249
    DriveMedia = 248
    FloppyRoots = 2
    DriveRoots = 2
    FloppySectors = {13}
    FloppyFat <- MCFloppyFat
    ImageSizes = {12, 13, 16, 20, 24, 50, 70}
    OtherBoots <- MCOtherBoots
    WordSums = {0, 4660}
    MaxFatSets = 2
    NotLaidOut = NotLaidOut
    NotMounted = NotMounted
INVARIANTS
    ServicesTypeOK
    ImagesKeepTheirContent
    VolumesStaySound
    TransfersAreWhole
    ArtifactsReproduce
    SessionsAnswerAsKept
    UpdateIsSafe
    PagesCoverTheIndex
PROPERTIES
    WritesFollowChecks
    MovesLoseNothing
    UpdateSettles
    ChosenIsAnswered
CHECK_DEADLOCK FALSE
