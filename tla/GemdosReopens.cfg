SPECIFICATION LayoutSpec
CONSTANTS
    SectorBytes = 16
    RecordBytes = 8
    LogicalSizes <- MCLogicalSizes
    Fat16From = 6
    MostClusters = 10
    MostPerCluster = 4
    CountLimit = 28
    WordSize = 65536
    BootMagic = 4660
    FloppyMedia = 249
    DriveMedia = 248
    FloppyRoots = 2
    DriveRoots = 2
    FloppySectors = {13}
    FloppyFat <- MCFloppyFat
    ImageSizes = {12, 13, 16, 20, 24, 50, 70}
    OtherBoots <- MCOtherBoots
    WordSums = {0, 4660}
    MaxFatSets = 2
    NotLaidOut = NotLaidOut
    NotMounted = NotMounted
INVARIANT FormattedReopens
CHECK_DEADLOCK FALSE
