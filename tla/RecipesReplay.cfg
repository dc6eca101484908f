SPECIFICATION RecipesSpec
CONSTANTS
    ImagePaths = {"a", "b", "c"}
    DriveParts = {0, 1}
    Serials = {1, 2}
    MaxTime = 1
    MaxCommands = 4
    NoImageFile = NoImageFile
    NoPart = NoPart
PROPERTY RecordedRecipesReplay
CHECK_DEADLOCK FALSE
