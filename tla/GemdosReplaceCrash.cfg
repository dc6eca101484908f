SPECIFICATION Spec
CONSTANTS
    MaxCluster = 4
    RootEntries = 2
    ClusterEntries = 3
    Names = {"A", "B"}
    MaxDepth = 2
    MaxSize = 2
    MaxCalls = 2
    MayCrash = TRUE
    Volumes <- MCVolumes
INVARIANT NeverDangling
