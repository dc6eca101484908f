SPECIFICATION Spec
CONSTANTS
    MaxCluster = 5
    RootEntries = 2
    ClusterEntries = 3
    Names = {"A", "B"}
    MaxDepth = 2
    MaxSize = 2
    MaxCalls = 3
    MayCrash = TRUE
    Volumes <- MCVolumes
INVARIANTS TypeOK VolumeValid CrashLeavesOnlyLeaks
PROPERTIES EffectAsPromised CrashBetween
