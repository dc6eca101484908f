SPECIFICATION FairSpec
CONSTANTS
    Owners = {alice, bob}
    Numbers = {1}
    NoOwner = NoOwner
    MaxUnits = 2
    LongUnits = FALSE
INVARIANTS TypeOK RunningHasWorker LiveIsListed
PROPERTIES TerminalIsFinal CancelStopsWork AbortReachesEnd
