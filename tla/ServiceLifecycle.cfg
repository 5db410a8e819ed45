SPECIFICATION FairSpec
CONSTANTS
    Client = {c1, c2}
    InitialBackoff = 1
    MaxBackoff = 2
INVARIANTS TypeOK StartedWhenReady CleanExit MissedOnlyOnExit
PROPERTIES ShutdownEnds
