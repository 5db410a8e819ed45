SPECIFICATION FairSpec
CONSTANTS
    InitialBackoff = 1
    MaxBackoff = 6
INVARIANTS TypeOK FinalAnswer
PROPERTIES RetriesUntilOver CancelEnds
