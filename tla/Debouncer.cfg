SPECIFICATION FairSpec
CONSTANTS
    Instance = {i1, i2}
    Status = {s1}
    NoEvent = NoEvent
    MaxTimers = 4
INVARIANTS TypeOK StopDrains CoalescedUnlessRaced LatestSurvives
PROPERTIES ImplementsCoalescer LatestPublished
