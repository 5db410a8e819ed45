SPECIFICATION FairSpec
CONSTANTS
    Instance = {i1}
    Copy = {c1, c2}
    Replica = {p1, p2}
    PodPhases = {"Running", "Failed"}
    DeployStates = {"ok"}
    NoEvent = NoEvent
    MaxAttempts = 2
    MaxTimers = 3
    MaxDisturbances = 3
INVARIANTS TypeOK ToldTheTruth
PROPERTIES DeliveredInOrder SilentAfterStop Reported StartReturns
