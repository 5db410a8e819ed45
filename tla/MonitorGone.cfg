SPECIFICATION Spec
CONSTANTS
    Instance = {i1}
    Copy = {c1}
    Replica = {p1}
    PodPhases = {"Running"}
    DeployStates = {"ok"}
    NoEvent = NoEvent
    MaxAttempts = 2
    MaxTimers = 4
    MaxDisturbances = 4
INVARIANTS GoneIsDeleted
