SPECIFICATION Spec
CONSTANTS
    Instance = {i1}
    Copy = {c1}
    Replica = {p1, p2}
    PodPhases = {"Running", "Failed"}
    DeployStates = {"ok"}
    NoEvent = NoEvent
    MaxAttempts = 2
    MaxTimers = 2
    MaxDisturbances = 2
INVARIANTS WorstPodDecides
