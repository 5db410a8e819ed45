SPECIFICATION Spec
CONSTANTS
    ExternalServiceType = "NodePort"
    MaxMemory = 1610612736
    Name = {1, 2, 3}
    Pod = {1, 2}
    Phases = {"Running", "Failed"}
    PageSizes = {0, 1, 2}
    MaxChanges = 4
    InstanceId <- MCInstanceId
    Asked <- MCAsked
    DeployFacts <- MCDeployFacts
INVARIANTS TypeOK SkipsAtMostLost RepeatsAtMostAdded ReadsBack OneContainer AgreesWithMonitor Schedulable
