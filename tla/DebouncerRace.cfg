SPECIFICATION Spec
CONSTANTS
    Instance = {i1}
    Status = {s1}
    NoEvent = NoEvent
    MaxTimers = 3
INVARIANT OneWindowPerInstance
