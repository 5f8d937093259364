\* One volume, any call of the handover may fail.
CONSTANTS
    Volumes = {v1}
    NoVolume = NoVolume
    FaultSteps = {"repointTmp", "unguard", "clearMain", "repointMain", "deleteTmp"}
    EagerDelete = FALSE
SPECIFICATION Spec
INVARIANTS
    LetGoOnlyParked
CHECK_DEADLOCK FALSE
