\* Two volumes, every fault and every early deletion.
CONSTANTS
    Volumes = {v1, v2}
    NoVolume = NoVolume
    FaultSteps = {"repointTmp", "unguard", "clearMain", "repointMain", "deleteTmp"}
    EagerDelete = TRUE
SYMMETRY Symmetry
SPECIFICATION Spec
PROPERTIES
    OrphanedOnlyBy
CHECK_DEADLOCK FALSE
