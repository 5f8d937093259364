\* One volume, claims deleted early, relocations taken back, the VRG unreadable, the
\* VRGs not listed, the cache behind on the VRG.
CONSTANTS
    Volumes = {v1}
    NoVolume = NoVolume
    FaultSteps = {}
    PassFaults = {"write", "readVRG", "listVRG", "lagVRG"}
    EagerDelete = TRUE
    VRGPlaces = {TRUE}
    Others = {"none"}
    Cancel = TRUE
    Rounds = TRUE
    SelectorKept = TRUE
SPECIFICATION Spec
PROPERTIES
    OrphanedOnlyBy
CHECK_DEADLOCK FALSE
