\* A group of two volumes, relocated once, no write fails; the VRGs may not be listed.
CONSTANTS
    Volumes = {v1, v2}
    NoVolume = NoVolume
    FaultSteps = {}
    PassFaults = {"listVRG"}
    EagerDelete = FALSE
    VRGPlaces = {TRUE, FALSE}
    Others = {"none"}
    Cancel = FALSE
    Rounds = FALSE
    SelectorKept = TRUE
SYMMETRY Symmetry
SPECIFICATION Spec
INVARIANTS
    SyncedBeforeDemotion
    LetGoSafely
    SecondarySettled
