\* One relocation; the selector asks for a label of the application.
CONSTANTS
    Volumes = {v1}
    NoVolume = NoVolume
    FaultSteps = {}
    PassFaults = {}
    EagerDelete = FALSE
    VRGPlaces = {TRUE, FALSE}
    Others = {"none"}
    Cancel = FALSE
    Rounds = FALSE
    SelectorKept = FALSE
SPECIFICATION Spec
INVARIANTS
    SamePVCsDiscovered
