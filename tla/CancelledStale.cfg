\* Ramen takes a relocation back after its final sync, and asks for it again.
CONSTANTS
    Volumes = {v1}
    NoVolume = NoVolume
    FaultSteps = {}
    PassFaults = {}
    EagerDelete = FALSE
    VRGPlaces = {TRUE, FALSE}
    Others = {"none"}
    Cancel = TRUE
    Rounds = FALSE
    SelectorKept = TRUE
SPECIFICATION Spec
INVARIANTS
    CompleteMeansSynced
