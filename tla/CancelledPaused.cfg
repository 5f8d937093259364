\* Ramen takes a relocation back after its ReplicationSources were paused.
CONSTANTS
    Volumes = {v1}
    NoVolume = NoVolume
    FaultSteps = {}
    PassFaults = {}
    EagerDelete = FALSE
    VRGPlaces = {TRUE}
    Others = {"none"}
    Cancel = TRUE
    Rounds = FALSE
    SelectorKept = TRUE
SPECIFICATION Spec
INVARIANTS
    ReportedReplicating
