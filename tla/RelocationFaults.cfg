\* One volume, relocated and brought back any number of times, any write may fail.
CONSTANTS
    Volumes = {v1}
    NoVolume = NoVolume
    FaultSteps = {"repointTmp", "unguard", "clearMain", "repointMain", "deleteTmp"}
    PassFaults = {"write"}
    EagerDelete = FALSE
    VRGPlaces = {TRUE, FALSE}
    Others = {"none", "replicating"}
    Cancel = FALSE
    Rounds = TRUE
    SelectorKept = TRUE
SPECIFICATION Spec
INVARIANTS
    TypeOK
    CompleteMeansSynced
    SyncedBeforeDemotion
    FinalSyncAtRest
    LetGoSafely
    SecondarySettled
    ReportedReplicating
PROPERTIES
    CustodyKept
\* Two groups of a namespace really stop when one has come back while the other
\* waits for its sources: the Secondary VRG of the one blocks the promotion of this.
CHECK_DEADLOCK FALSE
