\* One volume, the relocations and the returns come to an end, with or without another
\* group in the namespace; the cache may be behind on the
\* destinations.
CONSTANTS
    Volumes = {v1}
    NoVolume = NoVolume
    FaultSteps = {}
    PassFaults = {"lagRD"}
    EagerDelete = FALSE
    VRGPlaces = {TRUE, FALSE}
    Others = {"none", "replicating"}
    Cancel = FALSE
    Rounds = TRUE
    SelectorKept = TRUE
SPECIFICATION FairSpec
PROPERTIES
    RelocationCompletes
    PromotionCompletes
    OneDirectionAgain
\* A pass that ends without a requeue is the last when nothing happens any more.
CHECK_DEADLOCK FALSE
