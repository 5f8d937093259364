\* Two volumes, every call may fail and the operator may crash anywhere except
\* between the creation of the temporary claim and the update of the PV.
CONSTANTS
    Volumes = {v1, v2}
    NoVolume = NoVolume
    FaultSteps = {"unguard", "clearMain", "repointMain", "deleteTmp"}
    EagerDelete = FALSE
SYMMETRY Symmetry
SPECIFICATION Spec
INVARIANTS
    TypeOK
    VolumeKept
    GuardedUntilParked
    LetGoOnlyParked
PROPERTIES
    CustodySpec
