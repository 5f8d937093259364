\* At most three of two VGRs and two PVCs; two acts of users, one mishap.
CONSTANTS
    g1 = g1
    g2 = g2
    p1 = p1
    p2 = p2
    Groups = {g1, g2}
    Claims = {p1, p2}
    Names = {"n", "m"}
    Namespaces = {"a", "b"}
    None = None
    Sites <- MCSites
    Acts = 2
    Mishaps = 1
SPECIFICATION FairSpec
\* Users need not act, and a cluster without VGRs rests.
CHECK_DEADLOCK FALSE
INVARIANTS
    TypeOK
    NothingLeftBehind
    ClaimsLetGo
    OneWay
PROPERTIES
    OnlySecondaryDestroys
    KeepsPromise
    DeletionCompletes
