SPECIFICATION Spec
CONSTANTS
    d1 = d1
    d2 = d2
    m1 = m1
    en = en
    NoTag = NoTag
    JobTypes = {"update-dataset", "train"}
    Languages = {en}
    Tags = {m1}
    Devices = {d1, d2}
    NModels = 1
    Model <- OneModel
    Templates <- UploadsAndAdmin
    MaxRequests = 2
    MaxCrashes = 1
    MaxDbFailures = 1
    MaxInFlight = 2
INVARIANTS
    TypeOK
    RunningIsCurrent
    NoDanglingDependency
    DependencySucceeded
    FailureCascades
    NoOrphan
    RequestsCovered
PROPERTIES
    KilledNeverSucceeds
