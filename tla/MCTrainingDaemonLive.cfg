SPECIFICATION FairSpec
CONSTANTS
    d1 = d1
    d2 = d2
    m1 = m1
    en = en
    NoTag = NoTag
    JobTypes = {"update-dataset", "train"}
    Languages = {en}
    Tags = {m1}
    Devices = {d1, d2}
    NModels = 1
    Model <- OneModel
    Templates <- OneUpload
    MaxRequests = 2
    MaxCrashes = 0
    MaxDbFailures = 0
    MaxInFlight = 1
PROPERTIES
    EveryJobEnds
