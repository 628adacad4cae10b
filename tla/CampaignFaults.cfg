SPECIFICATION Spec
CONSTANTS
    None = None
    c1 = c1
    c2 = c2
    s1 = s1
    s2 = s2
    s3 = s3
    Campaigns = {c1}
    Contacts = {1, 2}
    CampaignOf <- OneCampaign
    NoPhone = {}
    MaxRetries = 0
    RetryOn = {"busy"}
    OrgLimit = 2
    MaxConcurrency <- NoOwnLimit
    MaxCalls = 0
    SlotIds = {s1, s2, s3}
    MaxRunsPerRow = 2
    Statuses = {"busy"}
    MaxFaults = 1
    MaxRestarts = 1
    MaxPauses = 1
    RunsGetOld = FALSE
    SlotsAge = FALSE
    DoneAfterDialError = FALSE
SYMMETRY SlotSymmetry
INVARIANTS
    TypeOK
    AtMostOneDial
    CompletedIsQuiet
CHECK_DEADLOCK FALSE
