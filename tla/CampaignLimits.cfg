SPECIFICATION Spec
CONSTANTS
    None = None
    c1 = c1
    c2 = c2
    s1 = s1
    s2 = s2
    s3 = s3
    Campaigns = {c1, c2}
    Contacts = {1, 2}
    CampaignOf <- TwoCampaigns
    NoPhone = {}
    MaxRetries = 0
    RetryOn = {"busy"}
    OrgLimit = 1
    MaxConcurrency <- NoOwnLimit
    MaxCalls = 2
    SlotIds = {s1, s2}
    MaxRunsPerRow = 1
    Statuses = {"busy"}
    MaxFaults = 1
    MaxRestarts = 0
    MaxPauses = 0
    RunsGetOld = FALSE
    SlotsAge = TRUE
    DoneAfterDialError = FALSE
SYMMETRY SlotSymmetry
INVARIANTS
    LimitsHold
    NoSlotLeak
CHECK_DEADLOCK FALSE
