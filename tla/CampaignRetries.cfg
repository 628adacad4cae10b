SPECIFICATION Spec
CONSTANTS
    None = None
    c1 = c1
    c2 = c2
    s1 = s1
    s2 = s2
    s3 = s3
    Campaigns = {c1}
    Contacts = {1, 2}
    CampaignOf <- OneCampaign
    NoPhone = {2}
    MaxRetries = 1
    RetryOn = {"busy"}
    OrgLimit = 2
    MaxConcurrency <- NoOwnLimit
    MaxCalls = 0
    SlotIds = {s1, s2}
    MaxRunsPerRow = 2
    Statuses = {"busy"}
    MaxFaults = 0
    MaxRestarts = 1
    MaxPauses = 1
    RunsGetOld = TRUE
    SlotsAge = TRUE
    DoneAfterDialError = FALSE
INVARIANTS
    CompletedIsQuiet
    CompletedAccounts
PROPERTIES
    LiveRunsSpared
CHECK_DEADLOCK FALSE
