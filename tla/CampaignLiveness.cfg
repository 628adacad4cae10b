SPECIFICATION FairSpec
CONSTANTS
    None = None
    c1 = c1
    c2 = c2
    s1 = s1
    s2 = s2
    s3 = s3
    Campaigns = {c1}
    Contacts = {1}
    CampaignOf <- OneCampaign
    NoPhone = {}
    MaxRetries = 1
    RetryOn = {"busy"}
    OrgLimit = 1
    MaxConcurrency <- NoOwnLimit
    MaxCalls = 0
    SlotIds = {s1, s2}
    MaxRunsPerRow = 1
    Statuses = {"busy"}
    MaxFaults = 0
    MaxRestarts = 1
    MaxPauses = 0
    RunsGetOld = TRUE
    SlotsAge = TRUE
    DoneAfterDialError = FALSE
PROPERTIES
    CampaignCompletes
    RunsSettle
CHECK_DEADLOCK FALSE
