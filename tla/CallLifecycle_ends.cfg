SPECIFICATION MCSpec
CONSTANTS
    Transports = {"externalmedia", "audiosocket"}
    Starters = {1, 2}
    AttachTries = 2
    MaxVisits = 2
    Campaigns = {c1}
    Leads = {l1}
    Attempts = {a1}
    Operations = {"status", "cancel", "ignore", "recycle", "import", "delete"}
    Faults = {"ari", "history"}
    NoCampaign = NoCampaign
    NoLead = NoLead
    NoAttempt = NoAttempt
INVARIANTS
    CleanedOnce
    SingleProvider
    NothingLeftBehind
PROPERTIES
    TransferSurvivesCleanup
    EndedCallForgotten
    SlotFreed
    DialingEnds
CHECK_DEADLOCK FALSE
