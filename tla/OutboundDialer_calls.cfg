SPECIFICATION Safety
CONSTANTS
  Campaigns = {c1}
  Leads = {l1, l2}
  Attempts = {a1, a2}
  CampaignOf <- OneCampaign
  Scenarios <- EachScenario
  NoCampaign = NoCampaign
  NoLead = NoLead
  NoAttempt = NoAttempt
SYMMETRY Symmetry
INVARIANTS
  CallsWithinLimit
  OpenAttemptTracked
  LeadDialledOnce
PROPERTIES
  CompletesWhenQuiet
CHECK_DEADLOCK FALSE
