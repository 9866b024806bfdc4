CONSTANTS
    Entry = {e1, e2}
    Notice = {e2}
    BestEffort = {e1}
    MaxRetries = 1
    MaxCrashes = 1
SPECIFICATION DeliverySpec
INVARIANTS
    NothingLost
    SingleSender
    ClaimTruthful
    ResentOnlyIfRevived
CHECK_DEADLOCK FALSE
