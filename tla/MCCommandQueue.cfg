SPECIFICATION FairSpec
CONSTANTS
    Session = {"s1", "s2"}
    ChatTurn = {a1, a2}
    otherTurn = a2
    CronRun = {c1}
    SessionOf <- MCSessionOf
    LaneConfigs <- MCLaneConfigs
    MaxCalls = 2
    MaxResets = 1
INVARIANTS NoLostWakeup SlotsTruthful RejectedNeverRuns WaiterHasReason SessionExclusive
PROPERTIES EveryCallSettles RestartCompletes
CHECK_DEADLOCK FALSE
