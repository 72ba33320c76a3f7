SPECIFICATION SyncFairSpec
CONSTANTS
    r1 = r1
    annual = annual
    NoRow = NoRow
    NoRequest = NoRequest
    Requests = {r1}
    Slots = {p1}
    LeaveTypes = {annual}
    LeaveOf <- MCLeaveOf
    DaysOf <- MCDaysOf
    HcmBalance <- MCHcmBalance
    MaxRetries = 3
    SaveChecksVersion = TRUE
    MaxDecisions = 1
    MaxCalls = 0
    MaxFaults = 1
    Syncers = {s1, s2}
    Batches <- MCBatches
    HcmNumbers <- MCHcmNumbers
    MaxSyncs = 2
    MaxHcmChanges = 1
\* A behaviour ends when its calls and syncs are answered.
CHECK_DEADLOCK FALSE
INVARIANTS BatchAccounted SyncConverges
PROPERTIES StatusMovesForward SyncsAnswered
