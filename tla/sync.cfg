SPECIFICATION SyncSpec
CONSTANTS
    r1 = r1
    annual = annual
    NoRow = NoRow
    NoRequest = NoRequest
    Requests = {r1}
    Slots = {p1}
    LeaveTypes = {annual}
    LeaveOf <- MCLeaveOf
    DaysOf <- MCDaysOf
    HcmBalance <- MCHcmBalance
    MaxRetries = 3
    SaveChecksVersion = TRUE
    MaxDecisions = 1
    MaxCalls = 2
    MaxFaults = 1
    Syncers = {s1}
    Batches <- MCBatches
    HcmNumbers <- MCHcmNumbers
    MaxSyncs = 2
    MaxHcmChanges = 1
\* A behaviour ends when its calls and syncs are answered.
CHECK_DEADLOCK FALSE
INVARIANTS SyncTypeOK NoDaysLostToSync
