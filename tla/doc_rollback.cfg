SPECIFICATION Spec
CONSTANTS
    r1 = r1
    r2 = r2
    r3 = r3
    annual = annual
    sick = sick
    NoRow = NoRow
    NoRequest = NoRequest
    Requests = {r1}
    Slots = {p1}
    LeaveTypes = {annual}
    LeaveOf <- MCLeaveOf
    DaysOf <- MCDaysOf
    HcmBalance <- MCHcmBalance
    MaxRetries = 3
    SaveChecksVersion = TRUE
    MaxDecisions = 1
    MaxCalls = 2
    MaxFaults = 1
\* A behaviour ends when its MaxCalls calls are answered.
CHECK_DEADLOCK FALSE
INVARIANT FailedApprovalRollsBack
