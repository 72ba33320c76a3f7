SPECIFICATION ClientSpec
CONSTANTS
    pto = pto
    unknown = unknown
    Callers = {k1, k2}
    Clients = {p1, p2}
    Dimensions = {pto, unknown}
    Seed <- MCSeed
    Submissions = {}
    DimensionOf <- MCDimensionOf
    DaysOf <- MCDaysOf
    Batches = {}
    Numbers = {}
    PartialFailures = 3
    MaxFailures = 5
    HcmTimeout = 2
    ServerDelay = 3
    None = None
INVARIANTS FailuresPaid TimeoutsNeverAnswered
SYMMETRY ClientSymmetry
