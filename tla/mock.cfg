SPECIFICATION Spec
CONSTANTS
    pto = pto
    unknown = unknown
    s1 = s1
    s2 = s2
    s3 = s3
    Callers = {c1, c2}
    Dimensions = {pto, unknown}
    Seed <- MCSeed
    Submissions = {s1, s2, s3}
    DimensionOf <- MCDimensionOf
    DaysOf <- MCDaysOf
    Batches <- MCBatches
    Numbers = {0, 4}
    PartialFailures = 3
    MaxFailures = 5
INVARIANTS TypeOK FailsFirstN RecordsCovered
