SPECIFICATION Spec
CONSTANTS
    Requests = {r1, r2}
    Amounts <- MCAmounts
    Asks <- MCAsks
    Absent = Absent
INVARIANTS TypeOK RoundingBounded AcceptedFits NeverOverdrawn
SYMMETRY MCSymmetry
