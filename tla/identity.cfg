SPECIFICATION Spec
CONSTANTS
    emp1 = emp1
    EMP1 = EMP1
    r1 = r1
    r2 = r2
    Nothing = Nothing
    Spellings = {emp1, EMP1}
    LowerOf <- MCLowerOf
    Years = {2025, 2026}
    ThisYear = 2026
    HcmKnows = {emp1}
    Requests = {r1}
    SpellingOf <- MCSpellingOf
    Slots = {p1, p2}
    Ttl = 1
    MaxTime = 2
    MaxCalls = 4
    MaxFaults = 1
\* A behaviour ends when its calls are answered and its time is over.
CHECK_DEADLOCK FALSE
INVARIANTS TypeOK OneRowPerYear StaleAtMostTtl WriterSeesItsWrite RefusalsCurable
