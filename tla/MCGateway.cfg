\* Every request may be answered and every token written.
CHECK_DEADLOCK FALSE
CONSTANTS
    r1 = r1
    r2 = r2
    c1 = c1
    c2 = c2
    None = None
    Tokenless = Tokenless
    Requests = {r1, r2}
    Clusters = {c1, c2}
    MaxWrites = 2
SPECIFICATION Safety
SYMMETRY RequestSymmetry
INVARIANTS
    TypeOK
    OneAnswerUnlessPanic
    TokenHeldDuringRequest
    SteadyClusterIsReached
    TableOwnsPath
