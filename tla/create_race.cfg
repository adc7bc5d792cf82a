\* Three requests on two instances, with failures and crashes, and their end.
SPECIFICATION FairSpec
CONSTANTS
    summer = summer
    SUMMER = SUMMER
    blank = blank
    SUMMER_KEY = SUMMER_KEY
    WINTER_KEY = WINTER_KEY
    Codes = {summer, SUMMER, blank}
    Keys = {SUMMER_KEY, WINTER_KEY}
    NormalizedValue <- NormalizedWritings
    Malformed = Malformed
    Nobody = Nobody
    NoOutcome = NoOutcome
    Requests = {r1, r2, r3}
    Instances = {i1, i2}
    PoolSize = 2
    DatabaseFaults = TRUE
    Crashes = TRUE
INVARIANTS
    TypeOK
    IInv
    ExactlyOneWinner
PROPERTIES
    EveryRequestSettles
    ImplementsRegistry
