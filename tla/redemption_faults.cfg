\* Failing statements, connections and commits, a killed instance, and edited coupons.
SPECIFICATION Spec
CONSTANTS
    c1 = c1
    Coupons = {c1}
    Users = {u1, u2}
    Countries = {PL, DE}
    Requests = {r1, r2, r3}
    Instances = {i1}
    MaxUses <- MaxUses1
    PoolSize = 2
    NoRow = NoRow
    Free = Free
    NoOutcome = NoOutcome
    DatabaseFaults = TRUE
    Crashes = TRUE
    OperatorEdits = TRUE
SYMMETRY Symmetric
INVARIANTS
    IInv
    TypeOK
    LedgerConsistent
    AnswerMatchesCommit
    SuccessCounterNeverOverstates
    WaitersHoldNoLock
PROPERTIES
    CountryAtCommit
    ImplementsContract
