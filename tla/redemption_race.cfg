\* Three requests race for two coupons; those for the hot one may stop anywhere.
SPECIFICATION StalledCouponSpec
CONSTANTS
    c1 = c1
    Coupons = {c1, c2}
    Users = {u1, u2, u3}
    Countries = {PL}
    Requests = {r1, r2, r3}
    Instances = {i1}
    MaxUses <- MaxUses12
    PoolSize = 3
    NoRow = NoRow
    Free = Free
    NoOutcome = NoOutcome
    DatabaseFaults = FALSE
    Crashes = FALSE
    OperatorEdits = FALSE
INVARIANTS
    RefusalJustified
    RemainingUsesCountDown
    RacesAreBusinessAnswers
PROPERTY
    CouponsAreIndependent
