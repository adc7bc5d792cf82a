\* Requests that wait for the row of one coupon, which a request of another
\* instance has locked, hold every connection of their own.
SPECIFICATION Spec
CONSTANTS
    c1 = c1
    Coupons = {c1, c2}
    Users = {u1}
    Countries = {PL}
    Requests = {r1, r2, r3, r4}
    Instances = {i1, i2}
    MaxUses <- MaxUses1
    PoolSize = 2
    NoRow = NoRow
    Free = Free
    NoOutcome = NoOutcome
    DatabaseFaults = FALSE
    Crashes = FALSE
    OperatorEdits = FALSE
SYMMETRY Symmetric
INVARIANT
    DifferentCouponsDoNotBlock
