\* Every request ends or waits for the provider, with one connection per instance,
\* failures, and instances that are killed.
SPECIFICATION FairSpec
CONSTANTS
    c1 = c1
    Coupons = {c1}
    Users = {u1}
    Countries = {PL}
    Requests = {r1, r2, r3}
    Instances = {i1, i2}
    MaxUses <- MaxUses1
    PoolSize = 1
    NoRow = NoRow
    Free = Free
    NoOutcome = NoOutcome
    DatabaseFaults = TRUE
    Crashes = TRUE
    OperatorEdits = FALSE
PROPERTY
    EveryRequestSettles
