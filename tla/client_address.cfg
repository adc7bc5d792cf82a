\* Every request with up to three elements in a header, two of them allowed.
SPECIFICATION Spec
CONSTANTS
    Trusted = {p, o}
    Untrusted = {a, b}
    Bad = bad
    MaxHops = 2
    MaxLength = 3
SYMMETRY Symmetric
INVARIANTS
    ClientIsVouchedFor
    LeftPartIsHarmless
