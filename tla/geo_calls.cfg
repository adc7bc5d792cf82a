\* Two calls share the meters; the provider may do anything, or stop at any point.
SPECIFICATION Spec
CONSTANTS
    Calls = {r1, r2}
    Countries = {PL, DE}
    Limit = 2
    NoCountry = NoCountry
INVARIANTS
    IInv
    SuccessMeansCountry
    EveryCallCountedOnce
PROPERTY
    EndsUnlessBodyStalls
