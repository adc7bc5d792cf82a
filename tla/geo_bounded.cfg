\* A provider that does not finish its body holds the call.
SPECIFICATION Spec
CONSTANTS
    Calls = {r1}
    Countries = {PL, DE}
    Limit = 2
    NoCountry = NoCountry
PROPERTY
    EveryCallEnds
