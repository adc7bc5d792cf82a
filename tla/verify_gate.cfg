\* make verify while tasks are moved and documents are edited.
SPECIFICATION Spec
CONSTANTS
    Touched = {"EMP-001", "EMP-004", "EMP-006", "EMP-008", "EMP-009", "EMP-010", "EMP-011"}
    Removable = {"EMP-008", "README.md", "check_emp010.py"}
    Contracts <- SomeContracts
    Reports <- SomeReports
    MaxEdits = 2
INVARIANTS
    TypeOK
    FrozenRefinements
    FinalStateAgrees
    ClosedMeansHonoured
    CoverageHolds
    SelfTestVerdict
