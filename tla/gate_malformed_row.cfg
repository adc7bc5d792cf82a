\* A row of the backlog that lacks a cell: READY on a draft.
SPECIFICATION Spec
CONSTANTS
    Touched = {"EMP-008"}
    Removable = {}
    Contracts = {}
    Reports <- SomeReports
    MaxEdits = 3
INVARIANT
    ReadyAsWritten
