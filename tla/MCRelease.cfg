CONSTANTS
    N = 2
    MaxCalls = 2
SPECIFICATION Spec
INVARIANTS TypeOK BusyOnlyBehindARefusal NothingOverlooked
CHECK_DEADLOCK FALSE
