SPECIFICATION Spec
CONSTANTS
    Rates = {1, 4}
    MaxFaults = 2
INVARIANTS TypeOK InitLimitsBothDirections FaultFreeCallsComplete ChangeKeepsRules
