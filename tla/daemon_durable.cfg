SPECIFICATION Spec
CONSTANTS
    Files <- MCQuickFiles
    Defaults <- MCDefaults
    Kernels <- MCBareKernels
    Loads = {0, 9}
    Lags = {2}
    Downtimes = {2}
    Horizon = 3
    SummaryInterval = 3
    CanCrash = TRUE
    CanFail = TRUE
    CanSignal = TRUE
INVARIANTS Resumes LimitsInPlace
PROPERTIES LimitIsDurable
