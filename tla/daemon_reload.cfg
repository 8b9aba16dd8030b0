SPECIFICATION Spec
CONSTANTS
    Files <- MCReloadFiles
    Defaults <- MCDefaults
    Kernels <- MCBareKernels
    Loads = {0, 9}
    Lags = {2}
    Downtimes = {0}
    Horizon = 3
    SummaryInterval = 2
    CanCrash = TRUE
    CanFail = FALSE
    CanSignal = TRUE
INVARIANTS TypeOK RateEnforced
PROPERTIES NothingLeftBehind
