SPECIFICATION Spec
CONSTANTS
    Files <- MCTwoFiles
    Defaults <- MCDefaults
    Kernels <- MCBareKernels
    Loads = {0}
    Lags = {2}
    Downtimes = {0}
    Horizon = 3
    SummaryInterval = 2
    CanCrash = FALSE
    CanFail = FALSE
    CanSignal = TRUE
INVARIANTS HupIsServed
