SPECIFICATION Spec
CONSTANTS
    Files <- MCSteppedFiles
    Defaults <- MCDefaults
    Kernels <- MCKernels
    Loads = {0, 3, 9}
    Lags = {1, 2}
    Downtimes = {0, 2}
    Horizon = 4
    SummaryInterval = 2
    CanCrash = TRUE
    CanFail = FALSE
    CanSignal = FALSE
INVARIANTS LimitedHasCooldown RampOnTime RateInRange NoOverloadIgnored RecordInv
