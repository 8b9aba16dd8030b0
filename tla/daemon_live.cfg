SPECIFICATION ServiceSpec
CONSTANTS
    Files <- MCAnyFiles
    Defaults <- MCDefaults
    Kernels <- MCBareKernels
    Loads = {0, 9}
    Lags = {2}
    Downtimes = {2}
    Horizon = 3
    SummaryInterval = 3
    CanCrash = FALSE
    CanFail = FALSE
    CanSignal = TRUE
PROPERTIES ShutdownCompletes ReloadServed LimitLifted CalmIsUnlimited
