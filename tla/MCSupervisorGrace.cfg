\* Violation: a second heap breach before the supervisor reports.
CONSTANTS
    CpuBurstIntervalMs <- MCCpuBurstIntervalMs
    MaxCpuBursts <- MCMaxCpuBursts
    WorkerTimeoutMs <- MCWorkerTimeoutMs
    LowMemoryMultiplier <- MCLowMemoryMultiplier
    InitHeapLimit <- MCInitHeapLimit
    MaxStartDelay <- MCMaxStartDelay
    MaxPendingAlarms <- MCMaxPendingAlarms
    MaxGraces <- MCMaxGraces
SPECIFICATION Spec
INVARIANT ReportBeforeSecondBreach
CHECK_DEADLOCK FALSE
