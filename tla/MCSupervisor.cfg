\* Safety of the supervisor thread, and its refinement of AbstractSupervisor.
CONSTANTS
    CpuBurstIntervalMs <- MCCpuBurstIntervalMs
    MaxCpuBursts <- MCMaxCpuBursts
    WorkerTimeoutMs <- MCWorkerTimeoutMs
    LowMemoryMultiplier <- MCLowMemoryMultiplier
    InitHeapLimit <- MCInitHeapLimit
    MaxStartDelay <- MCMaxStartDelay
    MaxPendingAlarms <- MCMaxPendingAlarms
    MaxGraces <- MCMaxGraces
SPECIFICATION Spec
INVARIANT TypeOK
INVARIANT CpuKillNotEarly
PROPERTY ImplementsAbstractSupervisor
\* The supervisor thread ends after sending its event and wall-clock time is
\* bounded by MaxTime, so behaviours stop.
CHECK_DEADLOCK FALSE
