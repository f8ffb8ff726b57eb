---------------------------- MODULE MCSupervisor ----------------------------
(* Small instance of Supervisor for TLC: a burst interval of 1 ms and one  *)
(* allowed burst make the CPU limit reachable at 4 ms, before the 6 ms     *)
(* wall-clock timeout, so all three branches of the select! can win.       *)
EXTENDS Supervisor

MCCpuBurstIntervalMs == 1
MCMaxCpuBursts == 1
MCWorkerTimeoutMs == 6
MCLowMemoryMultiplier == 2
MCInitHeapLimit == 1
MCMaxStartDelay == 1
MCMaxPendingAlarms == 2
MCMaxGraces == 2
=============================================================================
