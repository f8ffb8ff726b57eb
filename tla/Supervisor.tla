----------------------------- MODULE Supervisor -----------------------------
(***************************************************************************)
(* The resource supervisor of one user worker: create_supervisor in        *)
(* src/crates/base/src/rt_worker/worker_ctx.rs.  A dedicated thread runs a *)
(* current-thread tokio runtime whose future loops on a three-way select!  *)
(* over the CPU-alarm channel, the wall-clock sleep and the memory-limit   *)
(* channel, calls terminate_execution on the isolate and returns the       *)
(* reason, which the thread sends on termination_event_tx.                 *)
(*                                                                         *)
(* The environment of the thread is modelled too: the CPU timer that sends *)
(* alarms, the near-heap-limit callback that V8 invokes on the isolate's   *)
(* thread, the isolate itself (running, asked to terminate, exited) and    *)
(* wall-clock time in whole milliseconds.                                  *)
(***************************************************************************)
EXTENDS Naturals

CONSTANTS
    CpuBurstIntervalMs,   \* conf.cpu_burst_interval_ms
    MaxCpuBursts,         \* conf.max_cpu_bursts
    WorkerTimeoutMs,      \* conf.worker_timeout_ms
    LowMemoryMultiplier,  \* conf.low_memory_multiplier
    InitHeapLimit,        \* the isolate's heap limit when the callback is added
    MaxStartDelay,        \* bound: ms between create_supervisor and the thread's first poll
    MaxPendingAlarms,     \* bound: messages buffered in each unbounded channel
    MaxGraces             \* bound: near-heap-limit callbacks per behaviour

ASSUME ConfAssumption ==
    /\ CpuBurstIntervalMs \in Nat
    /\ MaxCpuBursts \in Nat
    /\ WorkerTimeoutMs \in Nat
    /\ LowMemoryMultiplier \in Nat
    /\ InitHeapLimit \in Nat

ASSUME BoundsAssumption ==
    /\ MaxStartDelay \in Nat
    /\ MaxPendingAlarms \in Nat
    /\ MaxGraces \in Nat

\* Wall-clock time never passes this bound in a behaviour; it leaves room
\* for the sleep of a thread that starts as late as MaxStartDelay to expire,
\* and one millisecond more in which the expired sleep is not yet polled.
MaxTime == MaxStartDelay + WorkerTimeoutMs + 1

NoEvent == "None"
Reasons == {"CpuTimeLimit", "WallClockTimeLimit", "MemoryLimit"}

VARIABLES
    now,          \* wall-clock time (ms)
    supPc,        \* "spawned": thread not yet polled; "running": in the loop; "done"
    startAt,      \* Instant::now() when the future starts (line 100)
    bursts,       \* the future's local `bursts`
    lastBurst,    \* the future's local `last_burst`
    cpuAlarms,    \* alarms buffered in cpu_alarms_rx
    memAlarms,    \* notifications buffered in memory_limit_rx
    heapLimit,    \* the isolate's current heap limit
    graces,       \* near-heap-limit callbacks invoked so far
    isolate,      \* "running", "terminating" (terminate_execution called) or "exited"
    event,        \* the WorkerEvents the thread sent, or NoEvent
    eventAt       \* the time the event was decided

vars == <<now, supPc, startAt, bursts, lastBurst, cpuAlarms, memAlarms,
          heapLimit, graces, isolate, event, eventAt>>

-----------------------------------------------------------------------------
TypeOK ==
    /\ now \in Nat
    /\ supPc \in {"spawned", "running", "done"}
    /\ startAt \in Nat
    /\ bursts \in Nat
    /\ lastBurst \in Nat
    /\ cpuAlarms \in Nat
    /\ memAlarms \in Nat
    /\ heapLimit \in Nat
    /\ graces \in Nat
    /\ isolate \in {"running", "terminating", "exited"}
    /\ event \in Reasons \cup {NoEvent}
    /\ eventAt \in Nat

\* create_supervisor has returned: the CPU timer is started, the callback
\* added and the thread spawned, but its future has not yet been polled.
Init ==
    /\ now = 0
    /\ supPc = "spawned"
    /\ startAt = 0
    /\ bursts = 0
    /\ lastBurst = 0
    /\ cpuAlarms = 0
    /\ memAlarms = 0
    /\ heapLimit = InitHeapLimit
    /\ graces = 0
    /\ isolate = "running"
    /\ event = NoEvent
    /\ eventAt = 0

-----------------------------------------------------------------------------
(* Environment.                                                            *)

\* Time passes; a thread that was spawned starts within MaxStartDelay.
Tick ==
    /\ supPc # "done"
    /\ now < MaxTime
    /\ supPc = "spawned" => now < MaxStartDelay
    /\ now' = now + 1
    /\ UNCHANGED <<supPc, startAt, bursts, lastBurst, cpuAlarms, memAlarms,
                   heapLimit, graces, isolate, event, eventAt>>

\* The CPU timer sends an alarm after each threshold of the isolate
\* thread's CPU time; once the receiver is dropped the send is ignored.
CpuAlarm ==
    /\ isolate # "exited"
    /\ supPc # "done"
    /\ cpuAlarms < MaxPendingAlarms
    /\ cpuAlarms' = cpuAlarms + 1
    /\ UNCHANGED <<now, supPc, startAt, bursts, lastBurst, memAlarms,
                   heapLimit, graces, isolate, event, eventAt>>

\* V8 invokes the near-heap-limit callback with the current limit: it
\* notifies the supervisor (the send fails once the receiver is gone) and
\* returns the limit times the multiplier, `cur * (low_memory_multiplier as
\* usize)`, which V8 adopts.  MaxGraces keeps the product far below the
\* width of a 64-bit usize.
NearHeapLimit ==
    /\ isolate # "exited"
    /\ graces < MaxGraces
    /\ memAlarms' = IF supPc # "done" THEN memAlarms + 1 ELSE memAlarms
    /\ heapLimit' = heapLimit * LowMemoryMultiplier
    /\ graces' = graces + 1
    /\ UNCHANGED <<now, supPc, startAt, bursts, lastBurst, cpuAlarms,
                   isolate, event, eventAt>>

\* The isolate stops, on its own or because a requested termination
\* landed; the CPU timer and the callback (the channels' senders) go with it.
IsolateExit ==
    /\ isolate # "exited"
    /\ isolate' = "exited"
    /\ UNCHANGED <<now, supPc, startAt, bursts, lastBurst, cpuAlarms,
                   memAlarms, heapLimit, graces, event, eventAt>>

-----------------------------------------------------------------------------
(* The supervisor thread.                                                  *)

\* terminate_execution on the isolate's thread-safe handle: a no-op once
\* the isolate has exited.
TerminateExecution ==
    isolate' = IF isolate = "exited" THEN "exited" ELSE "terminating"

\* Mutant: the branch records its reason but does not return, so the loop
\* goes on racing.
ReportNoReturn(reason) ==
    /\ TerminateExecution
    /\ event' = reason
    /\ eventAt' = now
    /\ UNCHANGED supPc

\* The future returns `reason`; the thread sends it and ends.
Report(reason) ==
    /\ TerminateExecution
    /\ event' = reason
    /\ eventAt' = now
    /\ supPc' = "done"

\* The thread's runtime polls the future: bursts = 0, last_burst = now and
\* the sleep armed for worker_timeout_ms.
Start ==
    /\ supPc = "spawned"
    /\ supPc' = "running"
    /\ startAt' = now
    /\ bursts' = 0
    /\ lastBurst' = now
    /\ UNCHANGED <<now, cpuAlarms, memAlarms, heapLimit, graces, isolate,
                   event, eventAt>>

\* Mutant: a burst counted once the interval has elapsed (>= for >).
BurstCountedAtInterval == now - lastBurst >= CpuBurstIntervalMs

\* A burst is counted when more than the burst interval has elapsed since
\* the last counted one (elapsed().as_millis() > cpu_burst_interval_ms).
BurstCounted == now - lastBurst > CpuBurstIntervalMs

\* The CPU-alarm branch of the select!.
RecvCpuAlarm ==
    /\ supPc = "running"
    /\ cpuAlarms > 0
    /\ cpuAlarms' = cpuAlarms - 1
    /\ bursts' = IF BurstCounted THEN bursts + 1 ELSE bursts
    /\ lastBurst' = IF BurstCounted THEN now ELSE lastBurst
    /\ IF bursts' > MaxCpuBursts
         THEN Report("CpuTimeLimit")
         ELSE UNCHANGED <<supPc, isolate, event, eventAt>>
    /\ UNCHANGED <<now, startAt, memAlarms, heapLimit, graces>>

\* The sleep armed at start for worker_timeout_ms has completed.
SleepExpired == now >= startAt + WorkerTimeoutMs

\* The wall-clock branch of the select!.
WallClock ==
    /\ supPc = "running"
    /\ SleepExpired
    /\ Report("WallClockTimeLimit")
    /\ UNCHANGED <<now, startAt, bursts, lastBurst, cpuAlarms, memAlarms,
                   heapLimit, graces>>

\* Mutant: the memory branch taken without a buffered notification.
RecvMemoryUnguarded ==
    /\ supPc = "running"
    /\ memAlarms' = memAlarms - 1
    /\ Report("MemoryLimit")
    /\ UNCHANGED <<now, startAt, bursts, lastBurst, cpuAlarms, heapLimit,
                   graces>>

\* The memory branch: the first notification terminates the isolate.
RecvMemory ==
    /\ supPc = "running"
    /\ memAlarms > 0
    /\ memAlarms' = memAlarms - 1
    /\ Report("MemoryLimit")
    /\ UNCHANGED <<now, startAt, bursts, lastBurst, cpuAlarms, heapLimit,
                   graces>>

-----------------------------------------------------------------------------
Environment == Tick \/ CpuAlarm \/ NearHeapLimit \/ IsolateExit

SupervisorThread == Start \/ RecvCpuAlarm \/ WallClock \/ RecvMemory

Next == Environment \/ SupervisorThread

\* The supervisor thread is dedicated and runs whenever its future can make
\* progress; tokio's select! polls its branches in random order, so the
\* sleep branch, once ready, is not passed over forever.  Time passes.
Fairness ==
    /\ WF_vars(Start)
    /\ WF_vars(WallClock)
    /\ WF_vars(Tick)

Spec == Init /\ [][Next]_vars /\ Fairness

-----------------------------------------------------------------------------
(* Properties.                                                             *)

\* CPU limit (spec 8, "concrete scenario"): the supervisor retires a worker
\* for CPU time only after more than max_cpu_bursts bursts, each counted
\* more than cpu_burst_interval_ms after the previous one, so never before
\* (max_cpu_bursts + 1) * (cpu_burst_interval_ms + 1) ms of wall-clock time
\* since the supervisor started, however the CPU timer's alarms arrive.
CpuKillNotEarly ==
    event = "CpuTimeLimit" =>
        eventAt - startAt >= (MaxCpuBursts + 1) * (CpuBurstIntervalMs + 1)

\* Spec 8, heap-callback grace window: the MemoryLimit event is decided
\* before a second near-heap-limit breach extends the already extended
\* limit.  The callback runs on the isolate's thread and the supervisor on
\* its own, so nothing orders the second breach after the report.
ReportBeforeSecondBreach == graces >= 2 => event # NoEvent

-----------------------------------------------------------------------------
(* Refinement: the termination event is the abstract outcome, and a heap   *)
(* breach is any invocation of the near-heap-limit callback.               *)

AbsSup == INSTANCE AbstractSupervisor
            WITH NoOutcome <- NoEvent, outcome <- event, breached <- graces > 0

\* Spec 4.1: the supervisor thread implements the abstract race: one
\* termination reason is decided, once, and never revised (each select!
\* branch returns); MemoryLimit is reported only after the heap callback
\* has run; and the reason is eventually decided.
ImplementsAbstractSupervisor == AbsSup!Spec

=============================================================================
