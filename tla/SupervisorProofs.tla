-------------------------- MODULE SupervisorProofs --------------------------
(***************************************************************************)
(* Proofs about the supervisor thread (Supervisor.tla) for every value of  *)
(* its configuration and bounds.                                           *)
(***************************************************************************)
EXTENDS Supervisor, TLAPS

-----------------------------------------------------------------------------
(* Type correctness.                                                       *)

LEMMA TypeInit == Init => TypeOK
  BY ConfAssumption DEF Init, TypeOK, NoEvent, Reasons

LEMMA TypeStep == TypeOK /\ [Next]_vars => TypeOK'
<1> SUFFICES ASSUME TypeOK, [Next]_vars PROVE TypeOK'
  OBVIOUS
<1>1. CASE Tick
    BY <1>1 DEF Tick, TypeOK
<1>2. CASE CpuAlarm
    BY <1>2 DEF CpuAlarm, TypeOK
<1>3. CASE NearHeapLimit
    BY <1>3, ConfAssumption DEF NearHeapLimit, TypeOK
<1>4. CASE IsolateExit
    BY <1>4 DEF IsolateExit, TypeOK
<1>5. CASE Start
    BY <1>5 DEF Start, TypeOK
<1>6. CASE RecvCpuAlarm
    BY <1>6 DEF RecvCpuAlarm, Report, TerminateExecution, TypeOK, Reasons
<1>7. CASE WallClock
    BY <1>7 DEF WallClock, Report, TerminateExecution, TypeOK, Reasons
<1>8. CASE RecvMemory
    BY <1>8 DEF RecvMemory, Report, TerminateExecution, TypeOK, Reasons
<1>9. CASE UNCHANGED vars
    BY <1>9 DEF vars, TypeOK
<1>10. QED
    BY <1>1, <1>2, <1>3, <1>4, <1>5, <1>6, <1>7, <1>8, <1>9
       DEF Next, Environment, SupervisorThread

\* Every step of the supervisor thread and of its environment keeps each
\* variable in its type.
THEOREM TypeCorrect == Spec => []TypeOK
  BY TypeInit, TypeStep, PTL DEF Spec

-----------------------------------------------------------------------------
(* The CPU limit is never reached early.                                   *)

\* The strengthening of CpuKillNotEarly.  Each counted burst moves
\* last_burst more than the burst interval past the previous one, so
\* last_burst lies at least bursts * (interval + 1) ms after the start; a
\* CPU report is made with more than max_cpu_bursts bursts, at or after the
\* last counted one.  The report is made only once the thread has started.
BurstClock ==
    supPc # "spawned" =>
        /\ startAt <= lastBurst
        /\ lastBurst <= now
        /\ lastBurst - startAt >= bursts * (CpuBurstIntervalMs + 1)

CpuReport ==
    event = "CpuTimeLimit" =>
        /\ bursts > MaxCpuBursts
        /\ lastBurst <= eventAt

NotReportedYet == supPc # "done" => event = NoEvent

IInv == TypeOK /\ BurstClock /\ CpuReport /\ NotReportedYet

\* If b >= a then b * c >= a * c, for naturals.
LEMMA MulMonotone ==
    ASSUME NEW a \in Nat, NEW b \in Nat, NEW c \in Nat, b >= a
    PROVE  b * c >= a * c
  OBVIOUS

LEMMA IInvInit == Init => IInv
  BY ConfAssumption
  DEF Init, IInv, TypeOK, BurstClock, CpuReport, NotReportedYet, NoEvent, Reasons

LEMMA IInvStep == IInv /\ [Next]_vars => IInv'
<1> SUFFICES ASSUME IInv, [Next]_vars PROVE IInv'
  OBVIOUS
<1>0. TypeOK'
  BY TypeStep DEF IInv
<1>1. CASE Tick
  BY <1>1 DEF Tick, IInv, TypeOK, BurstClock, CpuReport, NotReportedYet
<1>2. CASE CpuAlarm
  BY <1>2 DEF CpuAlarm, IInv, TypeOK, BurstClock, CpuReport, NotReportedYet
<1>3. CASE NearHeapLimit
  BY <1>0, <1>3 DEF NearHeapLimit, IInv, BurstClock, CpuReport, NotReportedYet
<1>4. CASE IsolateExit
  BY <1>4 DEF IsolateExit, IInv, TypeOK, BurstClock, CpuReport, NotReportedYet
<1>5. CASE Start
  <2>1. BurstClock'
    BY <1>5, ConfAssumption DEF Start, IInv, TypeOK, BurstClock
  <2>2. CpuReport'
    BY <1>5 DEF Start, IInv, CpuReport, NotReportedYet, NoEvent
  <2>3. NotReportedYet'
    BY <1>5 DEF Start, IInv, NotReportedYet
  <2>4. QED
    BY <1>0, <2>1, <2>2, <2>3 DEF IInv
<1>6. CASE RecvCpuAlarm
  <2> USE DEF IInv, TypeOK
  <2>1. BurstClock'
    <3>1. CASE BurstCounted
      <4>1. bursts' = bursts + 1 /\ lastBurst' = now
        BY <1>6, <3>1 DEF RecvCpuAlarm
      <4>2. now - startAt >= (bursts + 1) * (CpuBurstIntervalMs + 1)
        BY <1>6, <3>1, ConfAssumption DEF RecvCpuAlarm, BurstClock, BurstCounted
      <4>3. QED
        BY <1>6, <4>1, <4>2 DEF RecvCpuAlarm, BurstClock
    <3>2. CASE ~BurstCounted
      BY <1>6, <3>2 DEF RecvCpuAlarm, BurstClock
    <3>3. QED
      BY <3>1, <3>2
  <2>2. CpuReport'
    BY <1>6 DEF RecvCpuAlarm, Report, CpuReport, BurstClock, BurstCounted,
              NotReportedYet, NoEvent
  <2>3. NotReportedYet'
    BY <1>6 DEF RecvCpuAlarm, Report, NotReportedYet
  <2>4. QED
    BY <1>0, <2>1, <2>2, <2>3
<1>7. CASE WallClock
  BY <1>0, <1>7 DEF WallClock, Report, IInv, BurstClock, CpuReport,
              NotReportedYet, NoEvent
<1>8. CASE RecvMemory
  BY <1>0, <1>8 DEF RecvMemory, Report, IInv, BurstClock, CpuReport,
              NotReportedYet, NoEvent
<1>9. CASE UNCHANGED vars
  BY <1>9 DEF vars, IInv, TypeOK, BurstClock, CpuReport, NotReportedYet
<1>10. QED
  BY <1>0, <1>1, <1>2, <1>3, <1>4, <1>5, <1>6, <1>7, <1>8, <1>9
     DEF Next, Environment, SupervisorThread, IInv

LEMMA IInvImpliesCpuKillNotEarly == IInv => CpuKillNotEarly
<1> SUFFICES ASSUME IInv, event = "CpuTimeLimit"
             PROVE  eventAt - startAt >= (MaxCpuBursts + 1) * (CpuBurstIntervalMs + 1)
  BY DEF CpuKillNotEarly
<1>1. supPc = "done"
  BY DEF IInv, NotReportedYet, NoEvent
<1>2. bursts >= MaxCpuBursts + 1 /\ lastBurst <= eventAt
  BY ConfAssumption DEF IInv, CpuReport, TypeOK
<1>3. bursts * (CpuBurstIntervalMs + 1) >= (MaxCpuBursts + 1) * (CpuBurstIntervalMs + 1)
  BY <1>2, MulMonotone, ConfAssumption DEF IInv, TypeOK
<1>4. QED
  BY <1>1, <1>2, <1>3, ConfAssumption DEF IInv, TypeOK, BurstClock

\* CpuKillNotEarly holds for every configuration: the supervisor never
\* retires a worker for CPU time (RecvCpuAlarm, the bursts > max_cpu_bursts
\* branch) before (max_cpu_bursts + 1) * (cpu_burst_interval_ms + 1) ms.
THEOREM CpuKillNeverEarly == Spec => []CpuKillNotEarly
  BY IInvInit, IInvStep, IInvImpliesCpuKillNotEarly, PTL DEF Spec

-----------------------------------------------------------------------------
(* The supervisor implements the safety part of AbstractSupervisor.        *)

\* A buffered memory notification was sent by a callback invocation.
MemNotified == memAlarms <= graces

LEMMA MemNotifiedInit == Init => MemNotified
  BY DEF Init, MemNotified

LEMMA MemNotifiedStep == TypeOK /\ MemNotified /\ [Next]_vars => MemNotified'
<1> SUFFICES ASSUME TypeOK, MemNotified, [Next]_vars PROVE MemNotified'
  OBVIOUS
<1>1. CASE NearHeapLimit
  BY <1>1 DEF NearHeapLimit, MemNotified, TypeOK
<1>2. CASE RecvMemory
  BY <1>2 DEF RecvMemory, Report, MemNotified, TypeOK
<1>3. CASE ~NearHeapLimit /\ ~RecvMemory
  BY <1>3 DEF Next, Environment, SupervisorThread, Tick, CpuAlarm, IsolateExit,
              Start, RecvCpuAlarm, Report, WallClock, vars, MemNotified
<1>4. QED
  BY <1>1, <1>2, <1>3

RInv == IInv /\ MemNotified

LEMMA RInvInvariant == Spec => []RInv
<1>1. Init => RInv
  BY IInvInit, MemNotifiedInit DEF RInv
<1>2. RInv /\ [Next]_vars => RInv'
  BY IInvStep, MemNotifiedStep DEF RInv, IInv
<1>3. QED
  BY <1>1, <1>2, PTL DEF Spec

LEMMA AbsInit == Init => AbsSup!Init
  BY DEF Init, AbsSup!Init

\* Every step of the supervisor is a step of the abstract race or leaves
\* the outcome and the breach unchanged.
LEMMA AbsStep == RInv /\ [Next]_vars => [AbsSup!Next]_AbsSup!vars
<1> SUFFICES ASSUME RInv, [Next]_vars PROVE [AbsSup!Next]_AbsSup!vars
  OBVIOUS
<1> USE DEF AbsSup!vars
<1>1. CASE Tick \/ CpuAlarm \/ IsolateExit \/ Start
  BY <1>1 DEF Tick, CpuAlarm, IsolateExit, Start
<1>2. CASE NearHeapLimit
  <2>1. CASE graces = 0
    BY <1>2, <2>1 DEF NearHeapLimit, AbsSup!Next, AbsSup!Breach, RInv, IInv, TypeOK
  <2>2. CASE graces # 0
    BY <1>2, <2>2 DEF NearHeapLimit, RInv, IInv, TypeOK
  <2>3. QED
    BY <2>1, <2>2
<1>3. CASE RecvCpuAlarm
  <2>1. event = NoEvent
    BY <1>3 DEF RecvCpuAlarm, RInv, IInv, NotReportedYet
  <2>2. CASE bursts' > MaxCpuBursts
    <3>1. AbsSup!Decide("CpuTimeLimit")
      BY <1>3, <2>1, <2>2 DEF RecvCpuAlarm, Report, AbsSup!Decide, NoEvent
    <3>2. QED
      BY <3>1 DEF AbsSup!Next, AbsSup!Outcomes
  <2>3. CASE ~(bursts' > MaxCpuBursts)
    BY <1>3, <2>3 DEF RecvCpuAlarm
  <2>4. QED
    BY <2>2, <2>3
<1>4. CASE WallClock
  <2>1. AbsSup!Decide("WallClockTimeLimit")
    BY <1>4 DEF WallClock, Report, AbsSup!Decide, RInv, IInv, NotReportedYet
  <2>2. QED
    BY <2>1 DEF AbsSup!Next, AbsSup!Outcomes
<1>5. CASE RecvMemory
  <2>1. AbsSup!Decide("MemoryLimit")
    BY <1>5 DEF RecvMemory, Report, AbsSup!Decide, RInv, IInv, NotReportedYet,
                MemNotified, TypeOK
  <2>2. QED
    BY <2>1 DEF AbsSup!Next, AbsSup!Outcomes
<1>6. CASE UNCHANGED vars
  BY <1>6 DEF vars
<1>7. QED
  BY <1>1, <1>2, <1>3, <1>4, <1>5, <1>6 DEF Next, Environment, SupervisorThread

\* The supervisor thread implements the safety part of the abstract race
\* for every configuration: its termination event is decided once, by one
\* select! branch, never revised, and MemoryLimit only after the heap
\* callback has run.
THEOREM SupervisorRefinesAbstract == Spec => AbsSup!SafetySpec
  BY RInvInvariant, AbsInit, AbsStep, PTL DEF Spec, AbsSup!SafetySpec

=============================================================================
