------------------------- MODULE AbstractSupervisor -------------------------
(***************************************************************************)
(* What the supervisor of a user worker promises (spec 4.1), without its   *)
(* channels, clock or thread: a single race decides one termination        *)
(* reason, once, and the decision is never revised; a memory-limit         *)
(* decision is made only after the isolate's heap has crossed its limit;   *)
(* and the decision is eventually made.                                    *)
(***************************************************************************)
CONSTANT NoOutcome   \* the value before the race is decided; not in Outcomes

Outcomes == {"CpuTimeLimit", "WallClockTimeLimit", "MemoryLimit"}

VARIABLES
    outcome,   \* the decided termination reason, or NoOutcome
    breached   \* whether the heap has crossed its soft limit

vars == <<outcome, breached>>

Init ==
    /\ outcome = NoOutcome
    /\ breached = FALSE

\* The isolate's heap crosses its limit.
Breach ==
    /\ ~breached
    /\ breached' = TRUE
    /\ UNCHANGED outcome

\* The race is decided for `reason`; MemoryLimit needs a breach.
Decide(reason) ==
    /\ outcome = NoOutcome
    /\ reason = "MemoryLimit" => breached
    /\ outcome' = reason
    /\ UNCHANGED breached

Next == Breach \/ \E r \in Outcomes : Decide(r)

SafetySpec == Init /\ [][Next]_vars

\* The race is eventually decided.
Spec == SafetySpec /\ WF_outcome(\E r \in Outcomes : Decide(r))

=============================================================================
