--------------------------- MODULE UserWorkerPool ---------------------------
(***************************************************************************)
(* The user worker pool actor, create_user_worker_pool in                  *)
(* src/crates/base/src/rt_worker/worker_ctx.rs: one task takes             *)
(* UserWorkerMsgs from an unbounded channel, one at a time, and hands them *)
(* to a WorkerPool.  Create is awaited inside the loop; SendRequest and    *)
(* Shutdown are not.  The WorkerPool (rt_worker/worker_pool.rs, not among  *)
(* the sources) is modelled from the spec: a table from key to worker,     *)
(* idempotent create, routing, shutdown by key.                            *)
(*                                                                         *)
(* The pool is handed a clone of the actor's own sender (line 258).  As    *)
(* the loop is the only code that changes the table and it only reads     *)
(* Create, SendRequest and Shutdown, the removal of a worker that its      *)
(* supervisor has terminated (spec 6) reaches the actor as a               *)
(* Shutdown(key) sent on that clone.                                       *)
(*                                                                         *)
(* A worker instance is named by the caller whose Create booted it.        *)
(***************************************************************************)
EXTENDS Naturals, Sequences, FiniteSets

CONSTANTS
    Keys,      \* worker identities (service paths), model values
    Callers    \* callers of the front door, one message each, model values

NoCaller == "NoCaller"
External == "External"   \* origin of a Shutdown sent through the front door

ASSUME PoolAssumption ==
    /\ Keys # {}
    /\ NoCaller \notin Callers
    /\ External \notin Callers

Msgs ==
    [kind : {"create", "send"}, key : Keys, from : Callers] \cup
    [kind : {"shutdown"}, key : Keys, origin : Callers \cup {External}]

\* The life of a worker instance.  "stopping": the pool has shut it down
\* but its supervisor thread has not ended yet.
InstStates == {"unused", "booting", "ready", "failed", "stopping", "ended"}

VARIABLES
    msgs,      \* messages buffered in user_worker_msgs_rx
    actor,     \* the loop: [pc |-> "recv" | "creating", from |-> the Create awaited]
    table,     \* table[k]: the instance the pool holds for k, or NoCaller
    instKey,   \* instKey[i]: the key instance i was booted for
    instSt,    \* instSt[i]: the state of instance i
    routed,    \* routed[c]: the instance c's request was handed to, or NoCaller
    callers    \* callers[c]: "idle", "waiting", "ok", "err", or "sent" (a Shutdown)

vars == <<msgs, actor, table, instKey, instSt, routed, callers>>

TypeOK ==
    /\ msgs \in Seq(Msgs)
    /\ actor \in [pc : {"recv", "creating"}, from : Callers \cup {NoCaller}]
    /\ table \in [Keys -> Callers \cup {NoCaller}]
    /\ instKey \in [Callers -> Keys]
    /\ instSt \in [Callers -> InstStates]
    /\ routed \in [Callers -> Callers \cup {NoCaller}]
    /\ callers \in [Callers -> {"idle", "waiting", "ok", "err", "sent"}]

\* The channel is created, the pool built and the loop spawned.
Init ==
    /\ msgs = <<>>
    /\ actor = [pc |-> "recv", from |-> NoCaller]
    /\ table = [k \in Keys |-> NoCaller]
    /\ instKey = [c \in Callers |-> CHOOSE k \in Keys : TRUE]
    /\ instSt = [c \in Callers |-> "unused"]
    /\ routed = [c \in Callers |-> NoCaller]
    /\ callers = [c \in Callers |-> "idle"]

-----------------------------------------------------------------------------
(* Callers of the front door.  The receiver lives as long as the loop, so  *)
(* a send never fails.                                                     *)

CallCreate(c, k) ==
    /\ callers[c] = "idle"
    /\ msgs' = Append(msgs, [kind |-> "create", key |-> k, from |-> c])
    /\ callers' = [callers EXCEPT ![c] = "waiting"]
    /\ UNCHANGED <<actor, table, instKey, instSt, routed>>

CallSend(c, k) ==
    /\ callers[c] = "idle"
    /\ msgs' = Append(msgs, [kind |-> "send", key |-> k, from |-> c])
    /\ callers' = [callers EXCEPT ![c] = "waiting"]
    /\ UNCHANGED <<actor, table, instKey, instSt, routed>>

CallShutdown(c, k) ==
    /\ callers[c] = "idle"
    /\ msgs' = Append(msgs, [kind |-> "shutdown", key |-> k, origin |-> External])
    /\ callers' = [callers EXCEPT ![c] = "sent"]
    /\ UNCHANGED <<actor, table, instKey, instSt, routed>>

-----------------------------------------------------------------------------
(* The loop.                                                               *)

\* The loop takes the next message (recv().await yields Some).
Received(kind) ==
    /\ actor.pc = "recv"
    /\ msgs # <<>>
    /\ Head(msgs).kind = kind
    /\ msgs' = Tail(msgs)

\* Mutant: create_worker is spawned rather than awaited, so the loop goes
\* on to the next message while the worker boots.
RecvCreateUnawaited ==
    /\ Received("create")
    /\ LET m == Head(msgs) IN
         IF table[m.key] # NoCaller
           THEN /\ callers' = [callers EXCEPT ![m.from] = "ok"]
                /\ UNCHANGED <<instKey, instSt>>
           ELSE /\ instKey' = [instKey EXCEPT ![m.from] = m.key]
                /\ instSt' = [instSt EXCEPT ![m.from] = "booting"]
                /\ UNCHANGED callers
    /\ UNCHANGED <<actor, table, routed>>

\* Create: a key with an entry is answered at once with that entry;
\* otherwise the loop awaits worker_pool.create_worker, which boots a
\* worker for the key.
RecvCreate ==
    /\ Received("create")
    /\ LET m == Head(msgs) IN
         IF table[m.key] # NoCaller
           THEN /\ callers' = [callers EXCEPT ![m.from] = "ok"]
                /\ UNCHANGED <<actor, instKey, instSt>>
           ELSE /\ instKey' = [instKey EXCEPT ![m.from] = m.key]
                /\ instSt' = [instSt EXCEPT ![m.from] = "booting"]
                /\ actor' = [pc |-> "creating", from |-> m.from]
                /\ UNCHANGED callers
    /\ UNCHANGED <<table, routed>>

\* Mutant: the loop is not resumed when the boot it awaits resolves.
BootResolvesNoResume(i) ==
    /\ instSt[i] = "booting"
    /\ \/ /\ instSt' = [instSt EXCEPT ![i] = "ready"]
          /\ table' = [table EXCEPT ![instKey[i]] = i]
          /\ callers' = [callers EXCEPT ![i] = "ok"]
       \/ /\ instSt' = [instSt EXCEPT ![i] = "failed"]
          /\ callers' = [callers EXCEPT ![i] = "err"]
          /\ UNCHANGED table
    /\ UNCHANGED <<msgs, actor, instKey, routed>>

\* The boot of instance i resolves: on success it is inserted and the key
\* replied; on failure the error is replied and nothing inserted.  The loop
\* resumes if it was awaiting this boot (the result itself is ignored:
\* `let _ =`).
BootResolves(i) ==
    /\ instSt[i] = "booting"
    /\ \/ /\ instSt' = [instSt EXCEPT ![i] = "ready"]
          /\ table' = [table EXCEPT ![instKey[i]] = i]
          /\ callers' = [callers EXCEPT ![i] = "ok"]
       \/ /\ instSt' = [instSt EXCEPT ![i] = "failed"]
          /\ callers' = [callers EXCEPT ![i] = "err"]
          /\ UNCHANGED table
    /\ actor' = IF actor.from = i THEN [pc |-> "recv", from |-> NoCaller]
                                  ELSE actor
    /\ UNCHANGED <<msgs, instKey, routed>>

\* SendRequest: worker_pool.send_request is called and not awaited; a key
\* without an entry is answered with an error, otherwise the request is
\* handed to the entry's worker.
RecvSend ==
    /\ Received("send")
    /\ LET m == Head(msgs) IN
         IF table[m.key] = NoCaller
           THEN /\ callers' = [callers EXCEPT ![m.from] = "err"]
                /\ UNCHANGED routed
           ELSE /\ routed' = [routed EXCEPT ![m.from] = table[m.key]]
                /\ UNCHANGED callers
    /\ UNCHANGED <<actor, table, instKey, instSt>>

\* Shutdown: the entry of the key, if any, is removed and its worker shut
\* down; a key without an entry is a no-op.
RecvShutdown ==
    /\ Received("shutdown")
    /\ LET i == table[Head(msgs).key] IN
         IF i = NoCaller
           THEN UNCHANGED <<table, instSt>>
           ELSE /\ table' = [table EXCEPT ![Head(msgs).key] = NoCaller]
                /\ instSt' = [instSt EXCEPT ![i] =
                                IF @ = "ready" THEN "stopping" ELSE @]
    /\ UNCHANGED <<actor, instKey, routed, callers>>

-----------------------------------------------------------------------------
(* Worker instances (modelled from the spec).                              *)

\* A ready worker answers a request handed to it.
Serve(c) ==
    /\ callers[c] = "waiting"
    /\ routed[c] # NoCaller
    /\ instSt[routed[c]] = "ready"
    /\ callers' = [callers EXCEPT ![c] = "ok"]
    /\ UNCHANGED <<msgs, actor, table, instKey, instSt, routed>>

\* A request handed to a worker that is shut down or ended fails.
FailDead(c) ==
    /\ callers[c] = "waiting"
    /\ routed[c] # NoCaller
    /\ instSt[routed[c]] \in {"stopping", "ended"}
    /\ callers' = [callers EXCEPT ![c] = "err"]
    /\ UNCHANGED <<msgs, actor, table, instKey, instSt, routed>>

\* The supervisor of instance i reports its event (a resource limit, or,
\* as Supervisor.tla shows, a limit after the worker was shut down); the
\* removal of the worker is sent to the actor as Shutdown(key).
SupervisorEnds(i) ==
    /\ instSt[i] \in {"ready", "stopping"}
    /\ instSt' = [instSt EXCEPT ![i] = "ended"]
    /\ msgs' = Append(msgs, [kind |-> "shutdown", key |-> instKey[i], origin |-> i])
    /\ UNCHANGED <<actor, table, instKey, routed, callers>>

-----------------------------------------------------------------------------
Next ==
    \/ \E c \in Callers, k \in Keys :
          CallCreate(c, k) \/ CallSend(c, k) \/ CallShutdown(c, k)
    \/ RecvCreate \/ RecvSend \/ RecvShutdown
    \/ \E i \in Callers :
          BootResolves(i) \/ Serve(i) \/ FailDead(i) \/ SupervisorEnds(i)

\* The loop is a tokio task that runs whenever a message is buffered; a
\* boot ends with a result (spec 4.2); a request held by a dead worker
\* fails.  User code need not answer, but every running worker ends: its
\* supervisor's wall-clock branch always fires (Supervisor.tla: the
\* liveness of ImplementsAbstractSupervisor).
Fairness ==
    /\ WF_vars(RecvCreate) /\ WF_vars(RecvSend) /\ WF_vars(RecvShutdown)
    /\ \A i \in Callers :
          /\ WF_vars(BootResolves(i)) /\ WF_vars(FailDead(i))
          /\ WF_vars(SupervisorEnds(i))

Spec == Init /\ [][Next]_vars /\ Fairness

-----------------------------------------------------------------------------
(* Properties.                                                             *)

\* The instances of key k that are booting or serving.
Live(k) == {i \in Callers : instKey[i] = k /\ instSt[i] \in {"booting", "ready"}}

\* At-most-one-instance (spec 8): however Creates, requests, shutdowns and
\* supervisor terminations for one key interleave, at most one worker for
\* it is booting or serving.  The loop awaits each boot before it reads the
\* next message, so a second Create sees the entry the first inserted.
AtMostOneInstance == \A k \in Keys : Cardinality(Live(k)) <= 1

\* A worker in the table is never orphaned: an entry of the pool's table
\* is only ever removed (by a Shutdown), never replaced by another
\* instance.  The loop inserts an entry when create_worker's boot resolves,
\* and a Create for a key with an entry boots nothing, so the slot is
\* empty whenever a boot resolves.
EntryNeverOverwritten ==
    [][\A k \in Keys : table[k] # NoCaller => table'[k] \in {table[k], NoCaller}]_vars

\* Every envelope resolves (spec 6): a caller of Create or SendRequest
\* eventually gets a reply, an error included, whatever becomes of the
\* worker its request was handed to.
RepliesResolve ==
    \A c \in Callers : callers[c] = "waiting" ~> callers[c] \in {"ok", "err"}

\* Only Supervisor-declared terminal events and explicit shutdowns retire a
\* worker (spec 6): the Shutdown sent for an instance that ended retires no
\* other instance.  Shutdown is by key, and the key may by then name a
\* worker booted after a front-door Shutdown removed the old one.
ShutdownRetiresOnlyItsInstance ==
    [][\A i \in Callers :
         instSt[i] = "ready" /\ instSt'[i] = "stopping" =>
             Head(msgs).origin \in {i, External}]_vars

=============================================================================
