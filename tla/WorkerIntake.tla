---------------------------- MODULE WorkerIntake ----------------------------
(***************************************************************************)
(* One user worker and the path a request takes to it, from               *)
(* src/crates/base/src/rt_worker/worker_ctx.rs:                            *)
(*   create_worker          boot, intake task, await of the boot result;   *)
(*   the intake task        one handle_request task spawned per message;   *)
(*   handle_request         socket pair, stream handed to the worker,      *)
(*                          HTTP exchange, reply on the oneshot;           *)
(*   send_user_worker_request  the caller: send the envelope, await reply. *)
(* The worker thread itself (Worker::start, in rt_worker/worker.rs, which  *)
(* is not part of the sources) is modelled from the spec: it reports its   *)
(* boot result, accepts the streams sent on unix_stream_tx in order,       *)
(* answers the requests on them, and exits, dropping every stream it holds *)
(* or that is still buffered for it.                                       *)
(***************************************************************************)
EXTENDS Naturals, Sequences

CONSTANT Requests   \* the requests callers may send (model values)

VARIABLES
    bootResult,  \* what the worker thread sent on worker_boot_result_tx: "pending", "ok", "err"
    creator,     \* create_worker's caller: "awaiting", "ready" (got worker_req_tx), "failed"
    intakeTask,  \* the intake task: "running" or "aborted"
    intakeQ,     \* envelopes buffered in worker_req_rx
    callers,     \* callers[r]: "idle", "waiting" on res_rx, "ok" or "err"
    proxy,       \* proxy[r]: handle_request task for r: "none", "spawned", "connected", "done"
    streamQ,     \* streams buffered in unix_stream_rx, by the request they carry
    worker,      \* the worker thread: "booting", "serving", "exited"
    accepted,    \* streams the worker has taken and is serving
    answered,    \* streams on which the worker has written its response
    closed,      \* streams whose worker end has been dropped
    intakeLog,   \* history: requests in the order the intake task received them
    streamLog    \* history: requests in the order their streams were buffered for the worker

vars == <<bootResult, creator, intakeTask, intakeQ, callers, proxy, streamQ,
          worker, accepted, answered, closed, intakeLog, streamLog>>

Resolved == {"ok", "err"}

\* The set of elements of a sequence.
Elems(s) == {s[i] : i \in DOMAIN s}

-----------------------------------------------------------------------------
TypeOK ==
    /\ bootResult \in {"pending", "ok", "err"}
    /\ creator \in {"awaiting", "ready", "failed"}
    /\ intakeTask \in {"running", "aborted"}
    /\ intakeQ \in Seq(Requests)
    /\ callers \in [Requests -> {"idle", "waiting"} \cup Resolved]
    /\ proxy \in [Requests -> {"none", "spawned", "connected", "done"}]
    /\ streamQ \in Seq(Requests)
    /\ worker \in {"booting", "serving", "exited"}
    /\ accepted \subseteq Requests
    /\ answered \subseteq Requests
    /\ closed \subseteq Requests
    /\ intakeLog \in Seq(Requests)
    /\ streamLog \in Seq(Requests)

\* create_worker has called Worker::start, spawned the intake task and is
\* awaiting the boot result.
Init ==
    /\ bootResult = "pending"
    /\ creator = "awaiting"
    /\ intakeTask = "running"
    /\ intakeQ = <<>>
    /\ callers = [r \in Requests |-> "idle"]
    /\ proxy = [r \in Requests |-> "none"]
    /\ streamQ = <<>>
    /\ worker = "booting"
    /\ accepted = {}
    /\ answered = {}
    /\ closed = {}
    /\ intakeLog = <<>>
    /\ streamLog = <<>>

-----------------------------------------------------------------------------
(* The worker thread (modelled from the spec).                             *)

\* The worker boots and sends Ok(()) on the boot-result channel.
BootOk ==
    /\ worker = "booting"
    /\ worker' = "serving"
    /\ bootResult' = "ok"
    /\ UNCHANGED <<creator, intakeTask, intakeQ, callers, proxy, streamQ,
                   accepted, answered, closed, intakeLog, streamLog>>

\* Booting fails: the thread sends the error and ends.
BootFail ==
    /\ worker = "booting"
    /\ worker' = "exited"
    /\ bootResult' = "err"
    /\ UNCHANGED <<creator, intakeTask, intakeQ, callers, proxy, streamQ,
                   accepted, answered, closed, intakeLog, streamLog>>

\* The worker's serving loop takes the next stream from unix_stream_rx.
WorkerAccept ==
    /\ worker = "serving"
    /\ streamQ # <<>>
    /\ accepted' = accepted \cup {Head(streamQ)}
    /\ streamQ' = Tail(streamQ)
    /\ UNCHANGED <<bootResult, creator, intakeTask, intakeQ, callers, proxy,
                   worker, answered, closed, intakeLog, streamLog>>

\* The worker's handler answers the request on an accepted stream.
WorkerRespond(r) ==
    /\ worker = "serving"
    /\ r \in accepted \ answered
    /\ answered' = answered \cup {r}
    /\ UNCHANGED <<bootResult, creator, intakeTask, intakeQ, callers, proxy,
                   streamQ, worker, accepted, closed, intakeLog, streamLog>>

\* Mutant: the streams still buffered for the worker are discarded without
\* being closed.
WorkerExitKeepsBuffered ==
    /\ worker = "serving"
    /\ worker' = "exited"
    /\ closed' = closed \cup accepted
    /\ streamQ' = <<>>
    /\ UNCHANGED <<bootResult, creator, intakeTask, intakeQ, callers, proxy,
                   accepted, answered, intakeLog, streamLog>>

\* The worker ends (its script finished, or the supervisor terminated the
\* isolate): every stream it holds and every stream still buffered in
\* unix_stream_rx is dropped.
WorkerExit ==
    /\ worker = "serving"
    /\ worker' = "exited"
    /\ closed' = closed \cup accepted \cup Elems(streamQ)
    /\ streamQ' = <<>>
    /\ UNCHANGED <<bootResult, creator, intakeTask, intakeQ, callers, proxy,
                   accepted, answered, intakeLog, streamLog>>

-----------------------------------------------------------------------------
(* create_worker, the intake task and handle_request.                      *)

\* create_worker resumes on worker_boot_result_rx: on an error it aborts the
\* intake task and fails; otherwise it returns worker_req_tx to its caller
\* (the Boot event for the events worker is fire-and-forget).
CreateReturns ==
    /\ creator = "awaiting"
    /\ bootResult # "pending"
    /\ IF bootResult = "err"
         THEN /\ creator' = "failed"
              /\ intakeTask' = "aborted"
         ELSE /\ creator' = "ready"
              /\ UNCHANGED intakeTask
    /\ UNCHANGED <<bootResult, intakeQ, callers, proxy, streamQ, worker,
                   accepted, answered, closed, intakeLog, streamLog>>

\* send_user_worker_request: the caller sends the envelope on worker_req_tx
\* and awaits res_rx.  The send cannot fail: the intake task is aborted only
\* when create_worker fails, and then no caller holds worker_req_tx.
Send(r) ==
    /\ creator = "ready"
    /\ callers[r] = "idle"
    /\ intakeQ' = Append(intakeQ, r)
    /\ callers' = [callers EXCEPT ![r] = "waiting"]
    /\ UNCHANGED <<bootResult, creator, intakeTask, proxy, streamQ, worker,
                   accepted, answered, closed, intakeLog, streamLog>>

\* The intake loop receives the next envelope and spawns handle_request.
IntakeRecv ==
    /\ intakeTask = "running"
    /\ intakeQ # <<>>
    /\ proxy' = [proxy EXCEPT ![Head(intakeQ)] = "spawned"]
    /\ intakeLog' = Append(intakeLog, Head(intakeQ))
    /\ intakeQ' = Tail(intakeQ)
    /\ UNCHANGED <<bootResult, creator, intakeTask, callers, streamQ, worker,
                   accepted, answered, closed, streamLog>>

\* Mutant: a stream whose send failed is kept alive instead of dropped.
HandStreamKeep(r) ==
    IF worker # "exited"
      THEN /\ streamQ' = Append(streamQ, r)
           /\ streamLog' = Append(streamLog, r)
           /\ UNCHANGED closed
      ELSE UNCHANGED <<streamQ, closed, streamLog>>

\* unix_stream_tx.send(recv_stream): buffered for the worker (streamLog
\* records the order of the buffered sends), or, once the worker's
\* receiver is gone, handed back in the error and dropped.
HandStream(r) ==
    IF worker # "exited"
      THEN /\ streamQ' = Append(streamQ, r)
           /\ streamLog' = Append(streamLog, r)
           /\ UNCHANGED closed
      ELSE /\ closed' = closed \cup {r}
           /\ UNCHANGED <<streamQ, streamLog>>

\* handle_request up to the send_request await: socket pair, stream handed
\* to the worker, handshake, connection task spawned, yield.
Connect(r) ==
    /\ proxy[r] = "spawned"
    /\ proxy' = [proxy EXCEPT ![r] = "connected"]
    /\ HandStream(r)
    /\ UNCHANGED <<bootResult, creator, intakeTask, intakeQ, callers, worker,
                   accepted, answered, intakeLog>>

\* The handshake fails after the stream was handed to the worker: `?`
\* returns the error and the envelope is dropped with its res_tx, which
\* fails the caller's await; the worker still holds (or is sent) the stream.
HandshakeFail(r) ==
    /\ proxy[r] = "spawned"
    /\ proxy' = [proxy EXCEPT ![r] = "done"]
    /\ callers' = [callers EXCEPT ![r] = "err"]
    /\ HandStream(r)
    /\ UNCHANGED <<bootResult, creator, intakeTask, intakeQ, worker,
                   accepted, answered, intakeLog>>

\* UnixStream::pair() fails: `?` returns the error before any stream is
\* sent, and the envelope is dropped with its res_tx, which fails the
\* caller's await.
ConnectFail(r) ==
    /\ proxy[r] = "spawned"
    /\ proxy' = [proxy EXCEPT ![r] = "done"]
    /\ callers' = [callers EXCEPT ![r] = "err"]
    /\ UNCHANGED <<bootResult, creator, intakeTask, intakeQ, streamQ, worker,
                   accepted, answered, closed, intakeLog, streamLog>>

\* send_request completes, with the response if the worker wrote one and
\* with an error once the stream is closed; the result goes on res_tx.
Exchange(r) ==
    /\ proxy[r] = "connected"
    /\ r \in answered \cup closed
    /\ proxy' = [proxy EXCEPT ![r] = "done"]
    /\ callers' = [callers EXCEPT ![r] = IF r \in answered THEN "ok" ELSE "err"]
    /\ UNCHANGED <<bootResult, creator, intakeTask, intakeQ, streamQ, worker,
                   accepted, answered, closed, intakeLog, streamLog>>

-----------------------------------------------------------------------------
WorkerThread ==
    \/ BootOk \/ BootFail \/ WorkerAccept \/ WorkerExit
    \/ \E r \in Requests : WorkerRespond(r)

Next ==
    \/ WorkerThread
    \/ CreateReturns
    \/ IntakeRecv
    \/ \E r \in Requests : \/ Send(r) \/ Connect(r) \/ HandshakeFail(r)
                          \/ ConnectFail(r) \/ Exchange(r)

\* Tokio runs every spawned task that can make progress, so create_worker,
\* the intake task and each handle_request task are weakly fair; the
\* worker accepts buffered streams and boots; and it eventually exits,
\* because the supervisor's wall-clock limit terminates every user worker
\* (Supervisor.tla: the liveness of ImplementsAbstractSupervisor).  Answering is not assumed.
Fairness ==
    /\ WF_vars(CreateReturns)
    /\ WF_vars(IntakeRecv)
    /\ \A r \in Requests : /\ WF_vars(Connect(r) \/ HandshakeFail(r) \/ ConnectFail(r))
                          /\ WF_vars(Exchange(r))
    /\ WF_vars(BootOk \/ BootFail)
    /\ WF_vars(WorkerAccept)
    /\ WF_vars(WorkerExit)

Spec == Init /\ [][Next]_vars /\ Fairness

-----------------------------------------------------------------------------
(* Properties.                                                             *)

\* RequestEnvelope (spec 3, 7): an envelope is never silently dropped.  A
\* caller still waiting on res_rx has its request somewhere it will be
\* answered from: buffered for the intake task, in a handle_request task
\* about to connect, or on a stream that is buffered for the worker, held
\* by it, or already closed.
NoEnvelopeLost ==
    \A r \in Requests : callers[r] = "waiting" =>
        \/ r \in Elems(intakeQ)
        \/ proxy[r] = "spawned"
        \/ /\ proxy[r] = "connected"
           /\ r \in Elems(streamQ) \cup accepted \cup closed

\* Every caller of send_user_worker_request eventually gets a response or
\* an error, whether or not the worker ever answers, given that the
\* supervisor eventually ends the worker.
RequestsResolve ==
    \A r \in Requests : callers[r] = "waiting" ~> callers[r] \in Resolved

\* Spec 5: requests routed to one worker are forwarded to the transport in
\* the order they were taken from the intake queue.  The intake loop hands
\* each envelope to a freshly spawned task, and it is the task that sends
\* the stream, so two tasks may send theirs in either order.
StreamsFollowIntakeOrder ==
    \A i, j \in DOMAIN streamLog :
        i < j => \E a, b \in DOMAIN intakeLog :
                    /\ a < b
                    /\ intakeLog[a] = streamLog[i]
                    /\ intakeLog[b] = streamLog[j]

=============================================================================
