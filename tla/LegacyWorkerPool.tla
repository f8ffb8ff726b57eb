-------------------------- MODULE LegacyWorkerPool --------------------------
(***************************************************************************)
(* The older worker pool of src/crates/base/src/worker_ctx.rs.             *)
(* WorkerPool::new boots the main worker and then runs the pool loop       *)
(* inline: Create boots a user worker (WorkerContext::new_user_worker)     *)
(* when its key is absent and replies with the key; SendRequest looks the  *)
(* key up and awaits the worker's response inside the loop.  Every error   *)
(* is unwrap()ed: a panic ends the loop and drops its receiver and every   *)
(* message and reply channel it holds.                                     *)
(*                                                                         *)
(* A user worker is the task spawned by new_user_worker: UserWorker::new   *)
(* (which can fail inside the task, unseen by the pool) and worker.run;    *)
(* the pool holds one HTTP connection to it over a socket pair.  The main  *)
(* worker's script is the source of the messages.                          *)
(***************************************************************************)
EXTENDS Naturals, Sequences

CONSTANTS
    Keys,        \* service paths of user workers (model values)
    Requests,    \* requests the main worker may route (model values)
    MaxCreates   \* bound: Create messages sent per behaviour

\* The loop's initial key is a placeholder drawn from Keys, so Keys is not empty.
ASSUME LegacyAssumption == MaxCreates \in Nat /\ Keys # {}

NoReq == "NoReq"

Msgs == [kind : {"create"}, key : Keys] \cup
        [kind : {"send"}, key : Keys, req : Requests]

VARIABLES
    msgs,      \* messages buffered in user_worker_msgs_rx
    pool,      \* the loop: [pc |-> "idle" | "creating" | "sending" | "panicked", key, req]
    table,     \* the keys of user_workers
    spawned,   \* spawned[k]: user worker tasks started for k
    wk,        \* wk[k]: the latest worker task of k: "none", "booting", "serving", "dead"
    answered,  \* requests the worker has answered on its connection
    reqs,      \* reqs[r]: the main worker's view: "idle", "queued", "ok", "err"
    creates    \* Create messages sent so far

vars == <<msgs, pool, table, spawned, wk, answered, reqs, creates>>

TypeOK ==
    /\ msgs \in Seq(Msgs)
    /\ pool \in [pc : {"idle", "creating", "sending", "panicked"},
                 key : Keys, req : Requests \cup {NoReq}]
    /\ table \subseteq Keys
    /\ spawned \in [Keys -> Nat]
    /\ wk \in [Keys -> {"none", "booting", "serving", "dead"}]
    /\ answered \subseteq Requests
    /\ reqs \in [Requests -> {"idle", "queued", "ok", "err"}]
    /\ creates \in Nat

\* WorkerPool::new has booted the main worker and entered the loop with an
\* empty user_workers map.
Init ==
    /\ msgs = <<>>
    /\ pool = [pc |-> "idle", key |-> CHOOSE k \in Keys : TRUE, req |-> NoReq]
    /\ table = {}
    /\ spawned = [k \in Keys |-> 0]
    /\ wk = [k \in Keys |-> "none"]
    /\ answered = {}
    /\ reqs = [r \in Requests |-> "idle"]
    /\ creates = 0

-----------------------------------------------------------------------------
(* The main worker's script sends messages on user_worker_msgs_tx.  Once   *)
(* the loop has panicked the receiver is gone and a send fails at once.    *)

SendCreate(k) ==
    /\ creates < MaxCreates
    /\ pool.pc # "panicked"
    /\ msgs' = Append(msgs, [kind |-> "create", key |-> k])
    /\ creates' = creates + 1
    /\ UNCHANGED <<pool, table, spawned, wk, answered, reqs>>

SendRequest(r, k) ==
    /\ reqs[r] = "idle"
    /\ IF pool.pc = "panicked"
         THEN /\ reqs' = [reqs EXCEPT ![r] = "err"]
              /\ UNCHANGED msgs
         ELSE /\ reqs' = [reqs EXCEPT ![r] = "queued"]
              /\ msgs' = Append(msgs, [kind |-> "send", key |-> k, req |-> r])
    /\ UNCHANGED <<pool, table, spawned, wk, answered, creates>>

-----------------------------------------------------------------------------
(* The pool loop.                                                          *)

\* A panic ends the loop: the message receiver, the buffered messages and
\* the reply channel in hand are dropped, so every waiting caller fails.
Panic ==
    /\ pool' = [pool EXCEPT !.pc = "panicked"]
    /\ msgs' = <<>>
    /\ reqs' = [r \in Requests |-> IF reqs[r] = "queued" THEN "err" ELSE reqs[r]]

\* Mutant: the contains_key test dropped, so every Create boots a worker.
KeyPresentNever(k) == FALSE

\* user_workers.contains_key(&key).
KeyPresent(k) == k \in table

\* The loop receives a Create: an existing key is answered at once; an
\* absent one starts new_user_worker, which spawns the worker task and
\* awaits the handshake on the socket pair.
RecvCreate ==
    /\ pool.pc = "idle"
    /\ msgs # <<>>
    /\ Head(msgs).kind = "create"
    /\ msgs' = Tail(msgs)
    /\ LET k == Head(msgs).key IN
         IF KeyPresent(k)
           THEN UNCHANGED <<pool, spawned, wk>>
           ELSE /\ pool' = [pc |-> "creating", key |-> k, req |-> NoReq]
                /\ spawned' = [spawned EXCEPT ![k] = @ + 1]
                /\ wk' = [wk EXCEPT ![k] = "booting"]
    /\ UNCHANGED <<table, answered, reqs, creates>>

\* The handshake completes: the context is inserted and the key replied.
CreateDone ==
    /\ pool.pc = "creating"
    /\ table' = table \cup {pool.key}
    /\ pool' = [pool EXCEPT !.pc = "idle"]
    /\ UNCHANGED <<msgs, spawned, wk, answered, reqs, creates>>

\* UnixStream::pair() fails for an absent key: new_user_worker returns
\* before it spawns the worker task, and the unwrap panics.
PairFail ==
    /\ pool.pc = "idle"
    /\ msgs # <<>>
    /\ Head(msgs).kind = "create"
    /\ ~KeyPresent(Head(msgs).key)
    /\ Panic
    /\ UNCHANGED <<table, spawned, wk, answered, creates>>

\* The handshake on the socket pair fails after the worker task was
\* spawned: new_user_worker(..).unwrap() panics.
CreateFail ==
    /\ pool.pc = "creating"
    /\ Panic
    /\ UNCHANGED <<table, spawned, wk, answered, creates>>

\* The loop receives a SendRequest: user_workers.get(&key).unwrap() panics on
\* an unknown key; otherwise it takes the write lock and awaits send_request.
RecvSend ==
    /\ pool.pc = "idle"
    /\ msgs # <<>>
    /\ Head(msgs).kind = "send"
    /\ LET m == Head(msgs) IN
         IF KeyPresent(m.key)
           THEN /\ pool' = [pc |-> "sending", key |-> m.key, req |-> m.req]
                /\ msgs' = Tail(msgs)
                /\ UNCHANGED reqs
           ELSE Panic
    /\ UNCHANGED <<table, spawned, wk, answered, creates>>

\* send_request resolves: the response goes back on tx; an error (the
\* worker's end of the connection is gone) is unwrap()ed.
SendDone ==
    /\ pool.pc = "sending"
    /\ \/ /\ pool.req \in answered
          /\ reqs' = [reqs EXCEPT ![pool.req] = "ok"]
          /\ pool' = [pool EXCEPT !.pc = "idle", !.req = NoReq]
          /\ UNCHANGED msgs
       \/ /\ pool.req \notin answered
          /\ wk[pool.key] = "dead"
          /\ Panic
    /\ UNCHANGED <<table, spawned, wk, answered, creates>>

-----------------------------------------------------------------------------
(* User worker tasks.                                                      *)

\* UserWorker::new succeeds and worker.run serves the socket.
WorkerBoot(k) ==
    /\ wk[k] = "booting"
    /\ wk' = [wk EXCEPT ![k] = "serving"]
    /\ UNCHANGED <<msgs, pool, table, spawned, answered, reqs, creates>>

\* UserWorker::new or worker.run fails with `?` inside the spawned task;
\* the socket's far end is dropped and the pool is not told.
WorkerBootFail(k) ==
    /\ wk[k] = "booting"
    /\ wk' = [wk EXCEPT ![k] = "dead"]
    /\ UNCHANGED <<msgs, pool, table, spawned, answered, reqs, creates>>

\* The worker answers the request the pool is waiting on.
WorkerAnswer ==
    /\ pool.pc = "sending"
    /\ wk[pool.key] = "serving"
    /\ pool.req \notin answered
    /\ answered' = answered \cup {pool.req}
    /\ UNCHANGED <<msgs, pool, table, spawned, wk, reqs, creates>>

\* The worker stops (its shutdown signal or its own limits).
WorkerStop(k) ==
    /\ wk[k] = "serving"
    /\ wk' = [wk EXCEPT ![k] = "dead"]
    /\ UNCHANGED <<msgs, pool, table, spawned, answered, reqs, creates>>

-----------------------------------------------------------------------------
Next ==
    \/ \E k \in Keys : SendCreate(k) \/ WorkerBoot(k) \/ WorkerBootFail(k)
                       \/ WorkerStop(k)
    \/ \E r \in Requests, k \in Keys : SendRequest(r, k)
    \/ RecvCreate \/ PairFail \/ CreateDone \/ CreateFail \/ RecvSend \/ SendDone
    \/ WorkerAnswer

Spec == Init /\ [][Next]_vars

-----------------------------------------------------------------------------
(* Properties.                                                             *)

\* At-most-one-instance (spec 8): however Creates for one key arrive, the
\* loop boots one worker for it.  The loop awaits new_user_worker before
\* it takes the next message, so a second Create sees the inserted key.
AtMostOneInstance == \A k \in Keys : spawned[k] <= 1

TableHoldsOnlyLiveWorkers ==
    \A k \in table : wk[k] \in {"booting", "serving"}

\* No head-of-line blocking (spec 5, 8): while a response is outstanding, a
\* request queued behind it is not held back.  The loop awaits each
\* response before it receives the next message.
NoHeadOfLineBlocking ==
    pool.pc = "sending" =>
        \A i \in DOMAIN msgs : msgs[i].kind # "send"

=============================================================================
