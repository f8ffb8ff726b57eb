----------------------- MODULE LegacyWorkerPoolProofs -----------------------
(***************************************************************************)
(* Proofs about the older pool loop of worker_ctx.rs                       *)
(* (LegacyWorkerPool.tla), for every set of keys and requests.             *)
(***************************************************************************)
EXTENDS LegacyWorkerPool, TLAPS

-----------------------------------------------------------------------------
(* Type correctness.                                                       *)

\* TypeOK is not inductive by itself: WorkerAnswer adds pool.req to the
\* answered requests, which is a request only while the loop awaits one.
SendingHasReq == pool.pc = "sending" => pool.req \in Requests

TInv == TypeOK /\ SendingHasReq

LEMMA TypeInit == Init => TInv
  BY LegacyAssumption DEF Init, TInv, TypeOK, SendingHasReq


\* TypeOK, with the loop's record type named so that the provers can keep
\* it folded.
PcVals == {"idle", "creating", "sending", "panicked"}

PoolRecs == [pc : PcVals, key : Keys, req : Requests \cup {NoReq}]

TypeRest ==
    /\ msgs \in Seq(Msgs)
    /\ table \subseteq Keys
    /\ spawned \in [Keys -> Nat]
    /\ wk \in [Keys -> {"none", "booting", "serving", "dead"}]
    /\ answered \subseteq Requests
    /\ reqs \in [Requests -> {"idle", "queued", "ok", "err"}]
    /\ creates \in Nat

LEMMA TypeSplit == TypeOK <=> pool \in PoolRecs /\ TypeRest
  BY DEF TypeOK, TypeRest, PoolRecs, PcVals

LEMMA TypeSplitNext == TypeOK' <=> pool' \in PoolRecs /\ TypeRest'
  BY DEF TypeOK, TypeRest, PoolRecs, PcVals

\* A new position of the loop built from its fields.
LEMMA PoolRec ==
    ASSUME NEW p \in PcVals, NEW k \in Keys, NEW q \in Requests \cup {NoReq}
    PROVE  [pc |-> p, key |-> k, req |-> q] \in PoolRecs
  BY DEF PoolRecs

\* The loop's position after an EXCEPT on its stage and its request.
LEMMA PoolExcept ==
    ASSUME NEW x \in PoolRecs, NEW p \in PcVals, NEW q \in Requests \cup {NoReq}
    PROVE  /\ [x EXCEPT !.pc = p] \in PoolRecs
           /\ [x EXCEPT !.pc = p].pc = p
           /\ [x EXCEPT !.pc = p, !.req = q] \in PoolRecs
           /\ [x EXCEPT !.pc = p, !.req = q].pc = p
  <1> DEFINE y == [x EXCEPT !.pc = p]
             z == [x EXCEPT !.pc = p, !.req = q]
  <1>1. DOMAIN y = {"pc", "key", "req"} /\ DOMAIN z = {"pc", "key", "req"}
    BY DEF PoolRecs
  <1>2. /\ y.pc = p /\ y.key = x.key /\ y.req = x.req
        /\ z.pc = p /\ z.key = x.key /\ z.req = q
    BY DEF PoolRecs
  <1>3. x.key \in Keys /\ x.req \in Requests \cup {NoReq}
    BY DEF PoolRecs
  <1>4. QED
    BY <1>1, <1>2, <1>3 DEF PoolRecs

\* A panic leaves the state well typed.
LEMMA PanicType ==
    ASSUME TypeOK, Panic, UNCHANGED <<table, spawned, wk, answered, creates>>
    PROVE  TInv'
  <1>1. pool \in PoolRecs /\ TypeRest
    BY TypeSplit
  <1>2. pool' \in PoolRecs /\ pool'.pc = "panicked"
    BY <1>1, PoolExcept DEF Panic, PcVals
  <1>3. TypeRest'
    BY <1>1 DEF Panic, TypeRest
  <1>4. QED
    BY <1>2, <1>3, TypeSplitNext DEF TInv, SendingHasReq

LEMMA TypeStep == TInv /\ [Next]_vars => TInv'
<1> SUFFICES ASSUME TypeOK, SendingHasReq, [Next]_vars PROVE TInv'
  BY DEF TInv
<1>0. pool \in PoolRecs /\ TypeRest
  BY TypeSplit
<1>1. ASSUME NEW k \in Keys, SendCreate(k) PROVE TInv'
  <2>1. [kind |-> "create", key |-> k] \in Msgs
    BY DEF Msgs
  <2>2. TypeRest'
    BY <1>0, <1>1, <2>1 DEF SendCreate, TypeRest
  <2>3. QED
    BY <1>0, <1>1, <2>2, TypeSplitNext DEF SendCreate, TInv, SendingHasReq
<1>2. ASSUME NEW k \in Keys,
             WorkerBoot(k) \/ WorkerBootFail(k) \/ WorkerStop(k)
      PROVE  TInv'
  <2>1. TypeRest' /\ pool' = pool
    BY <1>0, <1>2 DEF WorkerBoot, WorkerBootFail, WorkerStop, TypeRest
  <2>2. QED
    BY <1>0, <2>1, TypeSplitNext DEF TInv, SendingHasReq
<1>3. ASSUME NEW r \in Requests, NEW k \in Keys, SendRequest(r, k)
      PROVE  TInv'
  <2>1. [kind |-> "send", key |-> k, req |-> r] \in Msgs
    BY DEF Msgs
  <2>2. TypeRest' /\ pool' = pool
    <3>1. CASE pool.pc = "panicked"
      BY <1>0, <1>3, <3>1 DEF SendRequest, TypeRest
    <3>2. CASE pool.pc # "panicked"
      <4>1. msgs' = Append(msgs, [kind |-> "send", key |-> k, req |-> r])
            /\ reqs' = [reqs EXCEPT ![r] = "queued"]
        BY <1>3, <3>2 DEF SendRequest
      <4>2. QED
        BY <1>0, <1>3, <2>1, <4>1 DEF SendRequest, TypeRest
    <3>3. QED
      BY <3>1, <3>2
  <2>3. QED
    BY <1>0, <2>2, TypeSplitNext DEF TInv, SendingHasReq
<1>4. CASE RecvCreate
  <2>1. Head(msgs) \in Msgs /\ Head(msgs).kind = "create"
    BY <1>0, <1>4 DEF RecvCreate, TypeRest
  <2>2. Head(msgs).key \in Keys
    BY <2>1 DEF Msgs
  <2>3. TypeRest'
    <3>1. msgs # <<>> /\ msgs' = Tail(msgs)
      BY <1>4 DEF RecvCreate
    <3>2. CASE KeyPresent(Head(msgs).key)
      BY <1>0, <1>4, <3>1, <3>2 DEF RecvCreate, TypeRest
    <3>3. CASE ~KeyPresent(Head(msgs).key)
      <4>1. spawned' = [spawned EXCEPT ![Head(msgs).key] = @ + 1]
            /\ wk' = [wk EXCEPT ![Head(msgs).key] = "booting"]
        BY <1>4, <3>3 DEF RecvCreate
      <4>2. QED
        BY <1>0, <1>4, <2>2, <3>1, <4>1 DEF RecvCreate, TypeRest
    <3>4. QED
      BY <3>2, <3>3
  <2>4. pool' \in PoolRecs /\ pool'.pc # "sending"
    <3>1. CASE KeyPresent(Head(msgs).key)
      BY <1>0, <1>4, <3>1 DEF RecvCreate
    <3>2. CASE ~KeyPresent(Head(msgs).key)
      BY <1>4, <2>2, <3>2, PoolRec DEF RecvCreate, PcVals
    <3>3. QED
      BY <3>1, <3>2
  <2>5. QED
    BY <2>3, <2>4, TypeSplitNext DEF TInv, SendingHasReq
<1>5. CASE CreateDone
  <2>1. pool' \in PoolRecs /\ pool'.pc = "idle"
    BY <1>0, <1>5, PoolExcept DEF CreateDone, PcVals
  <2>2. TypeRest'
    BY <1>0, <1>5 DEF CreateDone, TypeRest, PoolRecs
  <2>3. QED
    BY <2>1, <2>2, TypeSplitNext DEF TInv, SendingHasReq
<1>6. CASE PairFail \/ CreateFail \/ (pool.pc = "idle" /\ RecvSend /\ ~KeyPresent(Head(msgs).key))
          \/ (SendDone /\ pool.req \notin answered)
  <2>1. Panic /\ UNCHANGED <<table, spawned, wk, answered, creates>>
    BY <1>6 DEF PairFail, CreateFail, RecvSend, SendDone
  <2>2. QED
    BY <2>1, PanicType
<1>7. CASE RecvSend /\ KeyPresent(Head(msgs).key)
  <2>1. Head(msgs) \in Msgs /\ Head(msgs).kind = "send"
    BY <1>0, <1>7 DEF RecvSend, TypeRest
  <2>2. Head(msgs).key \in Keys /\ Head(msgs).req \in Requests
    BY <2>1 DEF Msgs
  <2>3. pool' = [pc |-> "sending", key |-> Head(msgs).key, req |-> Head(msgs).req]
    BY <1>7 DEF RecvSend
  <2>4. pool' \in PoolRecs
    BY <2>2, <2>3, PoolRec DEF PcVals
  <2>5. TypeRest'
    <3>1. msgs # <<>> /\ msgs' = Tail(msgs) /\ UNCHANGED reqs
      BY <1>7 DEF RecvSend
    <3>2. QED
      BY <1>0, <1>7, <3>1 DEF RecvSend, TypeRest
  <2>6. QED
    BY <2>2, <2>3, <2>4, <2>5, TypeSplitNext DEF TInv, SendingHasReq
<1>8. CASE SendDone /\ pool.req \in answered
  <2>0. pool' = [pool EXCEPT !.pc = "idle", !.req = NoReq]
    BY <1>8 DEF SendDone
  <2>1. pool' \in PoolRecs /\ pool'.pc = "idle"
    <3>1. "idle" \in PcVals /\ NoReq \in Requests \cup {NoReq}
      BY DEF PcVals
    <3>2. /\ [pool EXCEPT !.pc = "idle", !.req = NoReq] \in PoolRecs
          /\ [pool EXCEPT !.pc = "idle", !.req = NoReq].pc = "idle"
      BY <1>0, <3>1, PoolExcept
    <3>3. QED
      BY <2>0, <3>2
  <2>2. TypeRest'
    BY <1>0, <1>8 DEF SendDone, TypeRest
  <2>3. QED
    BY <2>1, <2>2, TypeSplitNext DEF TInv, SendingHasReq
<1>9. CASE WorkerAnswer
  <2>1. TypeRest' /\ pool' = pool
    BY <1>0, <1>9 DEF WorkerAnswer, TypeRest, SendingHasReq
  <2>2. QED
    BY <1>0, <2>1, TypeSplitNext DEF TInv, SendingHasReq
<1>10. CASE UNCHANGED vars
  BY <1>0, <1>10, TypeSplitNext DEF vars, TypeRest, TInv, SendingHasReq
<1>11. QED
  <2>1. RecvSend => pool.pc = "idle"
    BY DEF RecvSend
  <2>2. QED
    BY <1>1, <1>2, <1>3, <1>4, <1>5, <1>6, <1>7, <1>8, <1>9, <1>10, <2>1 DEF Next

\* The older pool's state is always well typed.
THEOREM TypeCorrect == Spec => []TypeOK
<1>1. Spec => []TInv
  BY TypeInit, TypeStep, PTL DEF Spec
<1>2. QED
  BY <1>1, PTL DEF TInv

-----------------------------------------------------------------------------
(* At most one worker per key.  spawned[k] <= 1 is not inductive: a second *)
(* Create of k boots nothing only because k is then in the table or being  *)
(* created.  The strengthening ties the spawned count to the table and to  *)
(* the loop's await of new_user_worker, as long as the loop runs.          *)

\* The loop is awaiting new_user_worker for k.
Creating(k) == pool.pc = "creating" /\ pool.key = k

SpawnedTracksTable ==
    \A k \in Keys :
        /\ spawned[k] <= 1
        /\ (k \in table \/ Creating(k)) => spawned[k] = 1
        /\ (pool.pc # "panicked" /\ spawned[k] = 1) => (k \in table \/ Creating(k))

\* The key being created has no entry yet.
CreatingAbsent == pool.pc = "creating" => pool.key \notin table

IInv == TInv /\ SpawnedTracksTable /\ CreatingAbsent

LEMMA IInvInit == Init => IInv
<1> SUFFICES ASSUME Init PROVE IInv
  OBVIOUS
<1>1. pool.pc = "idle" /\ table = {} /\ spawned = [k \in Keys |-> 0]
  BY DEF Init
<1>2. SpawnedTracksTable /\ CreatingAbsent
  BY <1>1 DEF SpawnedTracksTable, CreatingAbsent, Creating
<1>3. QED
  BY <1>2, TypeInit DEF IInv

LEMMA IInvStep == IInv /\ [Next]_vars => IInv'
<1> SUFFICES ASSUME IInv, [Next]_vars PROVE IInv'
  OBVIOUS
<1>0. TInv' /\ TypeOK /\ pool \in PoolRecs /\ TypeRest
  BY TypeStep, TypeSplit DEF IInv, TInv
<1> USE DEF IInv
<1>1. CASE UNCHANGED <<pool, table, spawned>>
  <2>1. SpawnedTracksTable'
    BY <1>1 DEF SpawnedTracksTable, Creating
  <2>2. CreatingAbsent'
    BY <1>1 DEF CreatingAbsent
  <2>3. QED
    BY <1>0, <2>1, <2>2
<1>2. CASE RecvCreate /\ ~KeyPresent(Head(msgs).key)
  <2> DEFINE k0 == Head(msgs).key
  <2>1. k0 \in Keys
    BY <1>0, <1>2 DEF RecvCreate, TypeRest, Msgs
  <2>2. /\ pool.pc = "idle" /\ k0 \notin table
        /\ pool' = [pc |-> "creating", key |-> k0, req |-> NoReq]
        /\ spawned' = [spawned EXCEPT ![k0] = @ + 1]
        /\ table' = table
    BY <1>2 DEF RecvCreate, KeyPresent
  <2>3. spawned[k0] = 0
    BY <1>0, <2>1, <2>2 DEF SpawnedTracksTable, Creating, TypeRest
  <2>4. SpawnedTracksTable'
    BY <1>0, <2>1, <2>2, <2>3 DEF SpawnedTracksTable, Creating, TypeRest
  <2>5. CreatingAbsent'
    BY <2>2 DEF CreatingAbsent
  <2>6. QED
    BY <1>0, <2>4, <2>5
<1>3. CASE CreateDone
  <2>1. /\ pool.pc = "creating"
        /\ table' = table \cup {pool.key}
        /\ pool' = [pool EXCEPT !.pc = "idle"]
        /\ spawned' = spawned
    BY <1>3 DEF CreateDone
  <2>2. pool'.pc = "idle" /\ pool'.key = pool.key
    BY <1>0, <2>1 DEF PoolRecs
  <2>3. QED
    BY <1>0, <2>1, <2>2 DEF SpawnedTracksTable, CreatingAbsent, Creating
<1>4. CASE Panic /\ UNCHANGED <<table, spawned>>
  <2>1. pool'.pc = "panicked"
    BY <1>0, <1>4 DEF Panic, PoolRecs
  <2>2. QED
    BY <1>0, <1>4, <2>1 DEF SpawnedTracksTable, CreatingAbsent, Creating
<1>5. CASE RecvSend /\ KeyPresent(Head(msgs).key)
  <2>1. pool.pc = "idle" /\ pool'.pc = "sending" /\ UNCHANGED <<table, spawned>>
    BY <1>5 DEF RecvSend
  <2>2. QED
    BY <1>0, <2>1 DEF SpawnedTracksTable, CreatingAbsent, Creating
<1>6. CASE SendDone /\ pool.req \in answered
  <2>1. pool.pc = "sending" /\ UNCHANGED <<table, spawned>>
        /\ pool' = [pool EXCEPT !.pc = "idle", !.req = NoReq]
    BY <1>6 DEF SendDone
  <2>2. pool'.pc = "idle"
    BY <1>0, <2>1 DEF PoolRecs
  <2>3. QED
    BY <1>0, <2>1, <2>2 DEF SpawnedTracksTable, CreatingAbsent, Creating
<1>7. QED
  <2>1. RecvCreate /\ KeyPresent(Head(msgs).key) => UNCHANGED <<pool, table, spawned>>
    BY DEF RecvCreate
  <2>2. PairFail \/ CreateFail \/ (RecvSend /\ ~KeyPresent(Head(msgs).key))
          \/ (SendDone /\ pool.req \notin answered)
        => Panic /\ UNCHANGED <<table, spawned>>
    BY DEF PairFail, CreateFail, RecvSend, SendDone
  <2>3. \A k \in Keys : SendCreate(k) \/ WorkerBoot(k) \/ WorkerBootFail(k) \/ WorkerStop(k)
                       => UNCHANGED <<pool, table, spawned>>
    BY DEF SendCreate, WorkerBoot, WorkerBootFail, WorkerStop
  <2>4. \A r \in Requests, k \in Keys : SendRequest(r, k) => UNCHANGED <<pool, table, spawned>>
    BY DEF SendRequest
  <2>5. WorkerAnswer \/ UNCHANGED vars => UNCHANGED <<pool, table, spawned>>
    BY DEF WorkerAnswer, vars
  <2>6. QED
    BY <1>1, <1>2, <1>3, <1>4, <1>5, <1>6, <2>1, <2>2, <2>3, <2>4, <2>5
       DEF Next

\* At-most-one-instance (spec 8) for the older pool, for every set of keys
\* and requests: the loop boots at most one worker task per key, because
\* it awaits new_user_worker before it takes the next message, so a second
\* Create of the key finds it in user_workers.
THEOREM AtMostOneInstanceHolds == Spec => []AtMostOneInstance
<1>1. Spec => []IInv
  BY IInvInit, IInvStep, PTL DEF Spec
<1>2. IInv => AtMostOneInstance
  BY DEF IInv, SpawnedTracksTable, AtMostOneInstance
<1>3. QED
  BY <1>1, <1>2, PTL

=============================================================================
