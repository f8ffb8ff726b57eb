------------------------- MODULE WorkerIntakeProofs -------------------------
(***************************************************************************)
(* Proofs about the request path of one worker (WorkerIntake.tla), for     *)
(* every set of requests.                                                  *)
(***************************************************************************)
EXTENDS WorkerIntake, TLAPS

-----------------------------------------------------------------------------
(* Lemmas about Elems, the set of a channel's buffered items.              *)

\* An item sent on a channel is buffered in it, beside the earlier ones.
LEMMA ElemsAppend ==
    ASSUME NEW S, NEW s \in Seq(S), NEW x \in S
    PROVE  Elems(Append(s, x)) = Elems(s) \cup {x}
  <1>1. Elems(Append(s, x)) \subseteq Elems(s) \cup {x}
    BY DEF Elems
  <1>2. Elems(s) \subseteq Elems(Append(s, x))
    <2> SUFFICES ASSUME NEW i \in DOMAIN s PROVE s[i] \in Elems(Append(s, x))
      BY DEF Elems
    <2>1. i \in DOMAIN Append(s, x) /\ Append(s, x)[i] = s[i]
      OBVIOUS
    <2>2. QED
      BY <2>1 DEF Elems
  <1>3. x \in Elems(Append(s, x))
    <2>1. Len(s) + 1 \in DOMAIN Append(s, x) /\ Append(s, x)[Len(s) + 1] = x
      OBVIOUS
    <2>2. QED
      BY <2>1 DEF Elems
  <1>4. QED
    BY <1>1, <1>2, <1>3

\* Receiving from a channel removes only the item received.
LEMMA ElemsTail ==
    ASSUME NEW S, NEW s \in Seq(S), s # <<>>,
           NEW x \in Elems(s), x # Head(s)
    PROVE  x \in Elems(Tail(s))
  <1>1. PICK i \in DOMAIN s : s[i] = x
    BY DEF Elems
  <1>2. i # 1
    BY <1>1
  <1>3. i - 1 \in DOMAIN Tail(s) /\ Tail(s)[i - 1] = x
    BY <1>1, <1>2
  <1>4. QED
    BY <1>3 DEF Elems

\* The items of a channel of requests are requests.
LEMMA ElemsType ==
    ASSUME NEW s \in Seq(Requests)
    PROVE  Elems(s) \subseteq Requests
  BY DEF Elems

-----------------------------------------------------------------------------
(* Type correctness.                                                       *)

LEMMA TypeInit == Init => TypeOK
  BY DEF Init, TypeOK

LEMMA TypeStep == TypeOK /\ [Next]_vars => TypeOK'
<1> SUFFICES ASSUME TypeOK, [Next]_vars PROVE TypeOK'
  OBVIOUS
<1>1. CASE BootOk \/ BootFail \/ CreateReturns
  BY <1>1 DEF BootOk, BootFail, CreateReturns, TypeOK
<1>2. CASE WorkerAccept
  BY <1>2 DEF WorkerAccept, TypeOK
<1>3. CASE WorkerExit
  BY <1>3, ElemsType DEF WorkerExit, TypeOK
<1>4. ASSUME NEW r \in Requests, WorkerRespond(r) PROVE TypeOK'
  BY <1>4 DEF WorkerRespond, TypeOK
<1>5. CASE IntakeRecv
  BY <1>5 DEF IntakeRecv, TypeOK
<1>6. ASSUME NEW r \in Requests, Send(r) PROVE TypeOK'
  BY <1>6 DEF Send, TypeOK
<1>7. ASSUME NEW r \in Requests, Connect(r) PROVE TypeOK'
  <2>1. CASE worker # "exited"
    <3>1. /\ streamQ' = Append(streamQ, r) /\ closed' = closed
          /\ streamLog' = Append(streamLog, r)
      BY <1>7, <2>1 DEF Connect, HandStream
    <3>2. QED
      BY <1>7, <3>1 DEF Connect, TypeOK
  <2>2. CASE worker = "exited"
    <3>1. /\ streamQ' = streamQ /\ closed' = closed \cup {r}
          /\ streamLog' = streamLog
      BY <1>7, <2>2 DEF Connect, HandStream
    <3>2. QED
      BY <1>7, <3>1 DEF Connect, TypeOK
  <2>3. QED
    BY <2>1, <2>2
<1>8. ASSUME NEW r \in Requests, ConnectFail(r) \/ Exchange(r) PROVE TypeOK'
  BY <1>8 DEF ConnectFail, Exchange, TypeOK, Resolved
<1>9. ASSUME NEW r \in Requests, HandshakeFail(r) PROVE TypeOK'
  <2>1. /\ streamQ' \in Seq(Requests) /\ streamLog' \in Seq(Requests)
        /\ closed' \subseteq Requests
    <3>1. CASE worker # "exited"
      <4>1. /\ streamQ' = Append(streamQ, r) /\ closed' = closed
            /\ streamLog' = Append(streamLog, r)
        BY <1>9, <3>1 DEF HandshakeFail, HandStream
      <4>2. QED
        BY <4>1 DEF TypeOK
    <3>2. CASE worker = "exited"
      <4>1. /\ streamQ' = streamQ /\ closed' = closed \cup {r}
            /\ streamLog' = streamLog
        BY <1>9, <3>2 DEF HandshakeFail, HandStream
      <4>2. QED
        BY <4>1 DEF TypeOK
    <3>3. QED
      BY <3>1, <3>2
  <2>2. /\ proxy' = [proxy EXCEPT ![r] = "done"]
        /\ callers' = [callers EXCEPT ![r] = "err"]
        /\ UNCHANGED <<bootResult, creator, intakeTask, intakeQ, worker,
                       accepted, answered, intakeLog>>
    BY <1>9 DEF HandshakeFail
  <2>3. QED
    BY <2>1, <2>2 DEF TypeOK, Resolved
<1>10. CASE UNCHANGED vars
  BY <1>10 DEF vars, TypeOK
<1>11. QED
  BY <1>1, <1>2, <1>3, <1>4, <1>5, <1>6, <1>7, <1>8, <1>9, <1>10
     DEF Next, WorkerThread

\* The state of the request path is always well typed.
THEOREM TypeCorrect == Spec => []TypeOK
  BY TypeInit, TypeStep, PTL DEF Spec

-----------------------------------------------------------------------------
(* No envelope is lost.  NoEnvelopeLost is inductive together with TypeOK: *)
(* each stage hands a waiting request to the next one in the same step     *)
(* (the intake queue to a spawned task, the task to a buffered stream or,  *)
(* once the worker is gone, a closed one, the buffer to the accepted       *)
(* streams, and an exiting worker closes both).                            *)

IInv == TypeOK /\ NoEnvelopeLost

LEMMA IInvInit == Init => IInv
  BY TypeInit DEF Init, IInv, NoEnvelopeLost

LEMMA IInvStep == IInv /\ [Next]_vars => IInv'
<1> SUFFICES ASSUME IInv, [Next]_vars PROVE IInv'
  OBVIOUS
<1>0. TypeOK /\ TypeOK'
  BY TypeStep DEF IInv
<1>1. CASE BootOk \/ BootFail \/ CreateReturns
  BY <1>0, <1>1 DEF BootOk, BootFail, CreateReturns, IInv, NoEnvelopeLost
<1>2. CASE WorkerAccept
  <2> SUFFICES ASSUME NEW r \in Requests, callers'[r] = "waiting"
               PROVE  \/ r \in Elems(intakeQ')
                      \/ proxy'[r] = "spawned"
                      \/ /\ proxy'[r] = "connected"
                         /\ r \in Elems(streamQ') \cup accepted' \cup closed'
    BY <1>0 DEF IInv, NoEnvelopeLost
  <2>1. CASE r \in Elems(streamQ) /\ r # Head(streamQ)
    BY <1>2, <1>0, <2>1, ElemsTail DEF WorkerAccept, IInv, NoEnvelopeLost, TypeOK
  <2>2. CASE ~(r \in Elems(streamQ) /\ r # Head(streamQ))
    BY <1>2, <2>2 DEF WorkerAccept, IInv, NoEnvelopeLost
  <2>3. QED
    BY <2>1, <2>2
<1>3. CASE WorkerExit
  BY <1>0, <1>3 DEF WorkerExit, IInv, NoEnvelopeLost
<1>4. ASSUME NEW r \in Requests, WorkerRespond(r) PROVE IInv'
  BY <1>0, <1>4 DEF WorkerRespond, IInv, NoEnvelopeLost
<1>5. CASE IntakeRecv
  <2> SUFFICES ASSUME NEW r \in Requests, callers'[r] = "waiting"
               PROVE  \/ r \in Elems(intakeQ')
                      \/ proxy'[r] = "spawned"
                      \/ /\ proxy'[r] = "connected"
                         /\ r \in Elems(streamQ') \cup accepted' \cup closed'
    BY <1>0 DEF IInv, NoEnvelopeLost
  <2>1. CASE r = Head(intakeQ)
    BY <1>5, <2>1 DEF IntakeRecv, TypeOK, IInv
  <2>2. CASE r \in Elems(intakeQ) /\ r # Head(intakeQ)
    BY <1>5, <2>2, ElemsTail DEF IntakeRecv, IInv, TypeOK
  <2>3. CASE r \notin Elems(intakeQ) /\ r # Head(intakeQ)
    BY <1>5, <2>3 DEF IntakeRecv, IInv, NoEnvelopeLost, TypeOK
  <2>4. QED
    BY <2>1, <2>2, <2>3
<1>6. ASSUME NEW r \in Requests, Send(r) PROVE IInv'
  <2>1. Elems(intakeQ') = Elems(intakeQ) \cup {r}
    BY <1>6, ElemsAppend DEF Send, IInv, TypeOK
  <2>2. QED
    BY <1>0, <1>6, <2>1 DEF Send, IInv, NoEnvelopeLost
<1>7. ASSUME NEW r \in Requests, Connect(r) PROVE IInv'
  <2>1. CASE worker # "exited"
    <3>0. streamQ' = Append(streamQ, r) /\ closed' = closed
      BY <1>7, <2>1 DEF Connect, HandStream
    <3>1. Elems(streamQ') = Elems(streamQ) \cup {r} /\ closed' = closed
      BY <3>0, ElemsAppend DEF IInv, TypeOK
    <3>2. QED
      BY <1>0, <1>7, <3>1 DEF Connect, IInv, NoEnvelopeLost
  <2>2. CASE worker = "exited"
    <3>1. streamQ' = streamQ /\ closed' = closed \cup {r}
      BY <1>7, <2>2 DEF Connect, HandStream
    <3>2. QED
      BY <1>0, <1>7, <3>1 DEF Connect, IInv, NoEnvelopeLost
  <2>3. QED
    BY <2>1, <2>2
<1>8. ASSUME NEW r \in Requests, ConnectFail(r) \/ Exchange(r) PROVE IInv'
  <2>1. callers'[r] # "waiting"
    BY <1>0, <1>8 DEF ConnectFail, Exchange, TypeOK
  <2>2. \A q \in Requests \ {r} : callers'[q] = callers[q] /\ proxy'[q] = proxy[q]
    BY <1>0, <1>8 DEF ConnectFail, Exchange, TypeOK
  <2>3. UNCHANGED <<intakeQ, streamQ, accepted, closed>>
    BY <1>8 DEF ConnectFail, Exchange
  <2>4. QED
    BY <1>0, <2>1, <2>2, <2>3 DEF IInv, NoEnvelopeLost
<1>9. ASSUME NEW r \in Requests, HandshakeFail(r) PROVE IInv'
  <2>1. callers'[r] # "waiting"
    BY <1>0, <1>9 DEF HandshakeFail, TypeOK
  <2>2. \A q \in Requests \ {r} : callers'[q] = callers[q] /\ proxy'[q] = proxy[q]
    BY <1>0, <1>9 DEF HandshakeFail, TypeOK
  <2>3. /\ Elems(streamQ) \subseteq Elems(streamQ') /\ closed \subseteq closed'
        /\ UNCHANGED <<intakeQ, accepted>>
    <3>1. CASE worker # "exited"
      <4>1. streamQ' = Append(streamQ, r) /\ closed' = closed
        BY <1>9, <3>1 DEF HandshakeFail, HandStream
      <4>2. QED
        BY <1>9, <4>1, ElemsAppend DEF HandshakeFail, IInv, TypeOK
    <3>2. CASE worker = "exited"
      BY <1>9, <3>2 DEF HandshakeFail, HandStream
    <3>3. QED
      BY <3>1, <3>2
  <2>4. QED
    BY <1>0, <2>1, <2>2, <2>3 DEF IInv, NoEnvelopeLost
<1>10. CASE UNCHANGED vars
  BY <1>10 DEF vars, IInv, NoEnvelopeLost, TypeOK
<1>11. QED
  BY <1>1, <1>2, <1>3, <1>4, <1>5, <1>6, <1>7, <1>8, <1>9, <1>10
     DEF Next, WorkerThread

\* RequestEnvelope (spec 3, 7), for every set of requests: a caller still
\* waiting on res_rx always has its request in the intake queue, in a
\* spawned handle_request task, or on a stream that is buffered for the
\* worker, held by it or closed, whatever the worker does meanwhile.
THEOREM NoEnvelopeLostHolds == Spec => []NoEnvelopeLost
<1>1. Spec => []IInv
  BY IInvInit, IInvStep, PTL DEF Spec
<1>2. QED
  BY <1>1, PTL DEF IInv

=============================================================================
